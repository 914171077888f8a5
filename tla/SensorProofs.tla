---------------------------- MODULE SensorProofs ----------------------------
(***************************************************************************)
(* Theorems about what the sensors deliver: ImuShm, from the bus to the    *)
(* reader of the shared memory, for any number of devices, publications    *)
(* and starts, with and without a mapping of the program's own, in both    *)
(* addressings and in simulation; and SampleBuffer, which puts samples in  *)
(* the order of their time stamps, for all lengths, ages and slops.        *)
(***************************************************************************)
EXTENDS ImuShm, SampleBuffer, FiniteSetTheorems, SequenceTheorems, WellFoundedInduction,
        TLAPS

-----------------------------------------------------------------------------
(* ImuShm *)


\* A step of ImuCanLib, of read, and of the runtime.
LEMMA NextImuSteps ==
    ASSUME [NextImu]_imuVars
    PROVE  \/ \E device \in Slots, attitude \in BOOLEAN : ParseFrame(device, attitude)
           \/ BeginPublish \/ WriteBlock \/ EndPublish
           \/ BeginRead \/ ReadUnmapped \/ CopyBlock \/ EndCopy
           \/ StartImu \/ StopImu
           \/ UNCHANGED imuVars
BY DEF NextImu
-----------------------------------------------------------------------------
(* Types *)

Block == [device : 0 .. DeviceCount, pub : Nat]
Blocks == [Slots -> Block]

ImuOK ==
    /\ base \in {0, 1} /\ simulation \in BOOLEAN /\ rereads \in BOOLEAN
    /\ addrMode \in 0 .. 2 /\ partials \in [Slots -> 0 .. DeviceCount]
    /\ imus \in Blocks /\ snap \in Blocks /\ hwState \in Blocks
    /\ sequence \in Nat /\ s1 \in Nat
    /\ writing \in 0 .. DeviceCount + 1 /\ reading \in 0 .. DeviceCount + 1
    /\ running \in BOOLEAN

LEMMA ClearedOK == Cleared \in Blocks
<1>1. [device |-> 0, pub |-> 0] \in Block
  BY ImuAssumption DEF Block
<1> QED BY <1>1 DEF Cleared, Blocks

LEMMA ReplaceOK ==
    ASSUME NEW blocks \in Blocks, NEW i, NEW b \in Block
    PROVE  [blocks EXCEPT ![i] = b] \in Blocks
BY DEF Blocks

LEMMA OKInit == InitImu => ImuOK
<1> SUFFICES ASSUME InitImu PROVE ImuOK
  OBVIOUS
<1>1. partials \in [Slots -> 0 .. DeviceCount]
  BY ImuAssumption DEF InitImu
<1>2. writing \in 0 .. DeviceCount + 1 /\ reading \in 0 .. DeviceCount + 1
  BY ImuAssumption DEF InitImu
<1>3. addrMode \in 0 .. 2 /\ sequence \in Nat /\ s1 \in Nat
  BY DEF InitImu
<1>4. running \in BOOLEAN /\ imus \in Blocks /\ snap \in Blocks /\ hwState \in Blocks
  BY ClearedOK DEF InitImu
<1>5. base \in {0, 1} /\ simulation \in BOOLEAN /\ rereads \in BOOLEAN
  BY DEF InitImu
<1> QED BY <1>1, <1>2, <1>3, <1>4, <1>5 DEF ImuOK

LEMMA WriteBlockOK ==
    ASSUME ImuOK, WriteBlock
    PROVE  imus' \in Blocks
<1> DEFINE d == CASE simulation -> 0
                  [] partials[writing] = 0 -> imus[writing].device
                  [] OTHER -> partials[writing]
<1>1. imus' = [imus EXCEPT ![writing] = [device |-> d, pub |-> sequence + 1]]
  BY DEF WriteBlock, ImuOK, Blocks
<1>2. d \in 0 .. DeviceCount
  BY ImuAssumption DEF ImuOK, Blocks, Block, WriteBlock
<1> HIDE DEF d
<1>3. [device |-> d, pub |-> sequence + 1] \in Block
  BY <1>2 DEF ImuOK, Block
<1> DEFINE b == [device |-> d, pub |-> sequence + 1]
<1>4. b \in Block /\ imus' = [imus EXCEPT ![writing] = b]
  BY <1>1, <1>3
<1> HIDE DEF b
<1> QED BY <1>4, ReplaceOK DEF ImuOK

LEMMA ParseFrameOK ==
    ASSUME ImuOK, NEW device \in Slots, NEW attitude \in BOOLEAN, ParseFrame(device, attitude)
    PROVE  addrMode' \in 0 .. 2 /\ partials' \in [Slots -> 0 .. DeviceCount]
<1>1. addrMode' \in 0 .. 2
  BY DEF ParseFrame, ModeAfter, ImuOK
<1>2. partials' \in [Slots -> 0 .. DeviceCount]
  BY ImuAssumption DEF ParseFrame, ImuOK, Slots
<1> QED BY <1>1, <1>2

LEMMA OKStep ==
    ASSUME ImuOK, [NextImu]_imuVars
    PROVE  ImuOK'
<1>1. CASE \E device \in Slots, attitude \in BOOLEAN : ParseFrame(device, attitude)
  BY <1>1, ParseFrameOK DEF ParseFrame, ImuOK, shmVars, copyVars, heldVars, startVars
<1>2. CASE BeginPublish
  BY <1>2, ImuAssumption DEF BeginPublish, ImuOK, senderVars, copyVars, heldVars, startVars
<1>3. CASE WriteBlock
  <2>1. writing' \in 0 .. DeviceCount + 1
    BY <1>3, ImuAssumption DEF WriteBlock, Slots, ImuOK
  <2> QED BY <1>3, <2>1, WriteBlockOK
          DEF WriteBlock, ImuOK, senderVars, copyVars, heldVars, startVars
<1>4. CASE EndPublish
  BY <1>4, ImuAssumption DEF EndPublish, ImuOK, senderVars, copyVars, heldVars, startVars
<1>5. CASE BeginRead
  BY <1>5, ClearedOK, ImuAssumption
     DEF BeginRead, BeginCopy, ImuOK, senderVars, shmVars, heldVars, startVars
<1>6. CASE ReadUnmapped
  BY <1>6, ClearedOK
     DEF ReadUnmapped, KeepLast, ImuOK, senderVars, shmVars, copyVars, startVars
<1>7. CASE CopyBlock
  <2>1. imus[reading] \in Block
    BY <1>7 DEF CopyBlock, ImuOK, Blocks
  <2>2. snap' \in Blocks
    BY <1>7, <2>1, ReplaceOK DEF CopyBlock, ImuOK
  <2>3. reading' \in 0 .. DeviceCount + 1
    BY <1>7, ImuAssumption DEF CopyBlock, Slots
  <2> QED BY <1>7, <2>2, <2>3 DEF CopyBlock, ImuOK, senderVars, shmVars, heldVars, startVars
<1>8. CASE EndCopy
  <2>1. /\ snap' \in Blocks /\ hwState' \in Blocks /\ s1' \in Nat
        /\ reading' \in 0 .. DeviceCount + 1
    BY <1>8, ClearedOK, ImuAssumption
       DEF EndCopy, LeaveRead, BeginCopy, KeepLast, ImuOK, heldVars
  <2> QED BY <1>8, <2>1 DEF EndCopy, ImuOK, senderVars, shmVars, startVars
<1>9. CASE StartImu
  BY <1>9, ClearedOK DEF StartImu, ImuOK, senderVars, copyVars
<1>10. CASE StopImu
  BY <1>10 DEF StopImu, ImuOK, senderVars, shmVars, copyVars, heldVars
<1>11. CASE UNCHANGED imuVars
  BY <1>11 DEF imuVars, ImuOK, senderVars, shmVars, copyVars, heldVars, startVars
<1> QED BY NextImuSteps, <1>1, <1>2, <1>3, <1>4, <1>5, <1>6, <1>7, <1>8, <1>9, <1>10, <1>11
-----------------------------------------------------------------------------
(* How many publications a copy mixes *)

\* The blocks up to the one being written are of the next publication already.
PublicationsInv ==
    /\ ~running => writing = 0 /\ reading = 0
    /\ \A i \in Slots : imus[i].pub = IF i < writing THEN sequence + 1 ELSE sequence

\* What has been copied is not older than the number that was read before.
CopyInv ==
    reading > 0 => /\ s1 <= sequence
                   /\ \A i \in Slots : i < reading =>
                         s1 <= snap[i].pub /\ snap[i].pub <= sequence + 1

MixInv == PublicationsInv /\ CopyInv /\ NearlyWhole

LEMMA ClearedPub == \A i \in Slots : Cleared[i].pub = 0 /\ Cleared[i].device = 0
BY DEF Cleared

LEMMA MixInit == InitImu => MixInv
BY ClearedPub, ImuAssumption
   DEF InitImu, MixInv, PublicationsInv, CopyInv, NearlyWhole, Slots

LEMMA WriteBlockPub ==
    ASSUME ImuOK, WriteBlock, NEW i \in Slots
    PROVE  imus'[i].pub = IF i = writing THEN sequence + 1 ELSE imus[i].pub
BY DEF ImuOK, WriteBlock, Blocks

LEMMA MixStep ==
    ASSUME ImuOK, MixInv, [NextImu]_imuVars
    PROVE  MixInv'
<1> USE DEF MixInv
<1>1. CASE \E device \in Slots, attitude \in BOOLEAN : ParseFrame(device, attitude)
  BY <1>1 DEF ParseFrame, PublicationsInv, CopyInv, NearlyWhole,
              shmVars, copyVars, heldVars, startVars
<1>2. CASE BeginPublish
  <2>1. PublicationsInv'
    BY <1>2, ImuAssumption DEF BeginPublish, PublicationsInv, Slots, startVars
  <2> QED BY <1>2, <2>1 DEF BeginPublish, CopyInv, NearlyWhole, copyVars, heldVars, startVars
<1>3. CASE WriteBlock
  <2>1. PublicationsInv'
    <3>1. running' /\ writing' = writing + 1 /\ sequence' = sequence
      BY <1>3 DEF WriteBlock, PublicationsInv, ImuOK, startVars, Slots
    <3>2. ASSUME NEW i \in Slots
          PROVE  imus'[i].pub = IF i < writing' THEN sequence' + 1 ELSE sequence'
      BY <1>3, <3>1, <3>2, WriteBlockPub DEF PublicationsInv, ImuOK, Slots
    <3> QED BY <3>1, <3>2 DEF PublicationsInv
  <2> QED BY <1>3, <2>1 DEF WriteBlock, CopyInv, NearlyWhole, copyVars, heldVars, startVars
<1>4. CASE EndPublish
  <2>1. PublicationsInv'
    BY <1>4, ImuAssumption DEF EndPublish, PublicationsInv, Slots, ImuOK, startVars, copyVars
  <2>2. CopyInv'
    BY <1>4 DEF EndPublish, CopyInv, copyVars, ImuOK, Blocks, Block
  <2> QED BY <1>4, <2>1, <2>2 DEF EndPublish, NearlyWhole, heldVars, startVars
<1>5. CASE BeginRead
  BY <1>5 DEF BeginRead, BeginCopy, PublicationsInv, CopyInv, NearlyWhole, ImuOK, Slots,
              shmVars, heldVars, startVars
<1>6. CASE ReadUnmapped
  BY <1>6, ClearedPub DEF ReadUnmapped, KeepLast, PublicationsInv, CopyInv, NearlyWhole,
                          shmVars, copyVars, startVars
<1>7. CASE CopyBlock
  <2>1. PublicationsInv'
    BY <1>7 DEF CopyBlock, PublicationsInv, Slots, shmVars, startVars
  <2>2. CopyInv'
    <3>1. imus[reading].pub \in {sequence, sequence + 1}
      BY <1>7 DEF CopyBlock, PublicationsInv
    <3>2. ASSUME NEW i \in Slots, i < reading'
          PROVE  s1' <= snap'[i].pub /\ snap'[i].pub <= sequence' + 1
      BY <1>7, <3>1, <3>2 DEF CopyBlock, CopyInv, ImuOK, Blocks, Slots, shmVars
    <3> QED BY <1>7, <3>2 DEF CopyBlock, CopyInv, Slots, shmVars
  <2> QED BY <1>7, <2>1, <2>2 DEF CopyBlock, NearlyWhole, heldVars, startVars
<1>8. CASE EndCopy
  <2>1. running /\ UNCHANGED <<running, rereads, imus, sequence, writing>>
    BY <1>8, ImuAssumption DEF EndCopy, PublicationsInv, ImuOK, startVars, shmVars
  <2>2. PublicationsInv'
    BY <2>1 DEF PublicationsInv
  <2>3. CopyInv'
    BY <1>8, <2>1 DEF EndCopy, LeaveRead, BeginCopy, CopyInv, ImuOK, Slots
  <2>4. NearlyWhole'
    <3>1. CASE hwState' = snap /\ Whole
      <4>1. reading = DeviceCount + 1 /\ DeviceCount \in Nat
        BY <1>8, ImuAssumption DEF EndCopy
      <4>2. rereads => s1 = sequence
        BY <3>1 DEF Whole
      <4>3. ASSUME rereads, NEW i \in Slots
            PROVE  snap[i].pub \in {sequence, sequence + 1}
        <5>1. sequence <= snap[i].pub /\ snap[i].pub <= sequence + 1
          BY <4>1, <4>2, <4>3 DEF CopyInv, Slots
        <5>2. snap[i].pub \in Nat /\ sequence \in Nat
          BY DEF ImuOK, Blocks, Block
        <5> QED BY <5>1, <5>2
      <4>4. sequence \in Nat
        BY DEF ImuOK
      <4> QED BY <2>1, <3>1, <4>3, <4>4 DEF NearlyWhole
    <3>2. CASE hwState' \in {hwState, Cleared}
      BY <2>1, <3>2, ClearedPub DEF NearlyWhole
    <3> QED BY <1>8, <3>1, <3>2 DEF EndCopy, KeepLast, heldVars
  <2> QED BY <2>2, <2>3, <2>4
<1>9. CASE StartImu
  <2>1. PublicationsInv'
    BY <1>9, ClearedPub, ImuAssumption DEF StartImu, PublicationsInv, Slots
  <2> QED BY <1>9, <2>1 DEF StartImu, PublicationsInv, CopyInv, NearlyWhole, copyVars
<1>10. CASE StopImu
  BY <1>10 DEF StopImu, PublicationsInv, CopyInv, NearlyWhole, shmVars, copyVars, heldVars
<1>11. CASE UNCHANGED imuVars
  BY <1>11 DEF imuVars, PublicationsInv, CopyInv, NearlyWhole,
               shmVars, copyVars, heldVars, startVars
<1> QED BY NextImuSteps, <1>1, <1>2, <1>3, <1>4, <1>5, <1>6, <1>7, <1>8, <1>9, <1>10, <1>11

\* A copy that compares two readings of the number mixes two successive
\* publications at most (read, against publish_shm).
THEOREM CopiesNearlyWhole == SpecImu => []NearlyWhole
<1> DEFINE Inv == ImuOK /\ MixInv
<1>1. InitImu => Inv
  BY OKInit, MixInit
<1>2. Inv /\ [NextImu]_imuVars => Inv'
  BY OKStep, MixStep
<1>3. Inv => NearlyWhole
  BY DEF MixInv
<1> QED BY <1>1, <1>2, <1>3, PTL DEF SpecImu
-----------------------------------------------------------------------------
(* Whose attitude an axis shows *)

\* A bus tells one mode at most; before it does, no axis of a zero-based bus is
\* its own device's, and in a one-based bus every one is.
AddressInv ==
    /\ addrMode = (IF base = 0 THEN 1 ELSE 2) \/ addrMode = 0
    /\ base = 1 => \A i \in Slots : partials[i] \in {0, i}
    /\ addrMode = 0 /\ base = 0 => \A i \in Slots : partials[i] # i
    /\ simulation => \A i \in Slots : partials[i] = 0

\* What has come as far as a block, a copy or the client is at the sender still, and
\* nothing else overtakes it.
AxisInv ==
    \A i \in Slots :
        /\ imus[i].device = i => partials[i] = i
        /\ i < reading /\ snap[i].device = i => imus[i].device = i
        /\ hwState[i].device = i =>
              /\ partials[i] = i
              /\ imus[i].device \in {0, i}
              /\ i < reading => snap[i].device \in {0, i}

OwnInv == AddressInv /\ AxisInv

LEMMA OwnInit == InitImu => OwnInv
<1> SUFFICES ASSUME InitImu PROVE OwnInv
  OBVIOUS
<1>1. AddressInv
  BY DEF InitImu, AddressInv, Slots
<1>2. AxisInv
  BY ClearedPub DEF InitImu, AxisInv, Slots
<1> QED BY <1>1, <1>2 DEF OwnInv

\* Once an accumulator holds its own device's attitude it always does.
LEMMA ParseFrameOwn ==
    ASSUME ImuOK, AddressInv,
           NEW device \in Slots, NEW attitude \in BOOLEAN, ParseFrame(device, attitude)
    PROVE  /\ AddressInv'
           /\ \A i \in Slots : partials[i] = i => partials'[i] = i
<1> DEFINE addr == device - 1 + base
<1>1. /\ addrMode' = ModeAfter(addr) /\ UNCHANGED <<base, simulation>> /\ ~simulation
      /\ \/ UNCHANGED partials
         \/ partials' = [partials EXCEPT ![Index(addr)] = device]
  BY DEF ParseFrame
<1>2. device \in 1 .. DeviceCount /\ DeviceCount \in Nat
  BY ImuAssumption DEF Slots
<1>3. CASE base = 0
  <2>1. addr = device - 1 /\ addr # DeviceCount
    BY <1>2, <1>3
  <2>2. addrMode' \in {0, 1} /\ (addrMode = 1 => addrMode' = 1)
    BY <1>1, <1>3, <2>1 DEF ModeAfter, AddressInv
  <2>3. Index(addr) = IF addrMode' = 1 THEN device ELSE device - 1
    BY <1>1, <1>2, <2>1 DEF Index
  <2>4. \A i \in Slots : partials'[i] = partials[i] \/ (partials'[i] = device /\ i = Index(addr))
    BY <1>1 DEF ImuOK
  <2>5. AddressInv'
    BY <1>1, <1>2, <1>3, <2>2, <2>3, <2>4 DEF AddressInv
  <2>6. ASSUME NEW i \in Slots, partials[i] = i
        PROVE  partials'[i] = i
    <3>1. addrMode = 1
      BY <1>3, <2>6 DEF AddressInv
    <3> QED BY <2>2, <2>3, <2>4, <2>6, <3>1
  <2> QED BY <2>5, <2>6
<1>4. CASE base = 1
  <2>1. addr = device /\ addr # 0
    BY <1>2, <1>4
  <2>2. addrMode' \in {0, 2}
    BY <1>1, <1>4, <2>1 DEF ModeAfter, AddressInv
  <2>3. Index(addr) = device
    BY <1>1, <2>1, <2>2 DEF Index
  <2>4. \A i \in Slots : partials'[i] = partials[i] \/ (partials'[i] = device /\ i = device)
    BY <1>1, <2>3 DEF ImuOK
  <2> QED BY <1>1, <1>4, <2>2, <2>4 DEF AddressInv
<1> QED BY <1>3, <1>4 DEF ImuOK

\* What a publication does to an axis.
LEMMA WriteBlockDevice ==
    ASSUME ImuOK, AddressInv, WriteBlock, NEW i \in Slots
    PROVE  imus'[i].device \in {imus[i].device, IF simulation THEN 0 ELSE partials[i]}
BY DEF ImuOK, WriteBlock, Blocks, AddressInv

LEMMA OwnStep ==
    ASSUME ImuOK, MixInv, OwnInv, [NextImu]_imuVars
    PROVE  OwnInv' /\ \A i \in Slots : hwState[i].device = i => hwState'[i].device \in {0, i}
<1> USE DEF OwnInv
<1> DEFINE Stays == \A i \in Slots : hwState[i].device = i => hwState'[i].device \in {0, i}
<1>1. CASE \E device \in Slots, attitude \in BOOLEAN : ParseFrame(device, attitude)
  <2>1. AddressInv' /\ \A i \in Slots : partials[i] = i => partials'[i] = i
    BY <1>1, ParseFrameOwn
  <2>2. UNCHANGED <<imus, snap, reading, hwState>>
    BY <1>1 DEF ParseFrame, shmVars, copyVars, heldVars
  <2> QED BY <2>1, <2>2 DEF AxisInv
<1>2. CASE BeginPublish \/ EndPublish
  BY <1>2 DEF BeginPublish, EndPublish, AddressInv, AxisInv, senderVars, copyVars, heldVars
<1>3. CASE WriteBlock
  <2>1. UNCHANGED <<addrMode, base, simulation, partials, snap, reading, hwState>>
    BY <1>3 DEF WriteBlock, senderVars, copyVars, heldVars
  <2>2. \A i \in Slots : imus'[i].device \in {imus[i].device, IF simulation THEN 0 ELSE partials[i]}
    BY <1>3, WriteBlockDevice
  <2>3. ASSUME NEW i \in Slots
        PROVE  /\ imus'[i].device = i => partials[i] = i
               /\ imus[i].device = i => imus'[i].device = i
    <3>1. i # 0
      BY DEF Slots
    <3> QED BY <2>2, <3>1 DEF AddressInv, AxisInv
  <2>4. AxisInv'
    BY <2>1, <2>2, <2>3 DEF AxisInv
  <2> QED BY <2>1, <2>4 DEF AddressInv
<1>4. CASE BeginRead
  <2>1. AxisInv'
    BY <1>4 DEF BeginRead, BeginCopy, AxisInv, Slots, senderVars, shmVars, heldVars
  <2> QED BY <1>4, <2>1 DEF BeginRead, AddressInv, senderVars, heldVars
<1>5. CASE ReadUnmapped
  <2>1. hwState' \in {hwState, Cleared} /\ UNCHANGED <<senderVars, shmVars, copyVars>>
    BY <1>5 DEF ReadUnmapped, KeepLast
  <2>2. \A i \in Slots : hwState'[i].device \in {hwState[i].device, 0} /\ i # 0
    BY <2>1, ClearedPub DEF Slots
  <2> QED BY <2>1, <2>2 DEF AddressInv, AxisInv, senderVars, shmVars, copyVars
<1>6. CASE CopyBlock
  <2>1. UNCHANGED <<addrMode, base, simulation, partials, imus, hwState>>
    BY <1>6 DEF CopyBlock, senderVars, shmVars, heldVars
  <2>2. reading' = reading + 1 /\ reading \in Slots
        /\ \A i \in Slots : snap'[i] = IF i = reading THEN imus[i] ELSE snap[i]
    BY <1>6 DEF CopyBlock, ImuOK, Blocks
  <2>3. \A i \in Slots : i < reading' => i < reading \/ i = reading
    BY <2>2 DEF Slots
  <2>4. AxisInv'
    BY <2>1, <2>2, <2>3 DEF AxisInv
  <2> QED BY <2>1, <2>4 DEF AddressInv
<1>7. CASE EndCopy
  <2>1. UNCHANGED <<addrMode, base, simulation, partials, imus>>
    BY <1>7 DEF EndCopy, senderVars, shmVars
  <2>2. \A i \in Slots : i < reading /\ ~(i < reading') /\ i # 0
    BY <1>7, ImuAssumption DEF EndCopy, LeaveRead, BeginCopy, Slots
  <2>3. hwState' \in {snap, hwState, Cleared}
    BY <1>7 DEF EndCopy, KeepLast, heldVars
  <2>4. \A i \in Slots : hwState'[i].device \in {snap[i].device, hwState[i].device, 0}
    BY <2>3, ClearedPub
  <2> QED BY <2>1, <2>2, <2>4 DEF AddressInv, AxisInv
<1>8. CASE StartImu
  <2>1. UNCHANGED <<addrMode, base, simulation, partials, snap, reading, hwState>>
    BY <1>8 DEF StartImu, senderVars, copyVars
  <2>2. imus' \in {imus, Cleared}
    BY <1>8 DEF StartImu
  <2>3. \A i \in Slots : ~(i < reading) /\ i # 0
    BY <1>8 DEF StartImu, MixInv, PublicationsInv, Slots
  <2> QED BY <2>1, <2>2, <2>3, ClearedPub DEF AddressInv, AxisInv, Slots
<1>9. CASE StopImu
  BY <1>9 DEF StopImu, AddressInv, AxisInv, senderVars, shmVars, copyVars, heldVars
<1>10. CASE UNCHANGED imuVars
  BY <1>10 DEF imuVars, AddressInv, AxisInv, senderVars, shmVars, copyVars, heldVars
<1> QED BY NextImuSteps, <1>1, <1>2, <1>3, <1>4, <1>5, <1>6, <1>7, <1>8, <1>9, <1>10

\* Once an axis has shown its own device it never shows another's, in either
\* addressing, in whatever order frames come and over any number of restarts.
THEOREM AxesStayOwn == SpecImu => OwnAxisStays
<1> DEFINE Inv == ImuOK /\ MixInv /\ OwnInv
<1>1. InitImu => Inv
  BY OKInit, MixInit, OwnInit
<1>2. Inv /\ [NextImu]_imuVars => Inv'
  BY OKStep, MixStep, OwnStep
<1>3. Inv /\ [NextImu]_imuVars =>
        [\A i \in Slots : hwState[i].device = i => hwState'[i].device \in {0, i}]_imuVars
  BY OwnStep
<1> QED BY <1>1, <1>2, <1>3, PTL DEF SpecImu, OwnAxisStays
-----------------------------------------------------------------------------
(* SampleBuffer *)

(***************************************************************************)
(* The buffers are sorted, and end with the newest sample that there ever  *)
(* was: a late sample is put in its place, the first of a full buffer is   *)
(* not its last, and the newest is never too old for a late one.           *)
(***************************************************************************)

Ordered(s) == \A i, j \in 1 .. Len(s) : i <= j => s[i] <= s[j]

BufferOK(s, newest) ==
    /\ s \in Seq(Times) /\ Ordered(s)
    /\ \/ newest = 0 /\ s = <<>>
       \/ newest \in Times /\ s # <<>> /\ s[Len(s)] = newest

BufferInv == BufferOK(joints, newestJoint) /\ BufferOK(images, newestImage)

\* A set of natural numbers has a smallest one.
LEMMA SmallestNat ==
    ASSUME NEW S, S \subseteq Nat, S # {}
    PROVE  \E x \in S : \A y \in S : x <= y
<1>1. PICK x \in S : \A y \in S : ~(<<y, x>> \in OpToRel(<, Nat))
  BY NatLessThanWellFounded, WFMin
<1>2. ASSUME NEW y \in S PROVE x <= y
  <2>1. x \in Nat /\ y \in Nat
    OBVIOUS
  <2>2. <<y, x>> \notin OpToRel(<, Nat)
    BY <1>1
  <2>3. ~(y < x)
    BY <2>1, <2>2 DEF OpToRel
  <2> QED
    BY <2>1, <2>3
<1> QED
  BY <1>2

\* A set of numbers that contains with each all those before it is an interval.
LEMMA PrefixSet ==
    ASSUME NEW n \in Nat, NEW S, S \subseteq 1 .. n,
           \A i \in S : \A j \in 1 .. i : j \in S
    PROVE  \E k \in 0 .. n : S = 1 .. k
<1> DEFINE T == {m \in 1 .. n + 1 : m \notin S}
<1>1. T \subseteq Nat /\ n + 1 \in T
  OBVIOUS
<1>2. PICK m \in T : \A y \in T : m <= y
  BY <1>1, SmallestNat
<1>3. m \in 1 .. n + 1 /\ m \notin S
  OBVIOUS
<1>4. ASSUME NEW i \in 1 .. m - 1 PROVE i \in S
  <2>1. i \in 1 .. n + 1 /\ ~(m <= i)
    BY <1>3
  <2> QED
    BY <1>2, <2>1
<1>5. ASSUME NEW i \in S PROVE i \in 1 .. m - 1
  <2>1. i \in 1 .. n
    OBVIOUS
  <2>2. ~(m <= i)
    BY <1>3, <2>1
  <2> QED
    BY <1>3, <2>1, <2>2
<1>6. m - 1 \in 0 .. n
  BY <1>3
<1>7. S = 1 .. m - 1
  BY <1>4, <1>5
<1> QED
  BY <1>6, <1>7

LEMMA MaxIs ==
    ASSUME NEW S, S \subseteq Int, NEW x \in S, \A y \in S : y <= x
    PROVE  Max(S) = x
<1>1. \A y \in S : x >= y
  OBVIOUS
<1>2. Max(S) \in S /\ \A y \in S : Max(S) >= y
  BY <1>1, Zenon DEF Max
<1>3. Max(S) \in Int /\ x \in Int /\ Max(S) >= x /\ Max(S) <= x
  BY <1>2
<1> QED
  BY <1>3

LEMMA TimesNat == /\ Times \subseteq Nat \ {0} /\ MaxLen \in Nat \ {0, 1}
                  /\ MaxAge \in Nat /\ Slop \in Nat \ {0}
BY SampleBufferAssumption

LEMMA SampleType ==
    ASSUME NEW s \in Seq(Times), NEW i \in 1 .. Len(s)
    PROVE  s[i] \in Times /\ s[i] \in Nat /\ s[i] # 0
<1>1. s[i] \in Times
  OBVIOUS
<1> QED
  BY <1>1, TimesNat
-----------------------------------------------------------------------------
(* Sorting *)

\* One late sample at the end of an ordered buffer: there is a place for it.
LEMMA LatePlaced ==
    ASSUME NEW s \in Seq(Times), NEW n \in Nat, Len(s) = n + 1,
           \A i, j \in 1 .. n : i <= j => s[i] <= s[j]
    PROVE  \E p \in Surjection(1 .. n + 1, 1 .. n + 1) :
             \A i, j \in 1 .. n + 1 : i < j => s[p[i]] <= s[p[j]]
<1> DEFINE x == s[n + 1]
           S == {i \in 1 .. n : s[i] <= x}
<1>1. \A i \in 1 .. n + 1 : s[i] \in Nat
  BY SampleType
<1>2. PICK k \in 0 .. n : S = 1 .. k
  <2>1. \A i \in S : \A j \in 1 .. i : j \in S
    BY <1>1
  <2>2. S \subseteq 1 .. n
    OBVIOUS
  <2> HIDE DEF S
  <2> QED
    BY <2>1, <2>2, PrefixSet
<1> DEFINE p == [i \in 1 .. n + 1 |-> IF i <= k THEN i ELSE IF i = k + 1 THEN n + 1 ELSE i - 1]
<1>3. p \in Surjection(1 .. n + 1, 1 .. n + 1)
  <2>1. p \in [1 .. n + 1 -> 1 .. n + 1]
    OBVIOUS
  <2>2. ASSUME NEW w \in 1 .. n + 1 PROVE \E v \in 1 .. n + 1 : p[v] = w
    <3>1. CASE w <= k
      BY <3>1
    <3>2. CASE w = n + 1
      <4>1. k + 1 \in 1 .. n + 1 /\ p[k + 1] = n + 1
        OBVIOUS
      <4> QED
        BY <3>2, <4>1
    <3>3. CASE w > k /\ w # n + 1
      <4>1. w + 1 \in 1 .. n + 1 /\ p[w + 1] = w
        BY <3>3
      <4> QED
        BY <4>1
    <3> QED
      BY <3>1, <3>2, <3>3
  <2> QED
    BY <2>1, <2>2 DEF Surjection
<1>4. ASSUME NEW i \in 1 .. n + 1, NEW j \in 1 .. n + 1, i < j
      PROVE  s[p[i]] <= s[p[j]]
  <2>1. \A v \in 1 .. k : s[v] <= x
    BY <1>2
  <2>2. \A v \in k + 1 .. n : x <= s[v]
    <3>1. ASSUME NEW v \in k + 1 .. n PROVE x <= s[v]
      <4>1. v \notin S /\ v \in 1 .. n
        BY <1>2
      <4>2. ~(s[v] <= x) /\ s[v] \in Nat /\ x \in Nat
        BY <1>1, <4>1
      <4> QED
        BY <4>2
    <3> QED
      BY <3>1
  <2>3. CASE j <= k
    BY <1>4, <2>3
  <2>4. CASE j = k + 1
    BY <1>4, <2>1, <2>4
  <2>5. CASE j > k + 1 /\ i <= k
    <3>1. p[i] = i /\ p[j] = j - 1 /\ i \in 1 .. n /\ j - 1 \in 1 .. n /\ i <= j - 1
      BY <1>4, <2>5
    <3> QED
      BY <3>1
  <2>6. CASE j > k + 1 /\ i = k + 1
    <3>1. p[i] = n + 1 /\ p[j] = j - 1 /\ j - 1 \in k + 1 .. n
      BY <1>4, <2>6
    <3> QED
      BY <2>2, <3>1
  <2>7. CASE j > k + 1 /\ i > k + 1
    <3>1. /\ p[i] = i - 1 /\ p[j] = j - 1 /\ i - 1 \in 1 .. n /\ j - 1 \in 1 .. n
          /\ i - 1 <= j - 1
      BY <1>4, <2>7
    <3> QED
      BY <3>1
  <2> QED
    BY <2>3, <2>4, <2>5, <2>6, <2>7
<1> QED
  BY <1>3, <1>4

LEMMA SortedOrdered ==
    ASSUME NEW s \in Seq(Times), NEW n \in Nat, Len(s) = n + 1,
           \A i, j \in 1 .. n : i <= j => s[i] <= s[j]
    PROVE  /\ SortedByTime(s) \in Seq(Times) /\ Len(SortedByTime(s)) = n + 1
           /\ Ordered(SortedByTime(s))
           /\ \A i \in 1 .. n + 1 : \E v \in 1 .. n + 1 : SortedByTime(s)[v] = s[i]
           /\ \A v \in 1 .. n + 1 : \E i \in 1 .. n + 1 : SortedByTime(s)[v] = s[i]
<1> DEFINE places == 1 .. n + 1
           order == CHOOSE p \in Surjection(places, places) :
                       \A i, j \in places : i < j => s[p[i]] <= s[p[j]]
           t == [i \in places |-> s[order[i]]]
<1>1. DOMAIN s = places
  OBVIOUS
<1>2. SortedByTime(s) = t
  BY <1>1 DEF SortedByTime
<1>3. /\ order \in Surjection(places, places)
      /\ \A i, j \in places : i < j => s[order[i]] <= s[order[j]]
  BY LatePlaced
<1> HIDE DEF order
<1>4. /\ order \in [places -> places]
      /\ \A w \in places : \E v \in places : order[v] = w
  BY <1>3 DEF Surjection
<1>5. \A i \in places : s[i] \in Times /\ s[i] \in Nat
  BY SampleType
<1>6. t \in [1 .. n + 1 -> Times] /\ n + 1 \in Nat
  <2>1. \A i \in places : s[order[i]] \in Times
    BY <1>4, <1>5
  <2> QED
    BY <2>1
<1>7. t \in Seq(Times) /\ Len(t) = n + 1
  BY <1>6
<1>8. Ordered(t)
  <2>1. ASSUME NEW i \in places, NEW j \in places, i <= j PROVE t[i] <= t[j]
    <3>1. CASE i = j
      <4>1. t[i] = s[order[i]] /\ s[order[i]] \in Nat
        BY <1>4, <1>5
      <4> QED
        BY <3>1, <4>1
    <3>2. CASE i # j
      BY <1>3, <2>1, <3>2
    <3> QED
      BY <3>1, <3>2
  <2> QED
    BY <1>7, <2>1 DEF Ordered
<1>9. \A i \in places : \E v \in places : t[v] = s[i]
  BY <1>4
<1>10. \A v \in places : \E i \in places : t[v] = s[i]
  BY <1>4
<1> QED
  BY <1>2, <1>7, <1>8, <1>9, <1>10
-----------------------------------------------------------------------------
(* add *)

\* What the deque holds then: the old samples, without the first if it was full.
LEMMA AppendedOrdered ==
    ASSUME NEW s, NEW newest, BufferOK(s, newest), NEW ts \in Times
    PROVE  LET all == Appended(s, ts)
           IN  \E n \in Nat :
                 /\ all \in Seq(Times) /\ Len(all) = n + 1 /\ all[n + 1] = ts
                 /\ \A i, j \in 1 .. n : i <= j => all[i] <= all[j]
                 /\ newest = 0 => n = 0
                 /\ newest # 0 => n # 0 /\ all[n] = newest
<1> USE DEF BufferOK, Ordered
<1>1. s \in Seq(Times) /\ Len(s) \in Nat /\ MaxLen \in Nat \ {0, 1} /\ 0 \notin Times
  BY TimesNat
<1>2. s # <<>> => Len(s) # 0
  BY EmptySeq
<1>3. CASE Len(s) # MaxLen
  <2>1. Appended(s, ts) = Append(s, ts)
    BY <1>3 DEF Appended
  <2>2. /\ Append(s, ts) \in Seq(Times) /\ Len(Append(s, ts)) = Len(s) + 1
        /\ \A i \in 1 .. Len(s) : Append(s, ts)[i] = s[i]
        /\ Append(s, ts)[Len(s) + 1] = ts
    BY <1>1, AppendProperties
  <2>3. newest = 0 => Len(s) = 0
    BY <1>1
  <2>4. newest # 0 => Len(s) # 0 /\ Len(s) \in 1 .. Len(s) /\ s[Len(s)] = newest
    BY <1>1, <1>2
  <2> QED
    BY <1>1, <2>1, <2>2, <2>3, <2>4
<1>4. CASE Len(s) = MaxLen
  <2> DEFINE t == Tail(s)
             n == Len(s) - 1
  <2>1. s # <<>>
    BY <1>1, <1>4
  <2>2. t \in Seq(Times) /\ Len(t) = n /\ \A i \in 1 .. n : t[i] = s[i + 1]
    BY <1>1, <2>1, HeadTailProperties
  <2>3. n \in Nat /\ n # 0 /\ n + 1 = Len(s)
    BY <1>1, <1>4
  <2>4. Appended(s, ts) = Append(t, ts)
    BY <1>4 DEF Appended
  <2> HIDE DEF t
  <2>5. /\ Append(t, ts) \in Seq(Times) /\ Len(Append(t, ts)) = n + 1
        /\ \A i \in 1 .. n : Append(t, ts)[i] = t[i]
        /\ Append(t, ts)[n + 1] = ts
    BY <2>2, AppendProperties
  <2> HIDE DEF n
  <2>6. \A i, j \in 1 .. n : i <= j => t[i] <= t[j]
    <3>1. ASSUME NEW i \in 1 .. n, NEW j \in 1 .. n, i <= j PROVE t[i] <= t[j]
      <4>1. i + 1 \in 1 .. Len(s) /\ j + 1 \in 1 .. Len(s) /\ i + 1 <= j + 1
        BY <2>3, <3>1
      <4> QED
        BY <2>2, <4>1
    <3> QED
      BY <3>1
  <2>7. newest # 0 /\ t[n] = newest
    <3>1. newest \in Times /\ s[Len(s)] = newest
      BY <2>1
    <3>2. n \in 1 .. n
      BY <2>3
    <3> QED
      BY <1>1, <2>2, <2>3, <3>1, <3>2
  <2>8. n \in 1 .. n
    BY <2>3
  <2> QED
    BY <2>3, <2>4, <2>5, <2>6, <2>7, <2>8
<1> QED
  BY <1>3, <1>4

\* The age limit drops a part from the front, and never the last, which is no older
\* than the sample that was added.
LEMMA UnexpiredOrdered ==
    ASSUME NEW s \in Seq(Times), NEW n \in Nat, Len(s) = n + 1, Ordered(s),
           NEW ts \in Times, ts <= s[n + 1]
    PROVE  BufferOK(Unexpired(s, ts), s[n + 1])
<1> DEFINE old == {i \in 1 .. Len(s) : \A j \in 1 .. i : s[j] < ts - MaxAge}
<1>1. /\ n + 1 \in 1 .. Len(s) /\ s[n + 1] \in Times /\ s[n + 1] \in Nat
      /\ ts \in Nat /\ MaxAge \in Nat
  BY SampleType, TimesNat
<1>2. n + 1 \notin old
  BY <1>1
<1>3. PICK k \in 0 .. Len(s) : old = 1 .. k
  <2>1. \A i \in old : \A j \in 1 .. i : j \in old
    OBVIOUS
  <2>2. old \subseteq 1 .. Len(s) /\ Len(s) \in Nat
    OBVIOUS
  <2> HIDE DEF old
  <2> QED
    BY <2>1, <2>2, PrefixSet
<1> HIDE DEF old
<1>4. k \in 0 .. n
  <2>1. k \in Nat /\ k <= n + 1 /\ ~(n + 1 <= k)
    BY <1>2, <1>3
  <2> QED
    BY <2>1
<1>5. Cardinality(old) = k
  <2>1. k \in Int /\ 1 \in Int /\ (k = 0 <=> 1 > k) /\ k - 1 + 1 = k
    BY <1>4
  <2>2. Cardinality(1 .. k) = IF 1 > k THEN 0 ELSE k - 1 + 1
    BY <2>1, FS_Interval
  <2> QED
    BY <1>3, <2>1, <2>2
<1> DEFINE t == SubSeq(s, k + 1, n + 1)
<1>6. Unexpired(s, ts) = t
  BY <1>5 DEF Unexpired, old
<1>7. /\ t \in Seq(Times) /\ Len(t) = n + 1 - k
      /\ \A i \in 1 .. n + 1 - k : t[i] = s[k + i]
  <2>1. \A i \in k + 1 .. n + 1 : s[i] \in Times
    BY <1>4, SampleType
  <2>2. k + 1 \in Int /\ n + 1 \in Int /\ k + 1 <= n + 1
    BY <1>4
  <2>3. /\ t \in Seq(Times)
        /\ Len(t) = IF k + 1 <= n + 1 THEN n + 1 - (k + 1) + 1 ELSE 0
        /\ \A i \in 1 .. n + 1 - (k + 1) + 1 : t[i] = s[k + 1 + i - 1]
    BY <2>1, <2>2, SubSeqProperties
  <2> HIDE DEF t
  <2> QED
    BY <1>4, <2>2, <2>3
<1> HIDE DEF t
<1>8. Ordered(t)
  <2>1. ASSUME NEW i \in 1 .. Len(t), NEW j \in 1 .. Len(t), i <= j PROVE t[i] <= t[j]
    <3>1. k + i \in 1 .. Len(s) /\ k + j \in 1 .. Len(s) /\ k + i <= k + j
      BY <1>4, <1>7, <2>1
    <3>2. s[k + i] <= s[k + j]
      BY <3>1 DEF Ordered
    <3> QED
      BY <1>7, <3>2
  <2> QED
    BY <2>1 DEF Ordered
<1>9. t # <<>> /\ t[Len(t)] = s[n + 1]
  <2>1. Len(t) \in 1 .. n + 1 - k /\ Len(t) # 0 /\ k + Len(t) = n + 1
    BY <1>4, <1>7
  <2> QED
    BY <1>7, <2>1
<1> QED
  BY <1>1, <1>6, <1>7, <1>8, <1>9 DEF BufferOK

LEMMA MaxOfTwo ==
    ASSUME NEW a \in Int, NEW b \in Int
    PROVE  Max({a, b}) = IF a < b THEN b ELSE a
<1>1. CASE a < b
  BY <1>1, MaxIs
<1>2. CASE ~(a < b)
  BY <1>2, MaxIs
<1> QED
  BY <1>1, <1>2

\* add keeps the order, and the newest sample at the end.
LEMMA AddedOrdered ==
    ASSUME NEW s, NEW newest, BufferOK(s, newest), NEW ts \in Times
    PROVE  BufferOK(Added(s, ts), Max({ts, newest}))
<1> DEFINE all == Appended(s, ts)
<1>1. PICK n \in Nat :
        /\ all \in Seq(Times) /\ Len(all) = n + 1 /\ all[n + 1] = ts
        /\ \A i, j \in 1 .. n : i <= j => all[i] <= all[j]
        /\ newest = 0 => n = 0
        /\ newest # 0 => n # 0 /\ all[n] = newest
  BY AppendedOrdered
<1>2. ts \in Nat /\ ts # 0 /\ newest \in Nat /\ (newest = 0 \/ newest \in Times)
  <2>1. newest = 0 \/ newest \in Times
    BY DEF BufferOK
  <2>2. \A time \in Times : time \in Nat /\ time # 0
    BY TimesNat
  <2>3. 0 \in Nat
    OBVIOUS
  <2> QED
    BY <2>1, <2>2, <2>3, Zenon
<1> DEFINE late == Len(all) > 1 /\ all[Len(all) - 1] > ts
<1>3. Added(s, ts) = Unexpired(IF late THEN SortedByTime(all) ELSE all, ts)
  BY DEF Added
<1>4. late <=> n # 0 /\ newest > ts
  <2>1. Len(all) - 1 = n /\ (Len(all) > 1 <=> n # 0)
    BY <1>1
  <2>2. n # 0 => all[n] = newest
    BY <1>1
  <2> QED
    BY <2>1, <2>2
<1>5. Max({ts, newest}) = IF ts < newest THEN newest ELSE ts
  BY <1>2, MaxOfTwo
<1> HIDE DEF all, late
<1>6. CASE ~late
  <2>1. Max({ts, newest}) = ts
    BY <1>1, <1>2, <1>4, <1>5, <1>6
  <2>2. Ordered(all)
    <3>1. ASSUME NEW i \in 1 .. n + 1, NEW j \in 1 .. n + 1, i <= j
          PROVE  all[i] <= all[j]
      <4>1. CASE j # n + 1
        <5>1. i \in 1 .. n /\ j \in 1 .. n
          BY <3>1, <4>1
        <5> QED
          BY <1>1, <3>1, <5>1
      <4>2. CASE j = n + 1 /\ i # n + 1
        <5>1. i \in 1 .. n /\ n \in 1 .. n /\ i <= n /\ n # 0
          BY <3>1, <4>2
        <5>2. all[i] <= newest
          BY <1>1, <5>1
        <5>3. newest <= ts
          BY <1>2, <1>4, <1>6, <5>1
        <5>4. all[i] \in Nat
          BY <1>1, <3>1, SampleType
        <5> QED
          BY <1>1, <1>2, <4>2, <5>2, <5>3, <5>4
      <4>3. CASE i = n + 1 /\ j = n + 1
        BY <1>1, <1>2, <4>3
      <4> QED
        BY <3>1, <4>1, <4>2, <4>3
    <3> QED
      BY <1>1, <3>1 DEF Ordered
  <2>3. BufferOK(Unexpired(all, ts), all[n + 1])
    BY <1>1, <1>2, <2>2, UnexpiredOrdered
  <2> QED
    BY <1>1, <1>3, <1>6, <2>1, <2>3
<1>7. CASE late
  <2> DEFINE t == SortedByTime(all)
  <2>1. /\ t \in Seq(Times) /\ Len(t) = n + 1 /\ Ordered(t)
        /\ \A i \in 1 .. n + 1 : \E v \in 1 .. n + 1 : t[v] = all[i]
        /\ \A v \in 1 .. n + 1 : \E i \in 1 .. n + 1 : t[v] = all[i]
    BY <1>1, SortedOrdered
  <2> HIDE DEF t
  <2>2. n # 0 /\ newest > ts /\ all[n] = newest
    BY <1>1, <1>2, <1>4, <1>7
  <2>3. n \in 1 .. n /\ n \in 1 .. n + 1 /\ n + 1 \in 1 .. n + 1
    BY <2>2
  <2>4. t[n + 1] \in Nat
    BY <2>1, <2>3, SampleType
  <2>5. newest <= t[n + 1]
    <3>1. PICK v \in 1 .. n + 1 : t[v] = newest
      BY <2>1, <2>2, <2>3
    <3>2. v <= n + 1 /\ v \in 1 .. Len(t) /\ n + 1 \in 1 .. Len(t)
      <4>1. Len(t) = n + 1
        BY <2>1
      <4> QED
        BY <4>1
    <3> QED
      BY <2>1, <3>1, <3>2 DEF Ordered
  <2>6. t[n + 1] <= newest
    <3>1. PICK i \in 1 .. n + 1 : t[n + 1] = all[i]
      BY <2>1, <2>3
    <3>2. CASE i = n + 1
      BY <1>1, <1>2, <2>2, <3>1, <3>2
    <3>3. CASE i # n + 1
      <4>1. i \in 1 .. n /\ i <= n
        BY <3>3
      <4> QED
        BY <1>1, <2>2, <2>3, <3>1, <4>1
    <3> QED
      BY <3>2, <3>3
  <2>7. t[n + 1] = newest /\ ts <= t[n + 1]
    BY <1>2, <2>2, <2>4, <2>5, <2>6
  <2>8. BufferOK(Unexpired(t, ts), t[n + 1])
    BY <2>1, <2>7, UnexpiredOrdered
  <2>9. Max({ts, newest}) = newest
    BY <1>2, <1>5, <2>2
  <2> QED
    BY <1>3, <1>7, <2>7, <2>8, <2>9 DEF t
<1> QED
  BY <1>6, <1>7

LEMMA BufferInit == InitBuffer => BufferInv
<1> SUFFICES ASSUME InitBuffer PROVE BufferInv
  OBVIOUS
<1>1. joints = <<>> /\ images = <<>> /\ newestJoint = 0 /\ newestImage = 0
  BY DEF InitBuffer
<1>2. <<>> \in Seq(Times) /\ Ordered(<<>>)
  BY DEF Ordered
<1> QED
  BY <1>1, <1>2 DEF BufferInv, BufferOK

LEMMA BufferStep == BufferInv /\ [NextBuffer]_bufferVars => BufferInv'
<1> SUFFICES ASSUME BufferInv, [NextBuffer]_bufferVars PROVE BufferInv'
  OBVIOUS
<1> USE DEF BufferInv
<1>1. ASSUME NEW ts \in Times, AddJoint(ts) PROVE BufferInv'
  <2>1. /\ joints' = Added(joints, ts) /\ newestJoint' = Max({ts, newestJoint})
        /\ UNCHANGED <<images, newestImage>>
    BY <1>1 DEF AddJoint
  <2>2. BufferOK(Added(joints, ts), Max({ts, newestJoint}))
    BY AddedOrdered
  <2>3. BufferOK(joints', newestJoint') /\ BufferOK(images', newestImage')
    BY <2>1, <2>2
  <2> QED
    BY <2>3 DEF BufferOK, Ordered
<1>2. ASSUME NEW ts \in Times, AddImage(ts) PROVE BufferInv'
  <2>1. /\ images' = Added(images, ts) /\ newestImage' = Max({ts, newestImage})
        /\ UNCHANGED <<joints, newestJoint>>
    BY <1>2 DEF AddImage
  <2>2. BufferOK(Added(images, ts), Max({ts, newestImage}))
    BY AddedOrdered
  <2>3. BufferOK(joints', newestJoint') /\ BufferOK(images', newestImage')
    BY <2>1, <2>2
  <2> QED
    BY <2>3 DEF BufferOK, Ordered
<1>3. CASE UNCHANGED bufferVars
  BY <1>3 DEF bufferVars, BufferOK, Ordered
<1> QED
  BY <1>1, <1>2, <1>3 DEF NextBuffer
-----------------------------------------------------------------------------
(* latest, latest_before, nearest and build *)

LEMMA LatestBeforeSound ==
    ASSUME NEW s \in Seq(Times), Ordered(s), NEW target \in Times
    PROVE  LET before == {ts \in ToSet(s) : ts <= target}
           IN  LatestBefore(s, target) = IF before = {} THEN 0 ELSE Max(before)
<1> DEFINE before == {ts \in ToSet(s) : ts <= target}
           places == {i \in 1 .. Len(s) : \A j \in 1 .. i : s[j] <= target}
<1>1. target \in Nat /\ Len(s) \in Nat
  BY TimesNat
<1>2. PICK k \in 0 .. Len(s) : places = 1 .. k
  <2>1. \A i \in places : \A j \in 1 .. i : j \in places
    OBVIOUS
  <2>2. places \subseteq 1 .. Len(s)
    OBVIOUS
  <2> HIDE DEF places
  <2> QED
    BY <1>1, <2>1, <2>2, PrefixSet
<1>3. ToSet(s) = {s[i] : i \in 1 .. Len(s)}
  BY DEF ToSet
<1>4. ASSUME NEW ts \in before PROVE k # 0 /\ ts <= s[k]
  <2>1. PICK i \in 1 .. Len(s) : ts = s[i]
    BY <1>3
  <2>2. i \in places
    <3>1. ASSUME NEW j \in 1 .. i PROVE s[j] <= target
      <4>1. j \in 1 .. Len(s) /\ j <= i
        OBVIOUS
      <4>2. s[j] <= s[i]
        BY <4>1 DEF Ordered
      <4>3. s[j] \in Nat /\ s[i] \in Nat /\ s[i] <= target
        BY <2>1, <4>1, SampleType
      <4> QED
        BY <1>1, <4>2, <4>3
    <3> QED
      BY <3>1
  <2>3. i \in 1 .. k
    BY <1>2, <2>2
  <2> QED
    BY <1>1, <2>1, <2>3 DEF Ordered
<1>5. CASE k = 0
  <2>1. places = {}
    BY <1>2, <1>5
  <2>2. before = {}
    BY <1>4, <1>5
  <2> QED
    BY <2>1, <2>2 DEF LatestBefore
<1>6. CASE k # 0
  <2>1. k \in 1 .. k /\ k \in places /\ k \in 1 .. Len(s)
    BY <1>2, <1>6
  <2>2. Max(places) = k
    <3>1. 1 .. k \subseteq Int /\ \A y \in 1 .. k : y <= k
      OBVIOUS
    <3>2. Max(1 .. k) = k
      BY <2>1, <3>1, MaxIs
    <3> QED
      BY <1>2, <3>2
  <2>3. places # {}
    BY <2>1
  <2> HIDE DEF places
  <2>4. LatestBefore(s, target) = s[k]
    BY <2>2, <2>3 DEF LatestBefore, places
  <2>5. s[k] \in before
    BY <1>3, <2>1 DEF places
  <2>6. before \subseteq Int
    BY <1>3, SampleType
  <2>7. \A y \in before : y <= s[k]
    BY <1>4
  <2> HIDE DEF before
  <2>8. Max(before) = s[k]
    BY <2>5, <2>6, <2>7, MaxIs
  <2> QED
    BY <2>4, <2>5, <2>8 DEF before
<1> QED
  BY <1>5, <1>6

LEMMA InOrderSound ==
    ASSUME NEW s, NEW newest, BufferOK(s, newest)
    PROVE  InOrder(s, newest)
<1>1. newest > 0 => s # <<>> /\ Latest(s) = newest
  BY DEF BufferOK, Latest, Last
<1> QED
  BY <1>1, LatestBeforeSound DEF BufferOK, InOrder

LEMMA DistanceNat ==
    ASSUME NEW a \in Int, NEW b \in Int
    PROVE  Distance(a, b) \in Nat
BY DEF Distance

\* What nearest finds is a sample, and near enough.
LEMMA NearestSound ==
    ASSUME NEW s \in Seq(Times), NEW target \in Nat, Nearest(s, target) # 0
    PROVE  Nearest(s, target) \in Times /\ Distance(Nearest(s, target), target) <= Slop
<1> DEFINE rank(ts) == 2 * Distance(ts, target)
                         + (IF (ts <= target) = PreferPast THEN 0 ELSE 1)
           best == CHOOSE ts \in ToSet(s) : \A other \in ToSet(s) : rank(ts) <= rank(other)
           ranks == {rank(ts) : ts \in ToSet(s)}
<1>1. s # <<>> /\ Nearest(s, target) = IF Distance(best, target) > Slop THEN 0 ELSE best
  BY DEF Nearest
<1>2. ToSet(s) = {s[i] : i \in 1 .. Len(s)}
  BY DEF ToSet
<1>3. \A ts \in ToSet(s) : ts \in Times /\ ts \in Nat
  BY <1>2, SampleType
<1>4. ASSUME NEW ts \in ToSet(s) PROVE rank(ts) \in Nat
  <2>1. Distance(ts, target) \in Nat
    BY <1>3, DistanceNat
  <2> QED
    BY <2>1
<1>5. ToSet(s) # {}
  <2>1. Len(s) \in Nat /\ Len(s) # 0
    BY <1>1, EmptySeq
  <2>2. 1 \in 1 .. Len(s)
    BY <2>1
  <2> QED
    BY <1>2, <2>2
<1> HIDE DEF rank
<1>6. \E r \in ranks : \A other \in ranks : r <= other
  <2>1. ranks \subseteq Nat /\ ranks # {}
    BY <1>4, <1>5
  <2> HIDE DEF ranks
  <2> QED
    BY <2>1, SmallestNat
<1>7. \E ts \in ToSet(s) : \A other \in ToSet(s) : rank(ts) <= rank(other)
  BY <1>6
<1>8. best \in ToSet(s)
  BY <1>7, Zenon
<1> HIDE DEF best
<1>9. best \in Times /\ Distance(best, target) \in Nat /\ Slop \in Nat
  BY <1>3, <1>8, DistanceNat, TimesNat
<1> QED
  BY <1>1, <1>9

\* What is built of near samples warns of the action only.
LEMMA BuiltSound ==
    ASSUME NEW joint \in Nat, NEW image \in Nat, NEW action \in Nat,
           Distance(image, joint) <= Slop
    PROVE  LET o == Built(joint, image, action)
           IN  /\ o.joint = joint /\ o.image = image
               /\ o.warnings = IF o.skew > Slop THEN {"action"} ELSE {}
<1> DEFINE stamp == [camera |-> image, action |-> action]
           o == Built(joint, image, action)
           near == Distance(image, joint)
           far == Distance(action, joint)
<1>1. near \in Nat /\ far \in Nat /\ Slop \in Nat /\ near <= Slop
  <2>1. joint \in Int /\ image \in Int /\ action \in Int
    OBVIOUS
  <2>2. Distance(image, joint) \in Nat /\ Distance(action, joint) \in Nat
    BY <2>1, DistanceNat
  <2> QED
    BY <2>2, TimesNat
<1>2. {Distance(stamp[name], joint) : name \in DOMAIN stamp} = {near, far}
  BY DEF stamp
<1>3. {name \in DOMAIN stamp : Distance(stamp[name], joint) > Slop}
        = IF far > Slop THEN {"action"} ELSE {}
  <2>1. DOMAIN stamp = {"camera", "action"}
    OBVIOUS
  <2>2. ~(Distance(stamp["camera"], joint) > Slop)
    BY <1>1
  <2>3. Distance(stamp["action"], joint) = far
    OBVIOUS
  <2> HIDE DEF stamp, far
  <2> QED
    BY <2>1, <2>2, <2>3
<1>4. o.skew = Max({near, far})
  BY <1>2 DEF Built
<1>5. o.warnings = IF far > Slop THEN {"action"} ELSE {}
  BY <1>3 DEF Built
<1>6. o.joint = joint /\ o.image = image
  BY DEF Built
<1> HIDE DEF o, near, far
<1>7. o.skew = IF near < far THEN far ELSE near
  BY <1>1, <1>4, MaxOfTwo
<1>8. o.skew > Slop <=> far > Slop
  BY <1>1, <1>7
<1> QED
  BY <1>5, <1>6, <1>8 DEF o

LEMMA BufferSound == BufferInv => SyncSound
<1> SUFFICES ASSUME BufferInv PROVE SyncSound
  OBVIOUS
<1>1. InOrder(joints, newestJoint) /\ InOrder(images, newestImage)
  BY InOrderSound DEF BufferInv
<1>2. joints \in Seq(Times) /\ images \in Seq(Times)
  BY DEF BufferInv, BufferOK
<1>3. ASSUME NEW target \in Times, NEW action \in Times, NEW o \in FromBuffers(target, action)
      PROVE  /\ Distance(o.joint, target) <= Slop /\ Distance(o.image, o.joint) <= Slop
             /\ o.warnings = IF o.skew > Slop THEN {"action"} ELSE {}
  <2> DEFINE joint == Nearest(joints, target)
             image == Nearest(images, joint)
  <2>1. joint # 0 /\ image # 0 /\ o = Built(joint, image, action)
    BY <1>3 DEF FromBuffers
  <2>2. target \in Nat /\ action \in Nat
    BY TimesNat
  <2>3. joint \in Times /\ Distance(joint, target) <= Slop
    BY <1>2, <2>1, <2>2, NearestSound
  <2>4. joint \in Nat
    BY <2>3, TimesNat
  <2> HIDE DEF joint
  <2>5. image \in Times /\ Distance(image, joint) <= Slop
    BY <1>2, <2>1, <2>4, NearestSound
  <2>6. image \in Nat
    BY <2>5, TimesNat
  <2> HIDE DEF image
  <2>7. /\ o.joint = joint /\ o.image = image
        /\ o.warnings = IF o.skew > Slop THEN {"action"} ELSE {}
    BY <2>1, <2>2, <2>4, <2>5, <2>6, BuiltSound
  <2> QED
    BY <2>3, <2>5, <2>7
<1> QED
  BY <1>1, <1>3 DEF SyncSound

(***************************************************************************)
(* latest and latest_before answer as if the samples had come in order,    *)
(* and observations pair only what is near: for all lengths, ages and      *)
(* slops, and any arrivals.                                                *)
(***************************************************************************)
THEOREM SyncCorrect == SpecBuffer => []SyncSound
<1> QED
  BY BufferInit, BufferStep, BufferSound, PTL DEF SpecBuffer
=============================================================================
