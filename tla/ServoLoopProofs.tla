-------------------------- MODULE ServoLoopProofs --------------------------
(***************************************************************************)
(* Theorems about ServoLoop, for every number of control objects, every    *)
(* set of modes, kinds, bits, masks and gears, with and without            *)
(* create_mapping, and without any bound on the commands that matters.     *)
(***************************************************************************)
EXTENDS ServoLoop, SequenceTheorems, TLAPS

InHand == {"law", "status", "publish", "write"}

(***************************************************************************)
(* The inductive invariant behind QueueIsBacklog and the refinement: the   *)
(* command in the worker's hands, if it has one, and the one in force are  *)
(* accepted commands next to each other in the order of acceptance.        *)
(***************************************************************************)
InHandInv ==
    worker \in InHand =>
        \/ /\ wcmd.id \in 1 .. Len(log) /\ wcmd = CommandNo(wcmd.id)
           /\ wcmd.id \in {Front - 1, Front}
        \/ /\ wcmd = NoCmd
           /\ wref.cmd = NoCmd /\ ref.cmd = NoCmd /\ shm.cmd = NoCmd

InForceInv ==
    \/ shm.cmd = NoCmd
    \/ /\ shm.cmd.id \in 1 .. Len(log) /\ shm.cmd = CommandNo(shm.cmd.id)
       /\ shm.cmd.id \in {Due - 1, Due}

RefInv == /\ worker \in {"status", "publish", "write"} => wref.cmd = wcmd
          /\ worker = "take" => wref.cmd = ref.cmd
          /\ log = <<>> => ref.cmd = NoCmd /\ shm.cmd = NoCmd

StreamInv == TypeOK /\ QueueIsBacklog /\ InHandInv /\ InForceInv /\ RefInv

\* The inductive invariant behind PilotInterlock.
LockedOut(s) == s[5] # 0 => s[0] = 0 /\ s[1] = 0
PilotInv == /\ PilotInterlock
            /\ worker \in {"publish", "write"} => LockedOut(wref.status)

\* The inductive invariant behind StopCompletesCycle: starting and stopping
\* exclude each other, and while the runtime is started only the cycle between
\* its publication and its write has a shared memory that lags behind the
\* reference.  (Not while it is stopped: a start that backs out may have cleared
\* the shared memory and left the reference.)
LifecycleInv ==
    /\ \A c, d \in Controls : /\ ctl[c].at \in {"starting", "stopping"}
                              /\ ctl[d].at \in {"starting", "stopping"}
                              => c = d
    /\ \A c \in Controls : /\ ctl[c].at = "starting" => ~started /\ ref = ZeroRef
                           /\ ctl[c].at = "stopping" => started /\ ~running
    /\ ~started => worker = "off"
    /\ worker = "write" => wref = ref
    /\ started /\ worker # "write" => shm = ref \/ ref = ZeroRef
-----------------------------------------------------------------------------
(* Types *)

\* Toggling keeps a status vector a status vector.
LEMMA ToggleAllType ==
    ASSUME NEW mask, NEW s \in Status
    PROVE  ToggleAll(mask, s) \in Status
<1>1. ASSUME NEW i \in StatusIdx PROVE Toggled(i, s[i]) \in 0 .. 3
  BY DEF Status, Toggled
<1> QED BY <1>1 DEF ToggleAll, Status

LEMMA InterlockedType ==
    ASSUME NEW s \in Status
    PROVE  Interlocked(s) \in Status
BY DEF Interlocked, Status, StatusIdx

LEMMA UpdateRefType ==
    ASSUME NEW r \in Refs, NEW cmd \in Commands, NEW m \in ControlModes
    PROVE  UpdateRef(r, cmd, m) \in Refs
BY DEF UpdateRef, Refs

LEMMA ZeroTypes == ZeroStatus \in Status /\ NoCmd \in Commands /\ ZeroRef \in Refs /\ Idle \in Calls
<1>1. ZeroStatus \in Status
  BY DEF ZeroStatus, Status
<1>2. NoCmd \in Commands
  BY DEF NoCmd, Commands
<1> QED BY <1>1, <1>2 DEF ZeroRef, Refs, ControlModes, Idle, Calls, CtlLabels

CallOK(call) == /\ call \in Calls
                /\ call.at = "submit" => call.kind \in Kinds
                /\ call.at = "toggle" => call.n # 0

LEMMA EnterType ==
    ASSUME TypeOK, NEW c \in Controls, NEW call, CallOK(call), Enter(c, call)
    PROVE  /\ ctl' \in [Controls -> Calls]
           /\ \A d \in Controls : /\ ctl'[d].at = "submit" => ctl'[d].kind \in Kinds
                                  /\ ctl'[d].at = "toggle" => ctl'[d].n # 0
BY DEF TypeOK, Enter, CallOK

LEMMA ToggleCall ==
    ASSUME NEW bit \in 0 .. 10, NEW n \in 1 .. 3
    PROVE  CallOK(Toggling(bit, n))
BY DEF CallOK, Calls, CtlLabels, Toggling

\* A call of the API keeps the types.
LEMMA CallType ==
    ASSUME TypeOK, NEW c \in Controls, Call(c)
    PROVE  TypeOK'
<1> USE ServoLoopAssumption, ZeroTypes, EnterType
<1>0. CallOK(Idle)
  BY DEF CallOK, Idle
<1>1. CASE \E kind \in UsedKinds : SendCommand(c, kind)
  <2> PICK kind \in UsedKinds : SendCommand(c, kind)
    BY <1>1
  <2>1. CallOK([Idle EXCEPT !.at = "submit", !.kind = kind])
    BY DEF CallOK, Calls, Idle, CtlLabels
  <2> QED BY <2>1 DEF SendCommand, TypeOK, clientVars, workerVars
<1>2. CASE SubmitServo(c)
  <2>1. ctl[c].kind \in Kinds
    BY <1>2 DEF TypeOK, SubmitServo
  <2>2. [id |-> Len(log) + 1, kind |-> ctl[c].kind] \in Commands
    BY <2>1 DEF TypeOK, Commands
  <2> QED BY <1>0, <1>2, <2>1, <2>2 DEF SubmitServo, Return, TypeOK, workerVars
<1>3. CASE \E m \in UsedModes : SetControlMode(c, m)
  BY <1>3 DEF SetControlMode, TypeOK, workerVars
<1>4. CASE \E mask \in ToggleMasks : ApplyStatusToggleMask(c, mask)
  BY <1>4, ToggleAllType DEF ApplyStatusToggleMask, TypeOK, workerVars
<1>5. CASE \E bit \in SetBits, target \in {0, 1} : SetStatusBit(c, bit, target)
  <2> PICK bit \in SetBits, target \in {0, 1} : SetStatusBit(c, bit, target)
    BY <1>5
  <2>1. CallOK(Toggling(bit, 1))
    BY ToggleCall
  <2> QED BY <2>1 DEF SetStatusBit, TypeOK, clientVars, workerVars
<1>6. CASE \E gear \in Gears : SetMotorGear(c, gear)
  <2> PICK gear \in Gears : SetMotorGear(c, gear)
    BY <1>6
  <2> DEFINE n == (gear - ref.status[9]) % 4
  <2>1. n \in 1 .. 3
    <3>1. ref.status[9] \in 0 .. 3 /\ gear \in 0 .. 3 /\ gear # ref.status[9]
      BY DEF TypeOK, Refs, Status, StatusIdx, SetMotorGear
    <3> QED BY <3>1
  <2>2. CallOK(Toggling(9, n))
    <3> HIDE DEF n
    <3> QED BY <2>1, ToggleCall
  <2> QED BY <2>2 DEF SetMotorGear, TypeOK, clientVars, workerVars
<1>7. CASE ToggleStatusBit(c)
  <2>1. ctl[c].n # 1 => CallOK([ctl[c] EXCEPT !.n = @ - 1])
    <3>1. ctl[c] \in Calls /\ ctl[c].at = "toggle" /\ ctl[c].n \in 1 .. 3
      BY <1>7 DEF Calls, TypeOK, ToggleStatusBit
    <3>2. ASSUME NEW n \in 1 .. 3 PROVE CallOK([ctl[c] EXCEPT !.n = n])
      BY <3>1 DEF CallOK, Calls
    <3>3. ctl[c].n # 1 => ctl[c].n - 1 \in 1 .. 3
      BY <3>1
    <3> QED BY <3>2, <3>3
  <2>2. CASE ctl[c].n = 1
    BY <1>0, <1>7, <2>2, ToggleAllType DEF ToggleStatusBit, Return, TypeOK, workerVars
  <2>3. CASE ctl[c].n # 1
    BY <1>7, <2>1, <2>3, ToggleAllType DEF ToggleStatusBit, TypeOK, workerVars
  <2> QED BY <2>2, <2>3
<1>8. CASE Start(c)
  <2>1. CallOK([Idle EXCEPT !.at = "starting"])
    BY DEF CallOK, Calls, Idle, CtlLabels
  <2> QED BY <1>8, <2>1 DEF Start, TypeOK, workerVars
<1>9. CASE StartWorker(c)
  BY <1>0, <1>9 DEF StartWorker, Return, TypeOK, WorkerLabels
<1>10. CASE Stop(c)
  <2>1. CallOK([Idle EXCEPT !.at = "stopping"])
    BY DEF CallOK, Calls, Idle, CtlLabels
  <2> QED BY <1>10, <2>1 DEF Stop, TypeOK, clientVars, workerVars
<1>11. CASE JoinWorker(c)
  BY <1>0, <1>11 DEF JoinWorker, Return, TypeOK, clientVars, workerVars
<1>12. CASE StartFails(c)
  BY <1>12 DEF StartFails, TypeOK, workerVars
<1> QED BY <1>1, <1>2, <1>3, <1>4, <1>5, <1>6, <1>7, <1>8, <1>9, <1>10, <1>11, <1>12 DEF Call

\* A step of the worker keeps the types.
LEMMA WorkerType ==
    ASSUME TypeOK, Worker
    PROVE  TypeOK'
<1> USE ZeroTypes DEF At, WorkerLabels
<1>1. CASE LoopTop
  BY <1>1 DEF LoopTop, TypeOK, clientVars
<1>2. CASE PublishResp
  BY <1>2 DEF PublishResp, TypeOK, clientVars
<1>3. CASE TakeServoCmd
  <2>1. queue # <<>> => Head(queue) \in Commands /\ Tail(queue) \in Seq(Commands)
    BY DEF TypeOK
  <2>2. Len(queue) > 1 => queue # <<>>
    BY DEF TypeOK
  <2> QED BY <1>3, <2>1, <2>2 DEF TakeServoCmd, TypeOK
<1>4. CASE ApplyLaw
  BY <1>4, UpdateRefType DEF ApplyLaw, TypeOK, clientVars
<1>5. CASE ApplyCachedStatusToRef
  BY <1>5, InterlockedType DEF ApplyCachedStatusToRef, TypeOK, Refs, clientVars
<1>6. CASE PublishRef
  BY <1>6 DEF PublishRef, TypeOK
<1>7. CASE WriteShm
  BY <1>7 DEF WriteShm, TypeOK
<1> QED BY <1>1, <1>2, <1>3, <1>4, <1>5, <1>6, <1>7 DEF Worker

LEMMA InitType == Init => TypeOK
<1> SUFFICES ASSUME Init PROVE TypeOK
  OBVIOUS
<1>1. ctl \in [Controls -> Calls] /\ \A c \in Controls : ctl[c].at = "idle"
  BY ZeroTypes DEF Init, Idle
<1>2. queue \in Seq(Commands) /\ log \in Seq(Kinds)
  BY DEF Init
<1> QED BY <1>1, <1>2, ZeroTypes DEF Init, TypeOK, ControlModes, WorkerLabels

\* Every variable keeps its type.
THEOREM TypeCorrect == Spec => []TypeOK
<1>1. TypeOK /\ [Next]_vars => TypeOK'
  <2> SUFFICES ASSUME TypeOK, [Next]_vars PROVE TypeOK'
    OBVIOUS
  <2>1. CASE UNCHANGED vars
    BY <2>1 DEF vars, TypeOK
  <2> QED BY <2>1, CallType, WorkerType DEF Next
<1> QED BY <1>1, InitType, PTL DEF Spec
-----------------------------------------------------------------------------
(* The pilot's interlock *)

\* Whatever the cached status is, what the interlock lets through is locked out.
LEMMA InterlockedLocksOut ==
    ASSUME NEW s \in Status
    PROVE  LockedOut(Interlocked(s))
BY DEF Interlocked, LockedOut, Status, StatusIdx

LEMMA ZeroLockedOut == LockedOut(ZeroRef.status)
BY DEF ZeroRef, ZeroStatus, LockedOut, StatusIdx

LEMMA PilotStep == TypeOK /\ PilotInv /\ [Next]_vars => PilotInv'
<1> SUFFICES ASSUME TypeOK, PilotInv, [Next]_vars PROVE PilotInv'
  OBVIOUS
<1> USE DEF PilotInv, PilotInterlock, LockedOut, clientVars, workerVars
<1>1. CASE Worker
  <2> USE DEF At
  <2>1. CASE ApplyCachedStatusToRef
    <3>1. wref'.status = Interlocked(cached)
      BY <2>1 DEF ApplyCachedStatusToRef, TypeOK, Refs
    <3>2. LockedOut(wref'.status)
      BY <3>1, InterlockedLocksOut DEF TypeOK
    <3> QED BY <2>1, <3>2 DEF ApplyCachedStatusToRef
  <2>2. CASE PublishRef
    BY <2>2 DEF PublishRef
  <2>3. CASE WriteShm
    BY <2>3 DEF WriteShm
  <2>4. CASE LoopTop \/ PublishResp \/ TakeServoCmd \/ ApplyLaw
    BY <2>4 DEF LoopTop, PublishResp, TakeServoCmd, ApplyLaw
  <2> QED BY <1>1, <2>1, <2>2, <2>3, <2>4 DEF Worker
<1>2. ASSUME NEW c \in Controls, Call(c) PROVE PilotInv'
  <2>1. CASE Start(c)
    BY <2>1, ZeroLockedOut DEF Start
  <2>2. CASE StartWorker(c)
    BY <2>2 DEF StartWorker
  <2>3. CASE StartFails(c)
    BY <2>3, ZeroLockedOut DEF StartFails
  <2>4. CASE ~Start(c) /\ ~StartWorker(c) /\ ~StartFails(c)
    <3>1. UNCHANGED <<ref, shm, worker, wref>>
      BY <1>2, <2>4 DEF Call, SendCommand, SubmitServo, SetControlMode,
         ApplyStatusToggleMask, SetStatusBit, ToggleStatusBit, SetMotorGear,
         Stop, JoinWorker
    <3> QED BY <3>1
  <2> QED BY <2>1, <2>2, <2>3, <2>4
<1>3. CASE UNCHANGED vars
  BY <1>3 DEF vars
<1> QED BY <1>1, <1>2, <1>3 DEF Next

\* No reference and no command block ever shows ignition or flame-out together
\* with the pilot.
THEOREM PilotCorrect == Spec => []PilotInterlock
<1>1. Init => PilotInv
  BY ZeroLockedOut DEF Init, PilotInv, PilotInterlock, LockedOut
<1>2. PilotInv => PilotInterlock
  BY DEF PilotInv
<1> QED BY <1>1, <1>2, PilotStep, TypeCorrect, PTL DEF Spec
-----------------------------------------------------------------------------
(* Starting and stopping *)

LEMMA LifecycleStep == TypeOK /\ LifecycleInv /\ [Next]_vars => LifecycleInv'
<1> SUFFICES ASSUME TypeOK, LifecycleInv, [Next]_vars PROVE LifecycleInv'
  OBVIOUS
<1>1. CASE Worker
  <2>1. UNCHANGED <<ctl, running, started>> /\ worker # "off"
    BY <1>1 DEF Worker, LoopTop, PublishResp, TakeServoCmd, ApplyLaw,
       ApplyCachedStatusToRef, PublishRef, WriteShm, At
  <2>2. /\ worker' = "write" => wref' = ref'
        /\ started /\ worker' # "write" => shm' = ref' \/ ref' = ZeroRef
    BY <1>1 DEF LifecycleInv, clientVars, Worker, LoopTop, PublishResp,
       TakeServoCmd, ApplyLaw, ApplyCachedStatusToRef, PublishRef, WriteShm, At
  <2> QED BY <2>1, <2>2 DEF LifecycleInv
<1>2. ASSUME NEW c \in Controls, Call(c) PROVE LifecycleInv'
  <2> USE DEF LifecycleInv, RuntimeFree, Enter, Return, clientVars, workerVars
  <2>0. Idle.at = "idle"
    BY DEF Idle
  <2>1. CASE Start(c)
    <3>1. ctl' = [ctl EXCEPT ![c] = ctl'[c]] /\ ctl'[c].at = "starting"
      BY <2>1 DEF Start, TypeOK, Idle
    <3> QED BY <2>1, <3>1 DEF Start, TypeOK
  <2>2. CASE StartWorker(c)
    BY <2>0, <2>2 DEF StartWorker, TypeOK
  <2>3. CASE Stop(c)
    <3>1. ctl' = [ctl EXCEPT ![c] = ctl'[c]] /\ ctl'[c].at = "stopping"
      BY <2>3 DEF Stop, TypeOK, Idle
    <3> QED BY <2>3, <3>1 DEF Stop, TypeOK
  <2>4. CASE JoinWorker(c)
    BY <2>0, <2>4 DEF JoinWorker, TypeOK
  <2>5. CASE StartFails(c)
    BY <2>5 DEF StartFails
  <2>6. CASE ~Start(c) /\ ~StartWorker(c) /\ ~Stop(c) /\ ~JoinWorker(c) /\ ~StartFails(c)
    <3>1. UNCHANGED <<running, started, ref, shm, worker, wref>>
      BY <1>2, <2>6 DEF Call, SendCommand, SubmitServo, SetControlMode,
         ApplyStatusToggleMask, SetStatusBit, ToggleStatusBit, SetMotorGear
    <3>2. ctl' = ctl \/ \E call : /\ ctl' = [ctl EXCEPT ![c] = call]
                                  /\ call.at \notin {"starting", "stopping"}
      <4>0. CASE SubmitServo(c)
        BY <2>0, <4>0 DEF SubmitServo
      <4>1. CASE \E kind \in UsedKinds : SendCommand(c, kind)
        <5> PICK kind \in UsedKinds : SendCommand(c, kind)
          BY <4>1
        <5>1. [Idle EXCEPT !.at = "submit", !.kind = kind].at = "submit"
          BY DEF Idle
        <5> QED BY <5>1 DEF SendCommand
      <4>2. CASE \E bit \in SetBits, target \in {0, 1} : SetStatusBit(c, bit, target)
        <5> PICK bit \in SetBits, target \in {0, 1} : SetStatusBit(c, bit, target)
          BY <4>2
        <5>1. Toggling(bit, 1).at = "toggle"
          BY DEF Toggling
        <5> QED BY <5>1 DEF SetStatusBit
      <4>3. CASE \E gear \in Gears : SetMotorGear(c, gear)
        BY <2>0, <4>3 DEF SetMotorGear, Toggling
      <4>4. CASE ToggleStatusBit(c)
        <5>1. [ctl[c] EXCEPT !.n = @ - 1].at = "toggle"
          BY <4>4 DEF ToggleStatusBit, TypeOK, Calls
        <5> QED BY <2>0, <4>4, <5>1 DEF ToggleStatusBit
      <4>5. CASE \/ \E m \in UsedModes : SetControlMode(c, m)
                 \/ \E mask \in ToggleMasks : ApplyStatusToggleMask(c, mask)
        BY <4>5 DEF SetControlMode, ApplyStatusToggleMask
      <4> QED BY <1>2, <2>6, <4>0, <4>1, <4>2, <4>3, <4>4, <4>5 DEF Call
    <3>3. \A d \in Controls : ctl'[d] = ctl[d] \/ ctl'[d].at \notin {"starting", "stopping"}
      BY <3>2 DEF TypeOK
    <3> QED BY <3>1, <3>3
  <2> QED BY <2>1, <2>2, <2>3, <2>4, <2>5, <2>6
<1>3. CASE UNCHANGED vars
  BY <1>3 DEF vars, LifecycleInv
<1> QED BY <1>1, <1>2, <1>3 DEF Next

LEMMA LifecycleCorrect == Spec => []LifecycleInv
<1>1. Init => LifecycleInv
  BY DEF Init, LifecycleInv, Idle
<1> QED BY <1>1, LifecycleStep, TypeCorrect, PTL DEF Spec

\* stop() ends only after the last cycle is complete, and then nothing but the
\* opening of the mapping changes the shared memory until a start succeeds.
THEOREM StopCorrect == Spec => StopCompletesCycle
<1> DEFINE Over == ~started' =>
                     /\ started => worker = "off" /\ (shm = ref \/ ref = ZeroRef)
                     /\ ~started => shm' = shm \/ (CreateMapping /\ shm' = ZeroRef)
<1>1. LifecycleInv /\ [Next]_vars => Over \/ UNCHANGED vars
  <2> SUFFICES ASSUME LifecycleInv, Next, ~started' PROVE Over
    OBVIOUS
  <2>1. CASE Worker
    <3>1. UNCHANGED started /\ worker # "off"
      BY <2>1 DEF Worker, LoopTop, PublishResp, TakeServoCmd, ApplyLaw,
         ApplyCachedStatusToRef, PublishRef, WriteShm, At
    <3> QED BY <3>1 DEF LifecycleInv
  <2>2. ASSUME NEW c \in Controls, Call(c) PROVE Over
    <3>1. CASE Start(c) \/ StartFails(c)
      BY <3>1 DEF Start, StartFails
    <3>2. CASE JoinWorker(c)
      BY <3>2 DEF JoinWorker, LifecycleInv, clientVars
    <3>3. CASE ~Start(c) /\ ~StartFails(c) /\ ~JoinWorker(c)
      <4>1. UNCHANGED <<started, shm>>
        BY <2>2, <3>3 DEF Call, SendCommand, SubmitServo, SetControlMode,
           ApplyStatusToggleMask, SetStatusBit, ToggleStatusBit, SetMotorGear,
           StartWorker, Stop, clientVars
      <4> QED BY <4>1
    <3> QED BY <3>1, <3>2, <3>3
  <2> QED BY <2>1, <2>2 DEF Next
<1> QED BY <1>1, LifecycleCorrect, PTL DEF Spec, StopCompletesCycle
-----------------------------------------------------------------------------
(* The queue, the command in the worker's hands and the command in force *)

\* What the steps below know of the sequences.
LEMMA AppendFacts ==
    ASSUME NEW S, NEW s \in Seq(S), NEW e \in S
    PROVE  /\ Append(s, e) \in Seq(S) /\ Len(Append(s, e)) = Len(s) + 1
           /\ \A i \in 1 .. Len(s) : Append(s, e)[i] = s[i]
           /\ Append(s, e)[Len(s) + 1] = e
OBVIOUS

LEMMA TailFacts ==
    ASSUME NEW S, NEW s \in Seq(S), s # <<>>
    PROVE  /\ Head(s) = s[1] /\ Len(Tail(s)) = Len(s) - 1 /\ Len(s) \in Nat \ {0}
           /\ \A i \in 1 .. Len(Tail(s)) : Tail(s)[i] = s[i + 1]
OBVIOUS

\* NoCmd is not an accepted command.
LEMMA NoCmdApart ==
    ASSUME NEW cmd, cmd.id \in 1 .. Len(log), Len(log) \in Nat
    PROVE  cmd # NoCmd
BY DEF NoCmd

\* Accepting a command keeps the invariant.
LEMMA SubmitStream ==
    ASSUME StreamInv, TypeOK', NEW c \in Controls, SubmitServo(c)
    PROVE  StreamInv'
<1> DEFINE cmd == [id |-> Len(log) + 1, kind |-> ctl[c].kind]
<1> USE DEF StreamInv
<1>1. /\ cmd \in Commands /\ ctl[c].kind \in Kinds
      /\ queue \in Seq(Commands) /\ log \in Seq(Kinds)
  BY DEF SubmitServo, TypeOK, Commands
<1>2. /\ queue' = Append(queue, cmd) /\ log' = Append(log, ctl[c].kind)
      /\ UNCHANGED <<ref, shm, worker, wref, wcmd>>
  BY DEF SubmitServo, workerVars
<1>3. /\ Len(queue') = Len(queue) + 1 /\ queue'[Len(queue) + 1] = cmd
      /\ \A i \in 1 .. Len(queue) : queue'[i] = queue[i]
  BY <1>1, <1>2, AppendFacts
<1>4. /\ Len(log') = Len(log) + 1 /\ log'[Len(log) + 1] = ctl[c].kind
      /\ \A i \in 1 .. Len(log) : log'[i] = log[i]
  BY <1>1, <1>2, AppendFacts
<1>5. Len(queue) \in Nat /\ Len(log) \in Nat /\ Len(queue) <= Len(log)
  BY <1>1 DEF QueueIsBacklog
<1>6. Front' = Front /\ Front \in 1 .. Len(log) + 1
  BY <1>3, <1>4, <1>5 DEF Front
<1>7. \A n \in 1 .. Len(log) : CommandNo(n)' = CommandNo(n)
  BY <1>4 DEF CommandNo
<1>8. \A n : n = Len(log) + 1 => CommandNo(n)' = cmd
  BY <1>4, <1>5 DEF CommandNo
<1>9. QueueIsBacklog'
  <2>1. Len(queue') <= Len(log')
    BY <1>3, <1>4, <1>5
  <2>2. ASSUME NEW i \in 1 .. Len(queue') PROVE queue'[i] = CommandNo(Front + i - 1)'
    <3>1. CASE i \in 1 .. Len(queue)
      <4>1. queue[i] = CommandNo(Front + i - 1)
        BY <3>1 DEF QueueIsBacklog
      <4>2. Front + i - 1 \in 1 .. Len(log)
        BY <1>5, <3>1 DEF Front
      <4> QED BY <1>3, <1>6, <1>7, <3>1, <4>1, <4>2
    <3>2. CASE i = Len(queue) + 1
      <4>1. Front + i - 1 = Len(log) + 1
        BY <1>5, <3>2 DEF Front
      <4>2. CommandNo(Front + i - 1)' = cmd
        BY <1>6, <1>8, <4>1
      <4> QED BY <1>3, <3>2, <4>2
    <3> QED BY <1>3, <1>5, <3>1, <3>2
  <2>3. queue' # <<>>
    BY <1>3, <1>5
  <2> QED BY <2>1, <2>2, <2>3, <1>6 DEF QueueIsBacklog
<1>10. InHandInv'
  BY <1>2, <1>4, <1>5, <1>6, <1>7 DEF InHandInv
<1>11. InForceInv'
  <2>1. Due' = Due
    BY <1>2, <1>6 DEF Due, Holding
  <2> QED BY <1>2, <1>4, <1>5, <1>7, <2>1 DEF InForceInv
<1>12. RefInv'
  <2>1. log' # <<>>
    BY <1>4, <1>5
  <2> QED BY <1>2, <2>1 DEF RefInv
<1> QED BY <1>9, <1>10, <1>11, <1>12

\* The worker takes the front of the queue.
LEMMA TakeStream ==
    ASSUME StreamInv, TypeOK', TakeServoCmd
    PROVE  StreamInv' /\ UNCHANGED <<log, shm, Due>>
<1> USE DEF StreamInv
<1>1. /\ worker = "take" /\ worker' = "law"
      /\ UNCHANGED <<log, ref, shm, wref>>
  BY DEF TakeServoCmd, At
<1>2. queue \in Seq(Commands) /\ log \in Seq(Kinds)
  BY DEF TypeOK
<1>3. Len(queue) \in Nat /\ Len(log) \in Nat /\ Len(queue) <= Len(log)
  BY <1>2 DEF QueueIsBacklog
<1>4. \A n : CommandNo(n)' = CommandNo(n)
  BY <1>1 DEF CommandNo
<1>5. Due = Front
  BY <1>1 DEF Due, Holding
<1>6. CASE queue = <<>>
  <2>1. UNCHANGED queue /\ wcmd' = NoCmd /\ log = <<>>
    BY <1>3, <1>6 DEF TakeServoCmd, QueueIsBacklog
  <2>2. Front' = Front /\ Due' = Front
    BY <1>1, <2>1 DEF Front, Due, Holding
  <2>3. QueueIsBacklog'
    BY <1>1, <1>4, <2>1, <2>2 DEF QueueIsBacklog
  <2>4. wref.cmd = NoCmd /\ ref.cmd = NoCmd /\ shm.cmd = NoCmd
    BY <1>1, <2>1 DEF RefInv
  <2> QED BY <1>1, <1>5, <2>1, <2>2, <2>3, <2>4 DEF InHandInv, InForceInv, RefInv
<1>7. CASE queue # <<>>
  <2>1. wcmd' = CommandNo(Front) /\ Front \in 1 .. Len(log)
    <3>1. wcmd' = queue[1] /\ Len(queue) \in Nat \ {0}
      BY <1>2, <1>7, TailFacts DEF TakeServoCmd
    <3>2. queue[1] = CommandNo(Front + 1 - 1)
      BY <3>1 DEF QueueIsBacklog
    <3> QED BY <1>3, <3>1, <3>2 DEF Front
  <2>2. wcmd'.id = Front
    BY <2>1 DEF CommandNo
  <2>3. QueueIsBacklog' /\ Front' \in {Front, Front + 1}
    <3>1. CASE Len(queue) > 1
      <4>1. /\ Len(queue') = Len(queue) - 1
            /\ \A i \in 1 .. Len(queue') : queue'[i] = queue[i + 1]
        BY <1>2, <1>7, <3>1, TailFacts DEF TakeServoCmd
      <4>2. Front' = Front + 1
        BY <1>1, <1>3, <4>1 DEF Front
      <4>3. ASSUME NEW i \in 1 .. Len(queue') PROVE queue'[i] = CommandNo(Front' + i - 1)
        <5>1. queue'[i] = queue[i + 1] /\ i + 1 \in 1 .. Len(queue)
          BY <1>3, <4>1
        <5>2. queue[i + 1] = CommandNo(Front + (i + 1) - 1)
          BY <5>1 DEF QueueIsBacklog
        <5>3. Front + (i + 1) - 1 = Front' + i - 1
          BY <2>1, <4>2
        <5> QED BY <5>1, <5>2, <5>3
      <4>4. queue' # <<>>
        BY <1>3, <3>1, <4>1
      <4> QED BY <1>1, <1>3, <1>4, <4>1, <4>2, <4>3, <4>4 DEF QueueIsBacklog
    <3>2. CASE ~(Len(queue) > 1)
      <4>1. UNCHANGED queue
        BY <3>2 DEF TakeServoCmd
      <4>2. Front' = Front
        BY <1>1, <4>1 DEF Front
      <4> QED BY <1>1, <1>4, <4>1, <4>2 DEF QueueIsBacklog
    <3> QED BY <3>1, <3>2
  <2>4. InHandInv'
    BY <1>1, <1>3, <1>4, <2>1, <2>2, <2>3 DEF InHandInv, Front
  <2>5. Due' = Due
    <3>1. wcmd' # NoCmd
      BY <1>1, <1>3, <2>1, <2>2, NoCmdApart DEF NoCmd
    <3> QED BY <1>1, <1>5, <2>2, <3>1 DEF Due, Holding
  <2>6. InForceInv'
    BY <1>1, <1>4, <2>5 DEF InForceInv
  <2>7. RefInv'
    BY <1>1 DEF RefInv
  <2> QED BY <1>1, <2>3, <2>4, <2>5, <2>6, <2>7
<1> QED BY <1>6, <1>7

\* The worker writes its command to the shared memory.
LEMMA WriteStream ==
    ASSUME StreamInv, TypeOK', WriteShm
    PROVE  StreamInv'
<1> USE DEF StreamInv
<1>1. /\ worker = "write" /\ worker' = "top" /\ shm' = wref
      /\ UNCHANGED <<log, queue, ref, wcmd, wref>>
  BY DEF WriteShm, At
<1>2. Len(queue) \in Nat /\ Len(log) \in Nat
  BY DEF TypeOK
<1>3. (\A n : CommandNo(n)' = CommandNo(n)) /\ Front' = Front /\ Due' = Front
  BY <1>1 DEF CommandNo, Front, Due, Holding
<1>4. QueueIsBacklog'
  BY <1>1, <1>3 DEF QueueIsBacklog
<1>5. InForceInv' /\ (log = <<>> => shm'.cmd = NoCmd)
  <2>1. CASE wcmd = NoCmd
    <3>1. wref.cmd = NoCmd
      BY <1>1, <2>1 DEF RefInv
    <3> QED BY <1>1, <3>1 DEF InForceInv
  <2>2. CASE wcmd # NoCmd
    <3>1. /\ wcmd.id \in 1 .. Len(log) /\ wcmd = CommandNo(wcmd.id)
          /\ wcmd.id \in {Front - 1, Front}
      BY <1>1, <2>2 DEF InHandInv, InHand
    <3>2. shm'.cmd = wcmd
      BY <1>1 DEF RefInv
    <3>3. log # <<>>
      BY <3>1
    <3> QED BY <1>1, <1>3, <3>1, <3>2, <3>3 DEF InForceInv
  <2> QED BY <2>1, <2>2
<1> QED BY <1>1, <1>4, <1>5 DEF InHandInv, InHand, RefInv

\* The other steps of the worker change neither the queue nor what is in force.
LEMMA OtherWorkerStream ==
    ASSUME StreamInv, TypeOK',
           LoopTop \/ PublishResp \/ ApplyLaw \/ ApplyCachedStatusToRef \/ PublishRef
    PROVE  StreamInv' /\ UNCHANGED <<log, shm, Due>>
<1> USE DEF StreamInv, clientVars, At
<1>1. UNCHANGED <<log, queue, shm, wcmd>>
  BY DEF LoopTop, PublishResp, ApplyLaw, ApplyCachedStatusToRef, PublishRef
<1>2. /\ worker' \in InHand <=> worker \in InHand
      /\ Holding' <=> Holding
  BY DEF InHand, Holding, LoopTop, PublishResp, ApplyLaw, ApplyCachedStatusToRef, PublishRef
<1>3. (\A n : CommandNo(n)' = CommandNo(n)) /\ UNCHANGED <<Front, Due>>
  BY <1>1, <1>2 DEF CommandNo, Front, Due
<1>4. QueueIsBacklog' /\ InForceInv'
  BY <1>1, <1>3 DEF QueueIsBacklog, InForceInv
<1>5. worker \in InHand => wcmd = NoCmd \/ wcmd.id \in 1 .. Len(log)
  BY DEF InHandInv
<1>6. RefInv' /\ (worker' \in InHand /\ wcmd = NoCmd => wref'.cmd = NoCmd /\ ref'.cmd = NoCmd)
  <2>1. CASE LoopTop
    BY <1>1, <2>1 DEF LoopTop, RefInv, InHand
  <2>2. CASE PublishResp
    BY <1>1, <2>2 DEF PublishResp, RefInv, InHand
  <2>3. CASE ApplyLaw
    <3>1. wref'.cmd = IF wcmd = NoCmd THEN wref.cmd ELSE wcmd
      BY <2>3 DEF ApplyLaw, UpdateRef, TypeOK, Refs
    <3>2. wcmd = NoCmd => wref.cmd = NoCmd /\ ref.cmd = NoCmd
      BY <2>3, Len(log) \in Nat, NoCmdApart DEF ApplyLaw, InHandInv, InHand, TypeOK
    <3> QED BY <1>1, <2>3, <3>1, <3>2 DEF ApplyLaw, RefInv
  <2>4. CASE ApplyCachedStatusToRef
    <3>1. wref'.cmd = wref.cmd
      BY <2>4 DEF ApplyCachedStatusToRef, TypeOK, Refs
    <3>2. wcmd = NoCmd => wref.cmd = NoCmd /\ ref.cmd = NoCmd
      BY <2>4, Len(log) \in Nat, NoCmdApart DEF ApplyCachedStatusToRef, InHandInv, InHand, TypeOK
    <3> QED BY <1>1, <2>4, <3>1, <3>2 DEF ApplyCachedStatusToRef, RefInv
  <2>5. CASE PublishRef
    <3>1. wcmd = NoCmd => wref.cmd = NoCmd
      BY <2>5, Len(log) \in Nat, NoCmdApart DEF PublishRef, InHandInv, InHand, TypeOK
    <3>2. log = <<>> => wcmd = NoCmd
      BY <1>5, <2>5 DEF PublishRef, InHand, TypeOK
    <3> QED BY <1>1, <2>5, <3>1, <3>2 DEF PublishRef, RefInv
  <2> QED BY <2>1, <2>2, <2>3, <2>4, <2>5
<1>7. InHandInv'
  BY <1>1, <1>2, <1>3, <1>6 DEF InHandInv
<1> QED BY <1>1, <1>3, <1>4, <1>6, <1>7

\* A start finds no worker; if this process creates the mapping nothing is in
\* force afterwards.
LEMMA StartStream ==
    ASSUME StreamInv, LifecycleInv, TypeOK', NEW c \in Controls,
           Start(c) \/ StartFails(c) \/ StartWorker(c)
    PROVE  StreamInv' /\ UNCHANGED <<log, Due>>
<1> USE DEF StreamInv
<1>1. worker = "off" /\ UNCHANGED <<log, queue, wcmd>>
  BY DEF LifecycleInv, Start, StartFails, StartWorker, workerVars
<1>2. /\ worker' \notin InHand /\ ~Holding' /\ ~Holding
      /\ worker' \notin {"take", "status", "publish", "write"}
  BY <1>1 DEF InHand, Holding, Start, StartFails, StartWorker, workerVars
<1>3. (\A n : CommandNo(n)' = CommandNo(n)) /\ UNCHANGED <<Front, Due>>
  BY <1>1, <1>2 DEF CommandNo, Front, Due
<1>4. (shm'.cmd = NoCmd \/ shm' = shm) /\ (ref'.cmd = NoCmd \/ ref' = ref)
  BY DEF Start, StartFails, StartWorker, ZeroRef
<1> QED BY <1>1, <1>2, <1>3, <1>4 DEF QueueIsBacklog, InHandInv, InForceInv, RefInv

\* The other calls leave all of it alone.
LEMMA OtherCallStream ==
    ASSUME StreamInv, TypeOK', NEW c \in Controls, Call(c),
           ~SubmitServo(c), ~Start(c), ~StartFails(c), ~StartWorker(c)
    PROVE  StreamInv' /\ UNCHANGED <<log, shm, Due>>
<1>1. UNCHANGED <<log, queue, ref, shm, worker, wref, wcmd>>
  BY DEF clientVars, workerVars, Call, SendCommand, SetControlMode,
     ApplyStatusToggleMask, SetStatusBit, ToggleStatusBit, SetMotorGear,
     Stop, JoinWorker
<1>2. (\A n : CommandNo(n)' = CommandNo(n)) /\ UNCHANGED <<Front, Due>>
  BY <1>1 DEF CommandNo, Front, Due, Holding
<1> QED BY <1>1, <1>2 DEF StreamInv, QueueIsBacklog, InHandInv, InForceInv, RefInv

LEMMA StreamStep == StreamInv /\ LifecycleInv /\ TypeOK' /\ [Next]_vars => StreamInv'
<1> SUFFICES ASSUME StreamInv, LifecycleInv, TypeOK', [Next]_vars PROVE StreamInv'
  OBVIOUS
<1>1. CASE Worker
  BY <1>1, TakeStream, WriteStream, OtherWorkerStream DEF Worker
<1>2. ASSUME NEW c \in Controls, Call(c) PROVE StreamInv'
  BY <1>2, SubmitStream, StartStream, OtherCallStream
<1>3. CASE UNCHANGED vars
  <2>1. UNCHANGED <<log, queue, ref, shm, worker, wref, wcmd>>
    BY <1>3 DEF vars
  <2>2. (\A n : CommandNo(n)' = CommandNo(n)) /\ UNCHANGED <<Front, Due>>
    BY <2>1 DEF CommandNo, Front, Due, Holding
  <2> QED BY <2>1, <2>2 DEF StreamInv, QueueIsBacklog, InHandInv, InForceInv, RefInv
<1> QED BY <1>1, <1>2, <1>3 DEF Next

LEMMA StreamInvCorrect == Spec => []StreamInv
<1>1. Init => StreamInv
  <2> SUFFICES ASSUME Init, TypeOK PROVE StreamInv
    BY InitType
  <2>1. /\ queue = <<>> /\ log = <<>> /\ worker = "off"
        /\ ref.cmd = NoCmd /\ shm.cmd = NoCmd
    BY DEF Init, ZeroRef
  <2>2. Len(queue) = 0 /\ Len(log) = 0
    BY <2>1
  <2> QED BY <2>1, <2>2 DEF StreamInv, QueueIsBacklog, InHandInv, InHand, InForceInv, RefInv
<1> QED BY <1>1, StreamStep, TypeCorrect, LifecycleCorrect, PTL DEF Spec

\* The queue is the backlog: no interleaving of callers, worker, stops and
\* starts loses, doubles or reorders an accepted command.
THEOREM BacklogCorrect == Spec => []QueueIsBacklog
<1>1. StreamInv => QueueIsBacklog
  BY DEF StreamInv
<1> QED BY <1>1, StreamInvCorrect, PTL
-----------------------------------------------------------------------------
(* Refinement: the servo loop is the abstract stream of commands *)

\* How the pending part of a sequence changes with it.
LEMMA SubSeqOfAppend ==
    ASSUME NEW S, NEW s \in Seq(S), NEW e \in S, NEW m \in 1 .. Len(s) + 1
    PROVE  SubSeq(Append(s, e), m, Len(s) + 1) = Append(SubSeq(s, m, Len(s)), e)
<1> DEFINE t == Append(s, e)
           a == SubSeq(t, m, Len(s) + 1)
           b == SubSeq(s, m, Len(s))
<1>1. /\ t \in Seq(S) /\ Len(t) = Len(s) + 1 /\ t[Len(s) + 1] = e
      /\ \A i \in 1 .. Len(s) : t[i] = s[i]
  BY AppendFacts
<1>2. Len(s) \in Nat
  OBVIOUS
<1> HIDE DEF t
<1>3. /\ a \in Seq(S) /\ Len(a) = Len(s) + 2 - m
      /\ \A i \in 1 .. Len(s) + 2 - m : a[i] = t[m + i - 1]
  <2>1. \A i \in m .. Len(s) + 1 : t[i] \in S
    BY <1>1, <1>2
  <2> QED BY <1>2, <2>1, SubSeqProperties
<1>4. /\ b \in Seq(S) /\ Len(b) = Len(s) + 1 - m
      /\ \A i \in 1 .. Len(s) + 1 - m : b[i] = s[m + i - 1]
  <2>1. \A i \in m .. Len(s) : s[i] \in S
    BY <1>2
  <2> QED BY <1>2, <2>1, SubSeqProperties
<1> HIDE DEF a, b
<1>5. /\ Append(b, e) \in Seq(S) /\ Len(Append(b, e)) = Len(b) + 1
      /\ Append(b, e)[Len(b) + 1] = e
      /\ \A i \in 1 .. Len(b) : Append(b, e)[i] = b[i]
  BY <1>4, AppendFacts
<1>6. \A i \in 1 .. Len(a) : a[i] = Append(b, e)[i]
  <2> TAKE i \in 1 .. Len(a)
  <2>1. CASE i = Len(a)
    <3>1. i = Len(b) + 1 /\ i \in 1 .. Len(s) + 2 - m
      BY <1>2, <1>3, <1>4, <2>1
    <3>2. m + i - 1 = Len(s) + 1
      BY <1>2, <1>3, <2>1
    <3>3. a[i] = t[m + i - 1]
      BY <1>3, <3>1
    <3>4. a[i] = e
      BY <1>1, <3>2, <3>3
    <3> QED BY <1>5, <3>1, <3>4
  <2>2. CASE i # Len(a)
    <3>1. i \in 1 .. Len(s) + 1 - m /\ m + i - 1 \in 1 .. Len(s)
      BY <1>2, <1>3, <2>2
    <3> QED BY <1>1, <1>3, <1>4, <1>5, <3>1
  <2> QED BY <2>1, <2>2
<1>7. Len(a) = Len(Append(b, e))
  BY <1>2, <1>3, <1>4, <1>5
<1>8. a = Append(b, e)
  BY <1>3, <1>5, <1>6, <1>7, SeqEqual
<1> QED BY <1>8 DEF a, b, t

\* The numbers the refinement mapping counts with.
LEMMA FirstPendingFacts ==
    ASSUME StreamInv
    PROVE  /\ Due \in 1 .. Len(log) + 1 /\ FirstPending \in 1 .. Len(log) + 1
           /\ Len(log) \in Nat /\ log \in Seq(Kinds)
<1>1. /\ Len(log) \in Nat /\ Len(queue) \in Nat /\ log \in Seq(Kinds)
      /\ queue \in Seq(Commands) /\ Len(queue) <= Len(log)
  BY DEF StreamInv, TypeOK, QueueIsBacklog
<1>2. Front \in 1 .. Len(log) + 1
  BY <1>1 DEF Front
<1>3. Due \in 1 .. Len(log) + 1
  BY <1>1, <1>2 DEF StreamInv, InHandInv, InHand, Due, Holding
<1>4. shm.cmd.id = Due => Due \in 1 .. Len(log)
  BY <1>3 DEF StreamInv, InForceInv, NoCmd
<1> QED BY <1>1, <1>3, <1>4 DEF FirstPending

LEMMA SplitSubSeq ==
    ASSUME NEW S, NEW s \in Seq(S), NEW m \in 1 .. Len(s)
    PROVE  /\ SubSeq(s, m, Len(s)) = <<s[m]>> \o SubSeq(s, m + 1, Len(s))
           /\ Head(SubSeq(s, m, Len(s))) = s[m]
           /\ Tail(SubSeq(s, m, Len(s))) = SubSeq(s, m + 1, Len(s))
           /\ SubSeq(s, m, Len(s)) # <<>>
<1>1. Len(s) \in m .. Len(s)
  OBVIOUS
<1>2. Len(SubSeq(s, m, Len(s))) = Len(s) - m + 1
  OBVIOUS
<1>3. Len(SubSeq(s, m, Len(s))) # 0
  BY <1>2
<1>4. SubSeq(s, m, Len(s)) = <<s[m]>> \o SubSeq(s, m + 1, Len(s))
  BY <1>1, SubSeqRecursiveFirst, Zenon
<1>5. /\ Head(SubSeq(s, m, Len(s))) = s[m]
      /\ Tail(SubSeq(s, m, Len(s))) = SubSeq(s, m + 1, Len(s))
  BY <1>1, HeadTailOfSubSeq, Zenon
<1>6. \A t : t = <<>> => Len(t) = 0
  OBVIOUS
<1>7. SubSeq(s, m, Len(s)) # <<>>
  BY <1>3, <1>6, Zenon
<1> QED BY <1>4, <1>5, <1>7, Zenon

LEMMA SubmitRefines ==
    ASSUME StreamInv, StreamInv', NEW c \in Controls, SubmitServo(c)
    PROVE  Stream!Next
<1> DEFINE k == ctl[c].kind
<1>1. /\ k \in Kinds /\ log' = Append(log, k)
      /\ queue' = Append(queue, [id |-> Len(log) + 1, kind |-> k])
      /\ UNCHANGED <<shm, worker, wcmd>>
  BY DEF SubmitServo, StreamInv, TypeOK, workerVars
<1>2. /\ Len(queue') = Len(queue) + 1 /\ Len(log') = Len(log) + 1
      /\ Len(queue) \in Nat /\ Len(log) \in Nat
  <2>1. [id |-> Len(log) + 1, kind |-> k] \in Commands
    BY <1>1 DEF StreamInv, TypeOK, Commands
  <2> QED BY <1>1, <2>1, AppendFacts DEF StreamInv, TypeOK
<1>3. Due' = Due
  BY <1>1, <1>2 DEF Due, Holding, Front
<1>4. FirstPending' = FirstPending
  BY <1>1, <1>3 DEF FirstPending
<1>5. Pending' = Append(Pending, k)
  BY <1>1, <1>2, <1>4, FirstPendingFacts, SubSeqOfAppend DEF Pending
<1> QED BY <1>1, <1>5 DEF Stream!Next, Stream!Submit

LEMMA WriteRefines ==
    ASSUME StreamInv, StreamInv', WriteShm
    PROVE  Stream!Next \/ UNCHANGED <<Pending, shm.cmd.kind>>
<1>1. /\ worker = "write" /\ worker' = "top" /\ shm' = wref
      /\ UNCHANGED <<log, queue, wcmd>>
  BY DEF WriteShm, At
<1>2. Front' = Front /\ Due' = Front /\ shm'.cmd = wcmd
  BY <1>1 DEF Front, Due, Holding, StreamInv, RefInv
<1>3. CASE wcmd = NoCmd
  <2>1. shm.cmd = NoCmd /\ Due = Front
    BY <1>1, <1>3, FirstPendingFacts, NoCmdApart
    DEF StreamInv, InHandInv, InHand, Due, Holding
  <2>2. UNCHANGED <<shm.cmd, FirstPending>>
    BY <1>2, <1>3, <2>1 DEF FirstPending
  <2> QED BY <1>1, <2>2 DEF Pending
<1>4. CASE wcmd # NoCmd
  <2>1. /\ Due = wcmd.id /\ wcmd.id \in 1 .. Len(log) /\ wcmd = CommandNo(wcmd.id)
        /\ wcmd.id \in {Front - 1, Front}
    BY <1>1, <1>4 DEF StreamInv, InHandInv, InHand, Due, Holding
  <2>2. FirstPending' = Due + 1
    <3>1. Due \in Int /\ Front \in Int
      BY FirstPendingFacts DEF Front, StreamInv, TypeOK
    <3> QED BY <1>2, <2>1, <3>1 DEF FirstPending
  <2>3. CASE shm.cmd.id = Due
    <3>1. shm.cmd = CommandNo(Due) /\ FirstPending = Due + 1
      BY <2>1, <2>3 DEF StreamInv, InForceInv, NoCmd, FirstPending
    <3> QED BY <1>1, <1>2, <2>1, <2>2, <3>1 DEF Pending
  <2>4. CASE shm.cmd.id # Due
    <3>1. FirstPending = Due
      BY <2>4 DEF FirstPending
    <3>2. /\ Pending # <<>> /\ Head(Pending) = log[Due]
          /\ Tail(Pending) = SubSeq(log, Due + 1, Len(log))
      <4>1. Due \in 1 .. Len(log) /\ Pending = SubSeq(log, Due, Len(log))
        BY <2>1, <3>1 DEF Pending
      <4> QED BY <4>1, FirstPendingFacts, SplitSubSeq
    <3>3. shm'.cmd.kind = Head(Pending)
      BY <1>2, <2>1, <3>2 DEF CommandNo
    <3>4. Pending' = Tail(Pending)
      BY <1>1, <2>2, <3>2 DEF Pending
    <3> QED BY <3>2, <3>3, <3>4 DEF Stream!Next, Stream!Apply
  <2> QED BY <2>3, <2>4
<1> QED BY <1>3, <1>4

\* A start that clears the mapping, whether it succeeds or backs out, is a Restart of the stream: the command in
\* force is due again unless the queue has moved past it.
LEMMA StartRefines ==
    ASSUME StreamInv, StreamInv', LifecycleInv, NEW c \in Controls,
           Start(c) \/ StartFails(c), CreateMapping
    PROVE  Stream!Next
<1>1. UNCHANGED <<log, Due>> /\ shm' = ZeroRef
  BY StartStream DEF Start, StartFails, StreamInv
<1>2. shm'.cmd.kind = "none" /\ shm'.cmd.id = 0
  BY <1>1 DEF ZeroRef, NoCmd
<1>3. FirstPending' = Due
  BY <1>1, <1>2, FirstPendingFacts DEF FirstPending
<1>4. CASE shm.cmd.id # Due
  <2>1. Pending' = Pending
    BY <1>1, <1>3, <1>4 DEF Pending, FirstPending
  <2> QED BY <1>2, <2>1 DEF Stream!Next, Stream!Restart
<1>5. CASE shm.cmd.id = Due
  <2>1. Due \in 1 .. Len(log) /\ shm.cmd = CommandNo(Due)
    BY <1>5, FirstPendingFacts DEF StreamInv, InForceInv, NoCmd
  <2>2. Pending = SubSeq(log, Due + 1, Len(log)) /\ Pending' = SubSeq(log, Due, Len(log))
    BY <1>1, <1>3, <1>5 DEF Pending, FirstPending
  <2>3. shm.cmd.kind = log[Due] /\ shm.cmd.kind # "none"
    BY <2>1, FirstPendingFacts DEF CommandNo, Kinds
  <2>4. Pending' = <<shm.cmd.kind>> \o Pending
    BY <2>1, <2>2, <2>3, FirstPendingFacts, SplitSubSeq
  <2> QED BY <1>2, <2>3, <2>4 DEF Stream!Next, Stream!Restart
<1> QED BY <1>4, <1>5

\* Every behaviour of the servo loop is a behaviour of the command stream.
THEOREM RefinesCommandStream == Spec => ImplementsCommandStream
<1>1. Init => Stream!Init
  <2> SUFFICES ASSUME Init PROVE Stream!Init
    OBVIOUS
  <2>1. log = <<>> /\ shm.cmd = NoCmd /\ Len(log) = 0 /\ Len(queue) = 0 /\ worker = "off"
    BY DEF Init, ZeroRef
  <2>2. FirstPending = 1
    BY <2>1 DEF FirstPending, Due, Holding, Front, NoCmd
  <2>3. Pending = <<>>
    BY <2>1, <2>2, SubSeqEmpty DEF Pending
  <2> QED BY <2>1, <2>3 DEF Stream!Init, NoCmd
<1>2. StreamInv /\ StreamInv' /\ LifecycleInv /\ [Next]_vars
      => [Stream!Next]_Stream!vars
  <2> SUFFICES ASSUME StreamInv, StreamInv', LifecycleInv, [Next]_vars
               PROVE  Stream!Next \/ UNCHANGED <<Pending, shm.cmd.kind>>
    BY DEF Stream!vars
  <2>1. ASSUME UNCHANGED <<log, shm, Due>>
        PROVE  UNCHANGED <<Pending, shm.cmd.kind>>
    BY <2>1 DEF Pending, FirstPending
  <2>2. CASE WriteShm
    BY <2>2, WriteRefines
  <2>3. CASE TakeServoCmd
    <3>1. StreamInv /\ UNCHANGED <<log, shm, Due>>
      BY <2>3, TakeStream DEF StreamInv
    <3> QED BY <2>1, <3>1
  <2>4. CASE Worker /\ ~WriteShm /\ ~TakeServoCmd
    BY <2>1, <2>4, OtherWorkerStream DEF Worker, StreamInv
  <2>5. ASSUME NEW c \in Controls, Call(c)
        PROVE  Stream!Next \/ UNCHANGED <<Pending, shm.cmd.kind>>
    <3>1. CASE SubmitServo(c)
      BY <3>1, SubmitRefines
    <3>2. CASE (Start(c) \/ StartFails(c)) /\ CreateMapping
      BY <3>2, StartRefines
    <3>3. CASE (Start(c) \/ StartFails(c)) /\ ~CreateMapping
      <4>1. UNCHANGED <<log, shm, Due>>
        BY <3>3, StartStream DEF Start, StartFails, StreamInv
      <4> QED BY <2>1, <4>1
    <3>4. CASE StartWorker(c)
      <4>1. UNCHANGED <<log, shm, Due>>
        BY <3>4, StartStream DEF StartWorker, StreamInv
      <4> QED BY <2>1, <4>1
    <3>5. CASE ~SubmitServo(c) /\ ~Start(c) /\ ~StartFails(c) /\ ~StartWorker(c)
      BY <2>1, <2>5, <3>5, OtherCallStream DEF StreamInv
    <3> QED BY <3>1, <3>2, <3>3, <3>4, <3>5
  <2>6. CASE UNCHANGED vars
    <3>1. UNCHANGED <<log, shm, Due>>
      BY <2>6 DEF vars, Due, Holding, Front
    <3> QED BY <2>1, <3>1
  <2> QED BY <2>2, <2>3, <2>4, <2>5, <2>6 DEF Next
<1> QED BY <1>1, <1>2, StreamInvCorrect, LifecycleCorrect, PTL
        DEF Spec, ImplementsCommandStream, Stream!Spec
=============================================================================
