----------------------------- MODULE ServoLoop -----------------------------
(***************************************************************************)
(* ExcavatorClient (control/src/excavator/excavator_client.cpp) and the    *)
(* part of the public API that talks to it (excavator_api): the servo      *)
(* command queue, the control mode, the cached status bits, the reference  *)
(* state in ExcavatorStateChannel, and the 50 Hz worker that turns them    *)
(* into the command block of the CAN shared memory.                        *)
(*                                                                         *)
(* Every mutex-protected region of the code is one action here; what a     *)
(* thread keeps in locals between two regions is state of the model.  So   *)
(* the checks and uses that the code does under DIFFERENT locks interleave *)
(* with everything else, as they do in the program.                        *)
(*                                                                         *)
(* Data: a command is its number in the order of acceptance and its type;  *)
(* the numbers that the motion laws compute are left out.  A reference     *)
(* state is the command it was computed from, the law that computed it,    *)
(* and the twelve status words.                                            *)
(***************************************************************************)
EXTENDS Integers, Sequences, FiniteSets

CONSTANTS Controls,      \* the ExcavatorControl objects sharing this runtime
          UsedModes,     \* control modes the programs select
          UsedKinds,     \* command types the programs send
          SetBits,       \* status bits the programs write with the setX calls
          ToggleMasks,   \* masks the programs pass to applyStatusToggleMask
          Gears,         \* gears the programs pass to setMotorGear
          CreateMapping, \* SessionConfig::create_mapping
          MaxCommands    \* bound: commands accepted in one behaviour

ControlModes == {"OpenLoopMotorSpeed", "ClosedLoopJointPosition",
                 "ClosedLoopJointVelocity", "ClosedLoopVelocityScalar"}
Kinds == {"SpeedScalarCmd", "VelocityCmd", "PositionCmd"}

StatusIdx == 0 .. 11
Status == [StatusIdx -> 0 .. 3]
ZeroStatus == [i \in StatusIdx |-> 0]

ASSUME ServoLoopAssumption ==
    /\ Controls # {}
    /\ UsedModes \subseteq ControlModes
    /\ UsedKinds \subseteq Kinds
    /\ SetBits \subseteq (0 .. 10) \ {9}
    /\ ToggleMasks \subseteq SUBSET (0 .. 10)
    /\ Gears \subseteq 0 .. 3
    /\ CreateMapping \in BOOLEAN
    /\ MaxCommands \in Nat

\* A command: its number in the order of acceptance and its type.
Commands == [id : Nat, kind : Kinds \cup {"none"}]
NoCmd == [id |-> 0, kind |-> "none"]

\* ExcavatorState as the reference channel and the command block carry it.
Refs == [cmd : Commands, law : ControlModes, status : Status]
ZeroRef == [cmd |-> NoCmd, law |-> "OpenLoopMotorSpeed", status |-> ZeroStatus]

VARIABLES
    \* --- ExcavatorClient, ExcavatorStateChannel, CAN shared memory
    running,   \* running_ : the worker's loop condition
    started,   \* ExcavatorRuntime::started_
    queue,     \* ref_command_queue_
    mode,      \* the channel's mode_
    cached,    \* cached_status_
    ref,       \* the channel's ref_
    shm,       \* cmd_50hz_a/b and cmd_10hz of the CAN shared memory
    \* --- locals of the worker thread
    worker,    \* where the worker thread is; "off": no thread
    wref,      \* ref / ref_next of update()
    wcmd,      \* cmd_raw of update(), NoCmd if there was none
    \* --- locals of the threads inside an API call
    ctl,
    \* --- history: the type of every command accepted, in order
    log

clientVars == <<queue, mode, cached, ref, shm>>
workerVars == <<worker, wref, wcmd>>
vars == <<running, started, queue, mode, cached, ref, shm, worker, wref, wcmd,
          ctl, log>>

WorkerLabels == {"off", "top", "resp", "take", "law", "status", "publish", "write"}
CtlLabels == {"idle", "submit", "toggle", "starting", "stopping"}
Calls == [at : CtlLabels, kind : Kinds \cup {"none"}, bit : 0 .. 10, n : 0 .. 3]
Idle == [at |-> "idle", kind |-> "none", bit |-> 0, n |-> 0]
Toggling(bit, n) == [at |-> "toggle", kind |-> "none", bit |-> bit, n |-> n]

Init == /\ running = FALSE /\ started = FALSE
        /\ queue = <<>>
        /\ mode = "OpenLoopMotorSpeed"
        /\ cached = ZeroStatus
        /\ ref = ZeroRef /\ shm = ZeroRef
        /\ worker = "off" /\ wref = ZeroRef /\ wcmd = NoCmd
        /\ ctl = [c \in Controls |-> Idle]
        /\ log = <<>>
-----------------------------------------------------------------------------
(* Helpers *)

\* The modes in which ExcavatorControl::sendCommand accepts a type.
Accepts(kind) ==
    CASE kind = "SpeedScalarCmd" -> {"OpenLoopMotorSpeed", "ClosedLoopVelocityScalar"}
      [] kind = "VelocityCmd"    -> {"ClosedLoopJointVelocity"}
      [] kind = "PositionCmd"    -> {"ClosedLoopJointPosition"}

\* Mutation of Toggled: the words count on instead of wrapping around.
ToggledNoWrap(i, v) == v + 1

\* Toggle one status word: the gear (9) steps through 0..3, the others flip.
Toggled(i, v) == IF i = 9 THEN (v + 1) % 4 ELSE IF v = 0 THEN 1 ELSE 0

ToggleAll(mask, s) == [i \in StatusIdx |-> IF i \in mask THEN Toggled(i, s[i]) ELSE s[i]]

\* With the pilot (5) on, ignition (0) and flameout (1) are forced to 0.
Interlocked(s) == IF s[5] # 0 THEN [s EXCEPT ![0] = 0, ![1] = 0] ELSE s

\* ExcavatorControl::updateRef: with a command, the law of the mode in force
\* computes the reference from it.  Without one the open loop law computes it
\* again from the old reference, and the others leave the reference as it was.
UpdateRef(r, cmd, m) ==
    [r EXCEPT !.cmd = IF cmd = NoCmd THEN @ ELSE cmd,
              !.law = IF cmd = NoCmd /\ m # "OpenLoopMotorSpeed" THEN @ ELSE m]

Enter(c, call) == ctl' = [ctl EXCEPT ![c] = call]
Return(c) == Enter(c, Idle)
-----------------------------------------------------------------------------
(* The API, called by a program's thread through control object c *)

\* sendCommand, first region: getControlMode.  A type the mode does not admit
\* ends the call with an error and changes nothing.
SendCommand(c, kind) ==
    /\ ctl[c].at = "idle"
    /\ mode \in Accepts(kind)
    /\ Len(log) + Cardinality({d \in Controls : ctl[d].at = "submit"}) < MaxCommands
    /\ Enter(c, [Idle EXCEPT !.at = "submit", !.kind = kind])
    /\ UNCHANGED <<running, started, clientVars, workerVars, log>>

\* sendCommand, second region: submitServo.
SubmitServo(c) ==
    /\ ctl[c].at = "submit"
    /\ queue' = Append(queue, [id |-> Len(log) + 1, kind |-> ctl[c].kind])
    /\ log' = Append(log, ctl[c].kind)
    /\ Return(c)
    /\ UNCHANGED <<running, started, mode, cached, ref, shm, workerVars>>

SetControlMode(c, m) ==
    /\ ctl[c].at = "idle"
    /\ mode' = m
    /\ UNCHANGED <<running, started, queue, cached, ref, shm, workerVars, ctl, log>>

ApplyStatusToggleMask(c, mask) ==
    /\ ctl[c].at = "idle"
    /\ cached' = ToggleAll(mask, cached)
    /\ UNCHANGED <<running, started, queue, mode, ref, shm, workerVars, ctl, log>>

\* setStatusBit, first region: compares the wanted value with the REFERENCE;
\* if they agree the call is over.
SetStatusBit(c, bit, target) ==
    /\ ctl[c].at = "idle"
    /\ ref.status[bit] # target
    /\ Enter(c, Toggling(bit, 1))
    /\ UNCHANGED <<running, started, clientVars, workerVars, log>>

\* setMotorGear, first region: reads the gear of the REFERENCE; the cached gear
\* is then stepped as often as it takes from there.
SetMotorGear(c, gear) ==
    /\ ctl[c].at = "idle"
    /\ ref.status[9] # gear
    /\ Enter(c, Toggling(9, (gear - ref.status[9]) % 4))
    /\ UNCHANGED <<running, started, clientVars, workerVars, log>>

\* toggleStatusBit: changes the CACHED status, n times for setMotorGear, each
\* time under the lock anew.
ToggleStatusBit(c) ==
    /\ ctl[c].at = "toggle"
    /\ cached' = ToggleAll({ctl[c].bit}, cached)
    /\ IF ctl[c].n = 1 THEN Return(c) ELSE Enter(c, [ctl[c] EXCEPT !.n = @ - 1])
    /\ UNCHANGED <<running, started, queue, mode, ref, shm, workerVars, log>>

\* ExcavatorRuntime::start and stop hold the runtime's mutex throughout.
RuntimeFree == \A d \in Controls : ctl[d].at \notin {"starting", "stopping"}

\* start, as far as client_.init() up to getRef: the mapping is opened (and
\* cleared, if this process creates it) and the reference is reset.
Start(c) ==
    /\ ctl[c].at = "idle" /\ RuntimeFree
    /\ ~started
    /\ shm' = IF CreateMapping THEN ZeroRef ELSE shm
    /\ ref' = ZeroRef
    /\ Enter(c, [Idle EXCEPT !.at = "starting"])
    /\ UNCHANGED <<running, started, queue, mode, cached, workerVars, log>>

\* start backs out: the mapping has been opened, but CanLib's worker, the IMU
\* library or the client cannot be started.
StartFails(c) ==
    /\ ctl[c].at = "idle" /\ RuntimeFree
    /\ ~started
    /\ shm' = IF CreateMapping THEN ZeroRef ELSE shm
    /\ UNCHANGED <<running, started, queue, mode, cached, ref, workerVars, ctl, log>>

\* The rest of start: the cached status is reset and the thread begins.  The
\* queue keeps what it held.
StartWorker(c) ==
    /\ ctl[c].at = "starting"
    /\ cached' = ZeroStatus
    /\ running' = TRUE
    /\ worker' = "top"
    /\ started' = TRUE
    /\ Return(c)
    /\ UNCHANGED <<queue, mode, ref, shm, wref, wcmd, log>>

Stop(c) ==
    /\ ctl[c].at = "idle" /\ RuntimeFree
    /\ started
    /\ running' = FALSE
    /\ Enter(c, [Idle EXCEPT !.at = "stopping"])
    /\ UNCHANGED <<started, clientVars, workerVars, log>>

\* Mutation of JoinWorker: stop() does not join the thread.
JoinWorkerNoWait(c) ==
    /\ ctl[c].at = "stopping"
    /\ started' = FALSE
    /\ Return(c)
    /\ UNCHANGED <<running, clientVars, workerVars, log>>

JoinWorker(c) ==
    /\ ctl[c].at = "stopping"
    /\ worker = "off"
    /\ started' = FALSE
    /\ Return(c)
    /\ UNCHANGED <<running, clientVars, workerVars, log>>
-----------------------------------------------------------------------------
(* The worker thread: loop() and update() *)

At(from, to) == worker = from /\ worker' = to

LoopTop ==
    /\ IF running THEN At("top", "resp") ELSE At("top", "off")
    /\ UNCHANGED <<running, started, clientVars, wref, wcmd, ctl, log>>

\* Publish the response and take a copy of the reference, under one lock.
PublishResp ==
    /\ At("resp", "take")
    /\ wref' = ref
    /\ UNCHANGED <<running, started, clientVars, wcmd, ctl, log>>

\* Mutation of TakeServoCmd: every command is removed when it is taken.
TakeServoCmdPops ==
    /\ At("take", "law")
    /\ wcmd' = IF queue = <<>> THEN NoCmd ELSE Head(queue)
    /\ queue' = IF queue = <<>> THEN queue ELSE Tail(queue)
    /\ UNCHANGED <<running, started, mode, cached, ref, shm, wref, ctl, log>>

\* Mutation of TakeServoCmd: no command is ever removed.
TakeServoCmdPeeks ==
    /\ At("take", "law")
    /\ wcmd' = IF queue = <<>> THEN NoCmd ELSE Head(queue)
    /\ UNCHANGED <<running, started, clientVars, wref, ctl, log>>

\* Mutation of TakeServoCmd: the newest command wins, the others are dropped.
TakeServoCmdNewest ==
    /\ At("take", "law")
    /\ wcmd' = IF queue = <<>> THEN NoCmd ELSE queue[Len(queue)]
    /\ queue' = IF queue = <<>> THEN queue ELSE <<queue[Len(queue)]>>
    /\ UNCHANGED <<running, started, mode, cached, ref, shm, wref, ctl, log>>

\* The front of the queue; removed only when another command is waiting, so
\* the newest one is taken again every cycle.
TakeServoCmd ==
    /\ At("take", "law")
    /\ wcmd' = IF queue = <<>> THEN NoCmd ELSE Head(queue)
    /\ queue' = IF Len(queue) > 1 THEN Tail(queue) ELSE queue
    /\ UNCHANGED <<running, started, mode, cached, ref, shm, wref, ctl, log>>

\* updateRef reads the mode under the channel's lock and computes.
ApplyLaw ==
    /\ At("law", "status")
    /\ wref' = UpdateRef(wref, wcmd, mode)
    /\ UNCHANGED <<running, started, clientVars, wcmd, ctl, log>>

\* Mutation of ApplyCachedStatusToRef: the interlock looks at the pilot word of
\* the reference, which is a cycle old.
ApplyCachedStatusOldPilot ==
    /\ At("status", "publish")
    /\ wref' = [wref EXCEPT !.status =
                    IF wref.status[5] # 0 THEN Interlocked(cached) ELSE cached]
    /\ UNCHANGED <<running, started, clientVars, wcmd, ctl, log>>

\* Mutation of ApplyCachedStatusToRef: only cycles with a command update it.
ApplyCachedStatusWithCommand ==
    /\ At("status", "publish")
    /\ wref' = IF wcmd = NoCmd THEN wref
               ELSE [wref EXCEPT !.status = Interlocked(cached)]
    /\ UNCHANGED <<running, started, clientVars, wcmd, ctl, log>>

ApplyCachedStatusToRef ==
    /\ At("status", "publish")
    /\ wref' = [wref EXCEPT !.status = Interlocked(cached)]
    /\ UNCHANGED <<running, started, clientVars, wcmd, ctl, log>>

PublishRef ==
    /\ At("publish", "write")
    /\ ref' = wref
    /\ UNCHANGED <<running, started, queue, mode, cached, shm, wref, wcmd, ctl, log>>

\* robotStateToHardwareCmd and ExcavatorCommunication::write.
WriteShm ==
    /\ At("write", "top")
    /\ shm' = wref
    /\ UNCHANGED <<running, started, queue, mode, cached, ref, wref, wcmd, ctl, log>>

Worker == \/ LoopTop \/ PublishResp \/ TakeServoCmd \/ ApplyLaw
          \/ ApplyCachedStatusToRef \/ PublishRef \/ WriteShm

Call(c) == \/ \E kind \in UsedKinds : SendCommand(c, kind)
           \/ SubmitServo(c)
           \/ \E m \in UsedModes : SetControlMode(c, m)
           \/ \E mask \in ToggleMasks : ApplyStatusToggleMask(c, mask)
           \/ \E bit \in SetBits, target \in {0, 1} : SetStatusBit(c, bit, target)
           \/ \E gear \in Gears : SetMotorGear(c, gear)
           \/ ToggleStatusBit(c)
           \/ Start(c) \/ StartFails(c) \/ StartWorker(c) \/ Stop(c) \/ JoinWorker(c)

Next == Worker \/ \E c \in Controls : Call(c)

Spec == Init /\ [][Next]_vars

\* The worker thread runs whenever it can: it waits only for short critical
\* sections and for its own 20 ms tick.
FairSpec == Spec /\ WF_vars(Worker)
-----------------------------------------------------------------------------
(* Properties *)

TypeOK ==
    /\ running \in BOOLEAN /\ started \in BOOLEAN
    /\ queue \in Seq(Commands)
    /\ mode \in ControlModes
    /\ cached \in Status
    /\ ref \in Refs /\ shm \in Refs
    /\ worker \in WorkerLabels /\ wref \in Refs /\ wcmd \in Commands
    /\ ctl \in [Controls -> Calls]
    /\ \A c \in Controls : /\ ctl[c].at = "submit" => ctl[c].kind \in Kinds
                           /\ ctl[c].at = "toggle" => ctl[c].n # 0
    /\ log \in Seq(Kinds)

\* The n-th accepted command, and the number of the one at the queue's front.
CommandNo(n) == [id |-> n, kind |-> log[n]]
Front == Len(log) - Len(queue) + 1

\* The queue holds exactly the newest accepted commands, oldest first, and is
\* never empty again once a command was accepted (takeServoCmd keeps the last
\* one; stop and start keep the queue), whatever callers and worker do.
QueueIsBacklog ==
    /\ Len(queue) <= Len(log)
    /\ \A i \in 1 .. Len(queue) : queue[i] = CommandNo(Front + i - 1)
    /\ log # <<>> => queue # <<>>

\* The ignition and flame-out words are 0 in every published reference and in
\* every command block with the pilot on, whatever the callers toggle and
\* whenever (excavator_client.cpp:117, comment on applyCachedStatusToRef).
PilotInterlock ==
    \A s \in {ref.status, shm.status} : s[5] # 0 => s[0] = 0 /\ s[1] = 0

\* stop() returns only after the last cycle is complete, when the shared memory
\* holds what the worker published last (or a worker that was stopped before its
\* first cycle has left the reset reference); and nothing is written late: until
\* a start succeeds only the opening of the mapping, by a start that may yet back
\* out, changes it.
StopCompletesCycle ==
    [][~started' =>
         /\ started => worker = "off" /\ (shm = ref \/ ref = ZeroRef)
         /\ ~started => shm' = shm \/ (CreateMapping /\ shm' = ZeroRef)]_vars

\* The command in this cycle's hands, from takeServoCmd to the write.
Holding == worker \in {"law", "status", "publish", "write"} /\ wcmd # NoCmd

\* The command the next completed cycle puts into force.
Due == IF Holding THEN wcmd.id ELSE Front

\* The accepted commands that are not in force yet.
FirstPending == IF shm.cmd.id = Due THEN Due + 1 ELSE Due
Pending == SubSeq(log, FirstPending, Len(log))

\* The abstract stream of commands this module implements.
Stream == INSTANCE CommandStream WITH Command <- Kinds, Neutral <- "none",
                                      current <- shm.cmd.kind, pending <- Pending

\* Accepted commands reach the CAN shared memory in order, none lost and none
\* overtaken; only a restart puts one into force a second time.
ImplementsCommandStream == Stream!Spec

\* A command is computed by the law of a mode that admits its type, as the
\* error messages of sendCommand say (excavator_control.cpp:75).
LawAdmitsCommand == ref.cmd # NoCmd => ref.law \in Accepts(ref.cmd.kind)

\* While the worker runs, every accepted command gets into force.
AcceptedTakesEffect ==
    \A n \in 1 .. MaxCommands :
        running /\ Len(log) >= n ~> shm.cmd.id >= n \/ ~running

\* While the worker runs, a status bit that is left alone reaches the shared
\* memory (all but ignition and flame-out, which the pilot may mask).
StatusTakesEffect ==
    \A bit \in SetBits \ {0, 1} : \A v \in {0, 1} :
        running /\ cached[bit] = v ~> shm.status[bit] = v \/ cached[bit] # v \/ ~running
=============================================================================
