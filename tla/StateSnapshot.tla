--------------------------- MODULE StateSnapshot ---------------------------
(***************************************************************************)
(* ExcavatorReceive composed with the worker of ServoLoop: what a program  *)
(* sees when it waits for the next tick and then reads the reference and   *)
(* the response from the state channel, each under a lock of its own.      *)
(*                                                                         *)
(* ServoLoop's actions are taken over as they are; this module adds the    *)
(* tick counter, and stamps every published state with the run of the      *)
(* worker and the tick of the cycle that published it.                     *)
(***************************************************************************)
EXTENDS ServoLoop

CONSTANTS Receives,   \* the ExcavatorReceive objects sharing the runtime
          MaxTick,    \* bound: cycles of one run of the worker
          MaxRuns     \* bound: times the worker is started

ASSUME StateSnapshotAssumption == MaxTick \in Nat /\ MaxRuns \in Nat

VARIABLES tick,      \* loop_tick_
          run,       \* history: how often the worker has been started
          refStamp,  \* the cycle that published ref, tick 0: client_.init()
          respStamp, \* the cycle that published resp, tick 0: never
          rcv,       \* locals of the threads inside ExcavatorReceive::get
          snap       \* history: the latest Snapshot each object delivered

stampVars == <<tick, run, refStamp, respStamp>>
receiveVars == <<rcv, snap>>
allVars == <<vars, stampVars, receiveVars>>

Stamps == [run : Nat, tick : Nat]
NoStamp == [run |-> 0, tick |-> 0]
Now == [run |-> run, tick |-> tick]

\* Stamp a was published before stamp b.
Before(a, b) == a.run < b.run \/ (a.run = b.run /\ a.tick < b.tick)

Snapshots == [at : Stamps, ref : Stamps, resp : Stamps]
NoSnapshot == [at |-> NoStamp, ref |-> NoStamp, resp |-> NoStamp]

InitSnapshot ==
    /\ Init
    /\ tick = 0 /\ run = 0
    /\ refStamp = NoStamp /\ respStamp = NoStamp
    /\ rcv = [r \in Receives |-> [at |-> "idle", last |-> 0, got |-> NoSnapshot]]
    /\ snap = [r \in Receives |-> NoSnapshot]
-----------------------------------------------------------------------------
(* The worker and the control API, with their effect on tick and stamps *)

\* loop() counts the tick BEFORE the cycle it belongs to.
CountTick ==
    /\ LoopTop
    /\ IF running THEN tick < MaxTick /\ tick' = tick + 1 ELSE tick' = tick
    /\ UNCHANGED <<run, refStamp, respStamp, receiveVars>>

\* Mutation of StampResp: the response is published only when it has changed.
StampRespOnChange == /\ PublishResp
                     /\ respStamp' \in {respStamp, Now}
                     /\ UNCHANGED <<tick, run, refStamp, receiveVars>>

StampResp == /\ PublishResp
             /\ respStamp' = Now
             /\ UNCHANGED <<tick, run, refStamp, receiveVars>>

StampRef == /\ PublishRef
            /\ refStamp' = Now
            /\ UNCHANGED <<tick, run, respStamp, receiveVars>>

WorkerElse == /\ TakeServoCmd \/ ApplyLaw \/ ApplyCachedStatusToRef \/ WriteShm
              /\ UNCHANGED <<stampVars, receiveVars>>

\* Mutation of StartStamped: the reference of the previous run stays.
StartKeepsRef(c) == /\ Start(c)
                    /\ run < MaxRuns
                    /\ UNCHANGED <<stampVars, receiveVars>>

\* client_.init() resets the reference but not the response.
StartStamped(c) == /\ Start(c)
                   /\ run < MaxRuns
                   /\ refStamp' = [run |-> run + 1, tick |-> 0]
                   /\ UNCHANGED <<tick, run, respStamp, receiveVars>>

StartWorkerStamped(c) == /\ StartWorker(c)
                         /\ tick' = 0
                         /\ run' = run + 1
                         /\ UNCHANGED <<refStamp, respStamp, receiveVars>>

CallElse(c) ==
    /\ \/ \E kind \in UsedKinds : SendCommand(c, kind)
       \/ SubmitServo(c)
       \/ \E m \in UsedModes : SetControlMode(c, m)
       \/ \E mask \in ToggleMasks : ApplyStatusToggleMask(c, mask)
       \/ \E bit \in SetBits, target \in {0, 1} : SetStatusBit(c, bit, target)
       \/ \E gear \in Gears : SetMotorGear(c, gear)
       \/ ToggleStatusBit(c)
       \/ StartFails(c) \/ Stop(c) \/ JoinWorker(c)
    /\ UNCHANGED <<stampVars, receiveVars>>
-----------------------------------------------------------------------------
(* ExcavatorReceive *)

\* connect: from now on only ticks after the present one count.
Connect(r) == /\ rcv[r].at = "idle"
              /\ rcv[r].last # tick
              /\ rcv' = [rcv EXCEPT ![r].last = tick]
              /\ UNCHANGED <<vars, stampVars, snap>>

\* get, first part: waitNextTick returns.  (A timeout ends the call and
\* changes nothing.)
WaitNextTick(r) ==
    /\ rcv[r].at = "idle"
    /\ tick > rcv[r].last
    /\ rcv' = [rcv EXCEPT ![r].at = "ref", ![r].got = [NoSnapshot EXCEPT !.at = Now]]
    /\ UNCHANGED <<vars, stampVars, snap>>

GetRef(r) == /\ rcv[r].at = "ref"
             /\ rcv' = [rcv EXCEPT ![r].at = "resp", ![r].got.ref = refStamp]
             /\ UNCHANGED <<vars, stampVars, snap>>

\* getResp, and the delivery of the snapshot.
GetResp(r) ==
    /\ rcv[r].at = "resp"
    /\ snap' = [snap EXCEPT ![r] = [rcv[r].got EXCEPT !.resp = respStamp]]
    /\ rcv' = [rcv EXCEPT ![r] = [at |-> "idle", last |-> @.got.at.tick, got |-> NoSnapshot]]
    /\ UNCHANGED <<vars, stampVars>>

NextSnapshot ==
    \/ CountTick \/ StampResp \/ StampRef \/ WorkerElse
    \/ \E c \in Controls : StartStamped(c) \/ StartWorkerStamped(c) \/ CallElse(c)
    \/ \E r \in Receives : Connect(r) \/ WaitNextTick(r) \/ GetRef(r) \/ GetResp(r)

SpecSnapshot == InitSnapshot /\ [][NextSnapshot]_allVars
-----------------------------------------------------------------------------
(* Properties *)

\* A snapshot announced at tick t holds a reference and a response of cycle
\* t - 1 or later: the count precedes the cycle, so the cycle before it is
\* complete (get, excavator_receive.cpp:51-58).  In the first cycle after a
\* start the response may still be that of the previous run.
SnapshotAtMostOneCycleOld ==
    \A r \in Receives :
        LET s == snap[r]
            oldest == [s.at EXCEPT !.tick = @ - 1]
        IN  s # NoSnapshot => /\ ~Before(s.ref, oldest)
                              /\ s.at.tick > 1 => ~Before(s.resp, oldest)

\* The response of a snapshot is never older than its reference, unless that
\* is the zero reference of client_.init().
RespNotOlderThanRef ==
    \A r \in Receives : snap[r].ref.tick > 0 => ~Before(snap[r].resp, snap[r].ref)

\* The header's promise: reference and response are of the same cycle
\* (excavator_receive.hpp:19), here once both have been published.
SnapshotOfOneTick ==
    \A r \in Receives : snap[r].ref.tick > 0 /\ snap[r].resp.tick > 0 =>
                           snap[r].ref = snap[r].resp
=============================================================================
