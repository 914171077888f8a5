------------------------ MODULE StateSnapshotProofs ------------------------
(***************************************************************************)
(* Theorems about StateSnapshot, for every number of control and receive   *)
(* objects, every number of ticks and of runs of the worker.               *)
(***************************************************************************)
EXTENDS StateSnapshot, ServoLoopProofs

Previous == [run |-> run, tick |-> tick - 1]
NextRun == [run |-> run + 1, tick |-> 0]

(***************************************************************************)
(* What the worker's place says about the age of the two published states: *)
(* the tick is counted before the cycle, so within a cycle the reference   *)
(* is of the cycle before until the new one is published, and so is the    *)
(* response.  The first response of a run may be of any earlier run.       *)
(***************************************************************************)
CycleInv ==
    /\ tick \in Nat /\ run \in Nat
    /\ refStamp \in Stamps /\ respStamp \in Stamps
    /\ ~Before(Now, respStamp)
    /\ worker = "off" => refStamp \in {Now, NextRun}
    /\ worker = "top" => refStamp = Now
    /\ worker \in {"resp", "take", "law", "status", "publish"} =>
           tick > 0 /\ refStamp = Previous
    /\ worker = "write" => tick > 0 /\ refStamp = Now
    /\ worker \in {"off", "top"} /\ tick > 0 => respStamp = Now
    /\ worker = "resp" /\ tick > 1 => respStamp = Previous
    /\ worker \in {"take", "law", "status", "publish", "write"} => respStamp = Now
    /\ \A c \in Controls : ctl[c].at = "starting" => worker = "off" /\ refStamp = NextRun

\* A thread inside get(): what it has copied, and what it can still copy, is
\* recent enough for the tick it was woken by, because published states only
\* get newer.
Fetches == [at : {"idle", "ref", "resp"}, last : Nat, got : Snapshots]

Oldest(s) == [s.at EXCEPT !.tick = @ - 1]

Fetching(f) ==
    /\ f.at # "idle" => /\ f.got.at.tick > 0
                        /\ ~Before(Now, f.got.at)
                        /\ f.got.at.tick > 1 => ~Before(respStamp, Oldest(f.got))
                        /\ f.at = "ref" => ~Before(refStamp, Oldest(f.got))
    /\ f.at = "resp" => /\ ~Before(f.got.ref, Oldest(f.got))
                        /\ f.got.ref.tick > 0 => ~Before(respStamp, f.got.ref)

FetchInv == /\ rcv \in [Receives -> Fetches]
            /\ \A r \in Receives : Fetching(rcv[r])

\* The snapshots delivered so far, as the two properties state it.
Delivered(s) ==
    /\ s # NoSnapshot => /\ ~Before(s.ref, Oldest(s))
                         /\ s.at.tick > 1 => ~Before(s.resp, Oldest(s))
    /\ s.ref.tick > 0 => ~Before(s.resp, s.ref)

SnapInv == /\ snap \in [Receives -> Snapshots]
           /\ \A r \in Receives : Delivered(snap[r])

SnapshotInv == CycleInv /\ FetchInv /\ SnapInv
-----------------------------------------------------------------------------
(* The composed system is a servo loop *)

LEMMA StepOfServoLoop == [NextSnapshot]_allVars => [Next]_vars
<1> SUFFICES ASSUME [NextSnapshot]_allVars PROVE [Next]_vars
  OBVIOUS
<1>1. CASE CountTick
  BY <1>1 DEF CountTick, Next, Worker
<1>2. CASE StampResp
  BY <1>2 DEF StampResp, Next, Worker
<1>3. CASE StampRef
  BY <1>3 DEF StampRef, Next, Worker
<1>4. CASE WorkerElse
  BY <1>4 DEF WorkerElse, Next, Worker
<1>5. ASSUME NEW c \in Controls, StartStamped(c) \/ StartWorkerStamped(c) \/ CallElse(c)
      PROVE  Next
  <2>1. Call(c)
    BY <1>5 DEF StartStamped, StartWorkerStamped, CallElse, Call
  <2> QED BY <2>1 DEF Next
<1>6. ASSUME NEW r \in Receives, Connect(r) \/ WaitNextTick(r) \/ GetRef(r) \/ GetResp(r)
      PROVE  UNCHANGED vars
  BY <1>6 DEF Connect, WaitNextTick, GetRef, GetResp
<1>7. CASE UNCHANGED allVars
  BY <1>7 DEF allVars
<1> QED BY <1>1, <1>2, <1>3, <1>4, <1>5, <1>6, <1>7 DEF NextSnapshot

(***************************************************************************)
(* Counting ticks, stamping and the threads of ExcavatorReceive change     *)
(* nothing of the servo loop: whatever is proved of it holds here too.     *)
(***************************************************************************)
THEOREM SnapshotRefinesServoLoop == SpecSnapshot => Spec
BY StepOfServoLoop, PTL DEF SpecSnapshot, Spec, InitSnapshot

LEMMA ServoLoopHolds == SpecSnapshot => [](TypeOK /\ LifecycleInv)
BY SnapshotRefinesServoLoop, TypeCorrect, LifecycleCorrect, PTL
-----------------------------------------------------------------------------
(* Order of stamps *)

LEMMA BeforeOrder ==
    /\ \A a \in Stamps : ~Before(a, a)
    /\ \A a, b, c \in Stamps : ~Before(b, a) /\ ~Before(c, b) => ~Before(c, a)
BY DEF Stamps, Before

\* In every state the published states are of the previous cycle or newer, and
\* a response is never older than a reference that is not the zero reference.
LEMMA PublishedRecent ==
    ASSUME TypeOK, CycleInv
    PROVE  /\ tick > 0 => ~Before(refStamp, Previous)
           /\ tick > 1 => ~Before(respStamp, Previous)
           /\ refStamp.tick > 0 => ~Before(respStamp, refStamp)
<1> USE DEF CycleInv, Stamps, Before, Now, Previous, NextRun
<1>1. CASE worker \in {"off", "top"}
  BY <1>1
<1>2. CASE worker = "resp"
  BY <1>2
<1>3. CASE worker \in {"take", "law", "status", "publish", "write"}
  BY <1>3
<1> QED BY <1>1, <1>2, <1>3 DEF TypeOK, WorkerLabels
-----------------------------------------------------------------------------
(* The stamps of the published states *)

LEMMA EnterElse ==
    ASSUME TypeOK, NEW c \in Controls, NEW call, Enter(c, call), call.at # "starting"
    PROVE  \A d \in Controls : ctl'[d].at = "starting" => ctl[d].at = "starting"
BY DEF Enter, TypeOK

LEMMA CycleStep == TypeOK /\ LifecycleInv /\ CycleInv /\ [NextSnapshot]_allVars => CycleInv'
<1> SUFFICES ASSUME TypeOK, LifecycleInv, CycleInv, [NextSnapshot]_allVars PROVE CycleInv'
  OBVIOUS
<1> USE DEF Now, Previous, NextRun, Stamps, Before
<1>1. CASE CountTick
  BY <1>1 DEF CycleInv, CountTick, LoopTop, At, receiveVars
<1>2. CASE StampResp
  BY <1>2 DEF CycleInv, StampResp, PublishResp, At
<1>3. CASE StampRef
  BY <1>3 DEF CycleInv, StampRef, PublishRef, At
<1>4. CASE WorkerElse
  BY <1>4 DEF CycleInv, WorkerElse, TakeServoCmd, ApplyLaw, ApplyCachedStatusToRef,
              WriteShm, At, stampVars
<1>5. ASSUME NEW c \in Controls, StartStamped(c) PROVE CycleInv'
  <2>1. worker = "off" /\ worker' = worker
    BY <1>5 DEF LifecycleInv, StartStamped, Start, workerVars
  <2>2. UNCHANGED <<tick, run, respStamp>> /\ refStamp' = NextRun
    BY <1>5 DEF StartStamped
  <2>. QED BY <2>1, <2>2 DEF CycleInv
<1>6. ASSUME NEW c \in Controls, StartWorkerStamped(c) PROVE CycleInv'
  <2>1. /\ worker' = "top"
        /\ refStamp = NextRun
        /\ \A d \in Controls : ctl'[d].at # "starting"
    BY <1>6 DEF CycleInv, TypeOK, LifecycleInv, StartWorkerStamped, StartWorker, Return, Enter, Idle
  <2>2. UNCHANGED <<refStamp, respStamp>> /\ run' = run + 1 /\ tick' = 0
    BY <1>6 DEF StartWorkerStamped
  <2>. QED BY <2>1, <2>2 DEF CycleInv
<1>7. ASSUME NEW c \in Controls, CallElse(c) PROVE CycleInv'
  <2>1. UNCHANGED <<tick, run, refStamp, respStamp>>
    BY <1>7 DEF CallElse, stampVars
  <2>2. UNCHANGED worker
    BY <1>7 DEF CallElse, SendCommand, SubmitServo, SetControlMode, ApplyStatusToggleMask,
                SetStatusBit, SetMotorGear, ToggleStatusBit, StartFails, Stop, JoinWorker, workerVars
  <2>3. \A d \in Controls : ctl'[d].at = "starting" => ctl[d].at = "starting"
    <3>1. CASE ToggleStatusBit(c)
      <4>1. ctl[c] \in Calls /\ [ctl[c] EXCEPT !.n = @ - 1].at = "toggle"
        BY <3>1 DEF ToggleStatusBit, TypeOK, Calls
      <4>2. Enter(c, Idle) \/ Enter(c, [ctl[c] EXCEPT !.n = @ - 1])
        BY <3>1 DEF ToggleStatusBit, Return
      <4>. QED BY <4>1, <4>2, EnterElse DEF Idle
    <3>2. CASE SubmitServo(c) \/ Stop(c) \/ JoinWorker(c)
      <4>1. Enter(c, Idle) \/ Enter(c, [Idle EXCEPT !.at = "stopping"])
        BY <3>2 DEF SubmitServo, Stop, JoinWorker, Return
      <4>. QED BY <4>1, EnterElse DEF Idle
    <3>3. ASSUME NEW kind \in UsedKinds, SendCommand(c, kind) PROVE Enter(c, [Idle EXCEPT !.at = "submit", !.kind = kind])
      BY <3>3 DEF SendCommand
    <3>4. ASSUME NEW bit \in SetBits, NEW target \in {0, 1}, SetStatusBit(c, bit, target)
          PROVE  Enter(c, Toggling(bit, 1))
      BY <3>4 DEF SetStatusBit
    <3>5. ASSUME NEW gear \in Gears, SetMotorGear(c, gear)
          PROVE  Enter(c, Toggling(9, (gear - ref.status[9]) % 4))
      BY <3>5 DEF SetMotorGear
    <3>6. \A kind : [Idle EXCEPT !.at = "submit", !.kind = kind].at = "submit"
      BY DEF Idle
    <3>7. \A bit, n : Toggling(bit, n).at = "toggle"
      BY DEF Toggling
    <3>8. CASE \/ \E m \in UsedModes : SetControlMode(c, m)
               \/ \E mask \in ToggleMasks : ApplyStatusToggleMask(c, mask)
               \/ StartFails(c)
      BY <3>8 DEF SetControlMode, ApplyStatusToggleMask, StartFails
    <3>. QED BY <1>7, <3>1, <3>2, <3>3, <3>4, <3>5, <3>6, <3>7, <3>8, EnterElse DEF CallElse
  <2>. QED BY <2>1, <2>2, <2>3 DEF CycleInv
<1>8. CASE \E r \in Receives : Connect(r) \/ WaitNextTick(r) \/ GetRef(r) \/ GetResp(r)
  BY <1>8 DEF CycleInv, Connect, WaitNextTick, GetRef, GetResp, vars, stampVars
<1>9. CASE UNCHANGED allVars
  BY <1>9 DEF CycleInv, allVars, vars, stampVars
<1> QED BY <1>1, <1>2, <1>3, <1>4, <1>5, <1>6, <1>7, <1>8, <1>9 DEF NextSnapshot
-----------------------------------------------------------------------------
(* The threads inside get() *)

\* Published states only get newer, in any step.
LEMMA StampsGrow ==
    ASSUME TypeOK, LifecycleInv, CycleInv, CycleInv', [NextSnapshot]_allVars
    PROVE  /\ ~Before(Now', Now)
           /\ ~Before(respStamp', respStamp)
           /\ ~Before(refStamp', refStamp)
<1> USE DEF Now, NextRun, Previous, Stamps, Before, CycleInv
<1>1. CASE CountTick
  BY <1>1 DEF CountTick
<1>2. CASE StampResp
  BY <1>2 DEF StampResp
<1>3. CASE StampRef
  BY <1>3 DEF StampRef, PublishRef, At
<1>4. CASE WorkerElse
  BY <1>4 DEF WorkerElse, stampVars
<1>5. ASSUME NEW c \in Controls, StartStamped(c) PROVE ~Before(refStamp', refStamp)
  BY <1>5 DEF StartStamped, Start, LifecycleInv
<1>6. CASE \E c \in Controls : StartStamped(c) \/ StartWorkerStamped(c) \/ CallElse(c)
  BY <1>5, <1>6 DEF StartStamped, StartWorkerStamped, CallElse, stampVars
<1>7. CASE \E r \in Receives : Connect(r) \/ WaitNextTick(r) \/ GetRef(r) \/ GetResp(r)
  BY <1>7 DEF Connect, WaitNextTick, GetRef, GetResp, stampVars
<1>8. CASE UNCHANGED allVars
  BY <1>8 DEF allVars, stampVars
<1> QED BY <1>1, <1>2, <1>3, <1>4, <1>6, <1>7, <1>8 DEF NextSnapshot

\* What a thread has copied stays recent while others take steps.
LEMMA FetchKept ==
    ASSUME TypeOK, LifecycleInv, CycleInv, CycleInv', [NextSnapshot]_allVars,
           NEW f \in Fetches, Fetching(f)
    PROVE  Fetching(f)'
<1>1. ~Before(respStamp', respStamp) /\ ~Before(Now', Now) /\ ~Before(refStamp', refStamp)
  BY StampsGrow
<1>2. f.got \in Snapshots /\ f.got.at \in Stamps /\ f.got.ref \in Stamps
  BY DEF Fetches, Snapshots
<1>3. f.got.at.tick > 0 => Oldest(f.got) \in Stamps
  BY <1>2 DEF Oldest, Stamps
<1>4. Now \in Stamps /\ Now' \in Stamps /\ refStamp \in Stamps /\ refStamp' \in Stamps
      /\ respStamp \in Stamps /\ respStamp' \in Stamps
  BY DEF CycleInv, Now, Stamps
<1> QED BY <1>1, <1>2, <1>3, <1>4, BeforeOrder DEF Fetching
LEMMA FetchStep ==
    ASSUME TypeOK, LifecycleInv, CycleInv, CycleInv', FetchInv, SnapInv, [NextSnapshot]_allVars
    PROVE  FetchInv' /\ SnapInv'
<1> USE DEF SnapInv
<1>0. ASSUME NEW f \in Fetches, Fetching(f) PROVE Fetching(f)'
  BY <1>0, FetchKept
<1>1. CASE UNCHANGED receiveVars
  <2>1. \A r \in Receives : Fetching(rcv[r])'
    BY <1>0, <1>1 DEF FetchInv, receiveVars
  <2>. QED BY <1>1, <2>1 DEF FetchInv, receiveVars
<1>2. ASSUME NEW r \in Receives, UNCHANGED <<snap, refStamp, respStamp, tick, run>>,
             NEW f \in Fetches, Fetching(f), rcv' = [rcv EXCEPT ![r] = f]
      PROVE  FetchInv' /\ SnapInv'
  <2>1. \A q \in Receives : Fetching(rcv'[q])
    BY <1>2 DEF FetchInv
  <2>2. \A q \in Receives : Fetching(rcv[q])'
    BY <2>1, <1>2 DEF Fetching, Now
  <2>. QED BY <1>2, <2>2 DEF FetchInv
<1>3. ASSUME NEW r \in Receives, Connect(r) PROVE FetchInv' /\ SnapInv'
  <2> DEFINE f == [rcv[r] EXCEPT !.last = tick]
  <2>1. f \in Fetches /\ Fetching(f)
    BY <1>3 DEF FetchInv, Fetching, Fetches, CycleInv, Connect
  <2>2. rcv' = [rcv EXCEPT ![r] = f]
    BY <1>3 DEF Connect, FetchInv
  <2>. QED BY <1>2, <1>3, <2>1, <2>2 DEF Connect, stampVars
<1>4. ASSUME NEW r \in Receives, WaitNextTick(r) PROVE FetchInv' /\ SnapInv'
  <2> DEFINE f == [rcv[r] EXCEPT !.at = "ref", !.got = [NoSnapshot EXCEPT !.at = Now]]
  <2>1. f \in Fetches /\ f.at = "ref" /\ f.got.at = Now
    BY <1>4 DEF FetchInv, Fetches, CycleInv, WaitNextTick, Snapshots, NoSnapshot, NoStamp, Now, Stamps
  <2>2. Oldest(f.got) = Previous
    BY <2>1 DEF Oldest, Now, Previous
  <2>3. Now \in Stamps /\ tick > 0 /\ Now.tick = tick
    BY <1>4 DEF CycleInv, Now, Stamps, WaitNextTick, FetchInv, Fetches
  <2>4. Fetching(f)
    BY <2>1, <2>2, <2>3, BeforeOrder, PublishedRecent DEF Fetching
  <2>5. rcv' = [rcv EXCEPT ![r] = f]
    BY <1>4 DEF WaitNextTick, FetchInv
  <2>. QED BY <1>2, <1>4, <2>1, <2>4, <2>5 DEF WaitNextTick, stampVars
<1>5. ASSUME NEW r \in Receives, GetRef(r) PROVE FetchInv' /\ SnapInv'
  <2> DEFINE f == [rcv[r] EXCEPT !.at = "resp", !.got.ref = refStamp]
  <2>1. /\ rcv[r] \in Fetches /\ rcv[r].at = "ref" /\ Fetching(rcv[r])
        /\ refStamp \in Stamps
    BY <1>5 DEF FetchInv, GetRef, CycleInv
  <2>2. /\ f \in Fetches /\ f.at = "resp" /\ f.got.at = rcv[r].got.at /\ f.got.ref = refStamp
        /\ Oldest(f.got) = Oldest(rcv[r].got)
    BY <2>1 DEF Fetches, Snapshots, Oldest
  <2>3. Fetching(f)
    <3> HIDE DEF f
    <3>. QED BY <2>1, <2>2, PublishedRecent DEF Fetching
  <2>4. rcv' = [rcv EXCEPT ![r] = f]
    BY <1>5 DEF GetRef, FetchInv
  <2>. QED BY <1>2, <1>5, <2>2, <2>3, <2>4 DEF GetRef, stampVars
<1>6. ASSUME NEW r \in Receives, GetResp(r) PROVE FetchInv' /\ SnapInv'
  <2> DEFINE s == [rcv[r].got EXCEPT !.resp = respStamp]
             f == [at |-> "idle", last |-> rcv[r].got.at.tick, got |-> NoSnapshot]
  <2>1. /\ rcv[r] \in Fetches /\ rcv[r].at = "resp" /\ Fetching(rcv[r])
        /\ respStamp \in Stamps
    BY <1>6 DEF FetchInv, GetResp, CycleInv
  <2>2. /\ s \in Snapshots /\ s.at = rcv[r].got.at /\ s.ref = rcv[r].got.ref
        /\ s.resp = respStamp /\ Oldest(s) = Oldest(rcv[r].got)
    BY <2>1 DEF Fetches, Snapshots, Oldest
  <2>3. Delivered(s)
    <3> HIDE DEF s
    <3>. QED BY <2>1, <2>2 DEF Fetching, Delivered
  <2>4. f \in Fetches /\ f.at = "idle"
    BY <2>1 DEF Fetches, Snapshots, Stamps, NoSnapshot, NoStamp
  <2>5. rcv' = [rcv EXCEPT ![r] = f] /\ snap' = [snap EXCEPT ![r] = s]
    BY <1>6 DEF GetResp, FetchInv
  <2>6. \A q \in Receives : rcv'[q] \in Fetches /\ Fetching(rcv'[q]) /\ snap'[q] \in Snapshots /\ Delivered(snap'[q])
    <3> HIDE DEF s, f
    <3>1. Fetching(f)
      BY <2>4 DEF Fetching
    <3>. QED BY <2>2, <2>3, <2>4, <2>5, <3>1 DEF FetchInv
  <2>7. UNCHANGED <<refStamp, respStamp, tick, run>>
    BY <1>6 DEF GetResp, stampVars
  <2>8. /\ rcv' \in [Receives -> Fetches] /\ snap' \in [Receives -> Snapshots]
    <3> HIDE DEF s, f
    <3>. QED BY <2>5, <2>6 DEF FetchInv
  <2>9. \A q \in Receives : Fetching(rcv[q])'
    BY <2>6, <2>7 DEF Fetching, Now
  <2>. QED BY <2>6, <2>8, <2>9 DEF FetchInv
<1>7. CASE CountTick \/ StampResp \/ StampRef \/ WorkerElse
  BY <1>1, <1>7 DEF CountTick, StampResp, StampRef, WorkerElse
<1>8. CASE \E c \in Controls : StartStamped(c) \/ StartWorkerStamped(c) \/ CallElse(c)
  BY <1>1, <1>8 DEF StartStamped, StartWorkerStamped, CallElse
<1>9. CASE UNCHANGED allVars
  BY <1>1, <1>9 DEF allVars
<1> QED BY <1>3, <1>4, <1>5, <1>6, <1>7, <1>8, <1>9 DEF NextSnapshot

LEMMA SnapshotInvCorrect == SpecSnapshot => []SnapshotInv
<1>1. InitSnapshot => SnapshotInv
  BY DEF InitSnapshot, Init, SnapshotInv, CycleInv, FetchInv, SnapInv, Fetches, Fetching,
         Delivered, Snapshots, NoSnapshot, NoStamp, Stamps, Now, Before, Idle
<1>2. TypeOK /\ LifecycleInv /\ SnapshotInv /\ [NextSnapshot]_allVars => SnapshotInv'
  BY CycleStep, FetchStep DEF SnapshotInv
<1> QED BY <1>1, <1>2, ServoLoopHolds, PTL DEF SpecSnapshot

\* A snapshot is of the cycle before the announced tick or newer
\* (ExcavatorReceive::get against the worker's loop).
THEOREM SnapshotAgeCorrect == SpecSnapshot => []SnapshotAtMostOneCycleOld
<1>1. SnapshotInv => SnapshotAtMostOneCycleOld
  BY DEF SnapshotInv, SnapInv, Delivered, Oldest, SnapshotAtMostOneCycleOld
<1> QED BY <1>1, SnapshotInvCorrect, PTL

\* The response in a snapshot is not older than the reference, although the two
\* are read under different locks.
THEOREM RespAfterRefCorrect == SpecSnapshot => []RespNotOlderThanRef
<1>1. SnapshotInv => RespNotOlderThanRef
  BY DEF SnapshotInv, SnapInv, Delivered, RespNotOlderThanRef
<1> QED BY <1>1, SnapshotInvCorrect, PTL
=============================================================================
