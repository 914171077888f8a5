------------------------------ MODULE CanCycle ------------------------------
(***************************************************************************)
(* CanLib (control/src/can/excavator_canlib.cpp): the worker that carries  *)
(* the command blocks of the CAN shared memory to the bus, beside the      *)
(* worker of ExcavatorClient that writes them, without any lock, and the   *)
(* runtime that starts and stops both (excavator_runtime.cpp).             *)
(*                                                                         *)
(* Every access of one thread to one block is an action.  (A block is at   *)
(* most 13 bytes of one struct, which each side copies as a whole; that a  *)
(* copy may itself be torn is not modelled.)                               *)
(*                                                                         *)
(* Data: a block is the number of the client cycle that wrote it; 0 is a   *)
(* cleared block, which ensure_valid_cmd_* turns into a neutral frame.     *)
(* The feedback half of the shared memory, the heartbeat byte and the      *)
(* sequence counters, which no one reads, are left out.                    *)
(***************************************************************************)
EXTENDS Integers

CONSTANTS CreateMapping, \* SessionConfig::create_mapping
          BusOpen,       \* can_bus_enabled and not can_simulation
          Warmup,        \* kStartupWarmupCycles
          Divider,       \* 50 Hz cycles for one 10 Hz frame
          MaxCycles,     \* bound: client cycles in one behaviour
          MaxRuns        \* bound: starts in one behaviour

ASSUME CanCycleAssumption ==
    /\ CreateMapping \in BOOLEAN /\ BusOpen \in BOOLEAN
    /\ Warmup \in Nat /\ Divider \in Nat \ {0}
    /\ MaxCycles \in Nat /\ MaxRuns \in Nat

Blocks == {"A", "B", "S"}   \* cmd_50hz_a, cmd_50hz_b, cmd_10hz
Cleared == [x \in Blocks |-> 0]
NoFrame == -1

VARIABLES
    mem,        \* the command blocks of the shared memory
    runtime,    \* where ExcavatorRuntime's start or stop is
    \* --- the worker of CanLib
    canRunning, \* running
    pc,         \* where it is; "off": no thread
    local,      \* cmd_50hz_a, cmd_50hz_b and cmd_10hz of run_one_cycle
    warm,       \* warm-up cycles done
    cnt,        \* cnt_10hz
    bus,        \* the last frame with each block in this run
    \* --- the worker of ExcavatorClient
    cliRunning, \* running_
    cli,        \* the block it writes next; "off": no thread
    written,    \* the number of its latest cycle
    \* --- history
    runs,       \* how often the runtime was started
    base,       \* the latest cycle before this run
    newest      \* the newest command ever sent with each block

canVars == <<canRunning, pc, local, warm, cnt>>
cliVars == <<cliRunning, cli, written>>
history == <<runs, base, newest>>
vars == <<mem, runtime, canVars, bus, cliVars, history>>

Init == /\ mem = Cleared
        /\ runtime = "down"
        /\ canRunning = FALSE /\ pc = "off" /\ local = Cleared
        /\ warm = 0 /\ cnt = 0
        /\ bus = [x \in Blocks |-> NoFrame]
        /\ cliRunning = FALSE /\ cli = "off" /\ written = 0
        /\ runs = 0 /\ base = 0 /\ newest = Cleared
-----------------------------------------------------------------------------
(* ExcavatorRuntime, which holds its mutex from start to end of a call *)

\* CanLib clears the mapping when it opens it with create_mapping, whoever is using
\* it.  (ExcavatorClient never does: the runtime constructs it without.)
Opened == IF CreateMapping THEN Cleared ELSE mem

\* Mutation of StartCan: CanLib does not clear the mapping.
StartCanKeepsMapping ==
    /\ runtime = "down" /\ runs < MaxRuns
    /\ runtime' = "starting"
    /\ canRunning' = TRUE /\ pc' = "top" /\ local' = Cleared /\ warm' = 0 /\ cnt' = 0
    /\ bus' = [x \in Blocks |-> NoFrame]
    /\ runs' = runs + 1 /\ base' = written
    /\ UNCHANGED <<mem, cliVars, newest>>

\* CanLib is opened and its worker started.
StartCan ==
    /\ runtime = "down" /\ runs < MaxRuns
    /\ mem' = Opened
    /\ runtime' = "starting"
    /\ canRunning' = TRUE /\ pc' = "top" /\ local' = Cleared /\ warm' = 0 /\ cnt' = 0
    /\ bus' = [x \in Blocks |-> NoFrame]
    /\ runs' = runs + 1 /\ base' = written
    /\ UNCHANGED <<cliVars, newest>>

\* ... or not: the CAN socket cannot be opened.
StartFails ==
    /\ runtime = "down" /\ BusOpen
    /\ mem' = Opened
    /\ UNCHANGED <<runtime, canVars, bus, cliVars, history>>

\* The IMU library or the client cannot be started: CanLib is stopped again.
StartBacksOut ==
    /\ runtime = "starting"
    /\ runtime' = "joining can"
    /\ canRunning' = FALSE
    /\ UNCHANGED <<mem, pc, local, warm, cnt, bus, cliVars, history>>

\* ExcavatorClient::init and start.
StartClient ==
    /\ runtime = "starting"
    /\ runtime' = "up"
    /\ cliRunning' = TRUE /\ cli' = "A"
    /\ UNCHANGED <<mem, canVars, bus, written, history>>

Stop == /\ runtime = "up"
        /\ runtime' = "joining client"
        /\ cliRunning' = FALSE
        /\ UNCHANGED <<mem, canVars, bus, cli, written, history>>

\* Mutation of JoinClient: CanLib's worker is joined without being told to stop.
JoinClientOnly ==
    /\ runtime = "joining client" /\ cli = "off"
    /\ runtime' = "joining can"
    /\ UNCHANGED <<mem, canVars, bus, cliVars, history>>

\* The client has stopped; now CanLib is.
JoinClient ==
    /\ runtime = "joining client" /\ cli = "off"
    /\ runtime' = "joining can"
    /\ canRunning' = FALSE
    /\ UNCHANGED <<mem, pc, local, warm, cnt, bus, cliVars, history>>

JoinCan ==
    /\ runtime = "joining can" /\ pc = "off"
    /\ runtime' = "down"
    /\ UNCHANGED <<mem, canVars, bus, cliVars, history>>

Runtime == StartCan \/ StartFails \/ StartBacksOut \/ StartClient
           \/ Stop \/ JoinClient \/ JoinCan
-----------------------------------------------------------------------------
(* The worker of ExcavatorClient: ExcavatorCommunication::write, once a cycle *)

Write(x, next) == /\ cli = x /\ cli' = next
                  /\ mem' = [mem EXCEPT ![x] = written']
                  /\ UNCHANGED <<runtime, canVars, bus, cliRunning, history>>

WriteA == /\ cliRunning /\ written < MaxCycles
          /\ written' = written + 1
          /\ Write("A", "B")
WriteB == UNCHANGED written /\ Write("B", "S")
WriteS == UNCHANGED written /\ Write("S", "A")

ClientEnds == /\ cli = "A" /\ ~cliRunning
              /\ cli' = "off"
              /\ UNCHANGED <<mem, runtime, canVars, bus, cliRunning, written, history>>

ClientWorker == WriteA \/ WriteB \/ WriteS \/ ClientEnds
-----------------------------------------------------------------------------
(* The worker of CanLib: loop and run_one_cycle *)

At(from, to) == pc = from /\ pc' = to

LoopTop ==
    /\ At("top", IF canRunning THEN "read A" ELSE "off")
    /\ local' = Cleared
    /\ UNCHANGED <<mem, runtime, canRunning, warm, cnt, bus, cliVars, history>>

Read(x) == /\ local' = [local EXCEPT ![x] = mem[x]]
           /\ UNCHANGED <<mem, runtime, canRunning, warm, cnt, bus, cliVars, history>>
WriteBack(x) == /\ mem' = [mem EXCEPT ![x] = local[x]]
                /\ UNCHANGED <<runtime, canRunning, local, warm, cnt, bus, cliVars, history>>

ReadA == At("read A", "read B") /\ Read("A")
ReadB == At("read B", "back A") /\ Read("B")

\* The 50 Hz blocks are written back after their words have been checked.
WriteBackA == At("back A", "back B") /\ WriteBack("A")
WriteBackB == At("back B", "send") /\ WriteBack("B")

\* send_frame: a frame that the socket does not take is lost, silently.
Send(xs) ==
    \/ UNCHANGED <<bus, newest>>
    \/ /\ BusOpen
       /\ \E sent \in SUBSET xs :
            /\ bus' = [x \in Blocks |-> IF x \in sent THEN local[x] ELSE bus[x]]
            /\ newest' = [x \in Blocks |-> IF x \in sent /\ local[x] > newest[x]
                                           THEN local[x] ELSE newest[x]]

\* Mutation of WarmUp: the warm-up is not limited.
WarmUpForever == /\ At("send", "top")
                 /\ warm' = warm + 1
                 /\ UNCHANGED <<mem, runtime, canRunning, local, cnt, bus, cliVars, history>>

\* In the warm-up nothing is sent; after it the pair of 50 Hz frames.
WarmUp == /\ At("send", "top")
          /\ warm < Warmup
          /\ warm' = warm + 1
          /\ UNCHANGED <<mem, runtime, canRunning, local, cnt, bus, cliVars, history>>

\* cnt_10hz after the next cycle.
Counted == IF cnt + 1 >= Divider THEN 0 ELSE cnt + 1

\* Mutation of SendPair: the frames are packed from the shared memory, and the
\* checked copies written back only then.
SendPairThenWriteBack ==
    /\ BusOpen /\ warm = Warmup
    /\ cnt' = Counted
    /\ At("send", IF cnt' = 0 THEN "read S" ELSE "top")
    /\ bus' = [mem EXCEPT !["S"] = bus["S"]]
    /\ newest' = [x \in Blocks |-> IF x # "S" /\ mem[x] > newest[x] THEN mem[x] ELSE newest[x]]
    /\ mem' = [local EXCEPT !["S"] = mem["S"]]
    /\ UNCHANGED <<runtime, canRunning, local, warm, cliVars, runs, base>>

SendPair ==
    /\ warm = Warmup
    /\ cnt' = Counted
    /\ At("send", IF cnt' = 0 THEN "read S" ELSE "top")
    /\ Send({"A", "B"})
    /\ UNCHANGED <<mem, runtime, canRunning, local, warm, cliVars, runs, base>>

\* Every Divider-th cycle, the 10 Hz block: read, written back, sent.
ReadS == At("read S", "back S") /\ Read("S")
WriteBackS == At("back S", "send S") /\ WriteBack("S")
SendS == /\ At("send S", "top")
         /\ Send({"S"})
         /\ UNCHANGED <<mem, runtime, canRunning, local, warm, cnt, cliVars, runs, base>>

CanWorker == LoopTop \/ ReadA \/ ReadB \/ WriteBackA \/ WriteBackB \/ WarmUp
             \/ SendPair \/ ReadS \/ WriteBackS \/ SendS

Next == Runtime \/ ClientWorker \/ CanWorker

Spec == Init /\ [][Next]_vars

\* Both workers run when they can, and stop() goes on when it can.
FairSpec == /\ Spec
            /\ WF_vars(ClientWorker) /\ WF_vars(CanWorker)
            /\ WF_vars(JoinClient) /\ WF_vars(JoinCan)
-----------------------------------------------------------------------------
(* Properties *)

TypeOK ==
    /\ mem \in [Blocks -> Nat] /\ local \in [Blocks -> Nat]
    /\ newest \in [Blocks -> Nat]
    /\ bus \in [Blocks -> Nat \cup {NoFrame}]
    /\ runtime \in {"down", "starting", "up", "joining client", "joining can"}
    /\ canRunning \in BOOLEAN /\ cliRunning \in BOOLEAN
    /\ pc \in {"off", "top", "read A", "read B", "back A", "back B", "send",
               "read S", "back S", "send S"}
    /\ cli \in Blocks \cup {"off"}
    /\ warm \in 0 .. Warmup /\ cnt \in 0 .. Divider - 1
    /\ written \in Nat /\ runs \in Nat /\ base \in Nat

\* A newer command is never followed by an older one on the bus, in spite of
\* the blocks that run_one_cycle writes back over newer ones; only a cleared
\* mapping makes a block neutral again.
FramesNeverGoBack == \A x \in Blocks : bus[x] \in {NoFrame, 0, newest[x]}

\* With create_mapping, no frame carries a command written before the start.
RunCarriesOwnCommands ==
    CreateMapping => \A x \in Blocks : bus[x] \in {NoFrame, 0} \/ bus[x] > base

\* stop() and a start() that is backed out return.
StopReturns == runtime \in {"joining client", "joining can"} ~> runtime = "down"

\* The status block of a client cycle is never taken back: the comment in
\* run_one_cycle says that writing cmd_10hz back would cover up the pulses of
\* ignition and flame-out (excavator_canlib.cpp:451).
StatusNeverTakenBack == [][mem["S"]' < mem["S"] => mem' = Cleared]_vars
=============================================================================
