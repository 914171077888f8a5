--------------------------- MODULE CanCycleProofs ---------------------------
(***************************************************************************)
(* Theorems about CanCycle, for every length of the warm-up, every divider *)
(* and any number of client cycles and restarts, with and without a bus    *)
(* and with and without a mapping of the program's own.                    *)
(***************************************************************************)
EXTENDS CanCycle, TLAPS

\* A step of the workers of the client and of CanLib, and of the runtime.
LEMMA NextSteps ==
    ASSUME [Next]_vars
    PROVE  \/ StartCan \/ StartFails \/ StartBacksOut \/ StartClient \/ Stop
           \/ JoinClient \/ JoinCan
           \/ WriteA \/ WriteB \/ WriteS \/ ClientEnds
           \/ LoopTop \/ ReadA \/ ReadB \/ WriteBackA \/ WriteBackB \/ WarmUp
           \/ SendPair \/ ReadS \/ WriteBackS \/ SendS
           \/ UNCHANGED vars
BY DEF Next, Runtime, ClientWorker, CanWorker
-----------------------------------------------------------------------------
(* Types *)

\* The blocks and frames, and the rest of TypeOK.
BlocksOK == /\ mem \in [Blocks -> Nat] /\ local \in [Blocks -> Nat]
            /\ newest \in [Blocks -> Nat]
            /\ bus \in [Blocks -> Nat \cup {NoFrame}]
            /\ written \in Nat /\ base \in Nat

LEMMA ClearedOK == Cleared \in [Blocks -> Nat] /\ Opened \in {Cleared, mem}
BY DEF Cleared, Opened

LEMMA SendOK ==
    ASSUME BlocksOK, NEW xs, Send(xs)
    PROVE  /\ newest' \in [Blocks -> Nat]
           /\ bus' \in [Blocks -> Nat \cup {NoFrame}]
<1>1. CASE UNCHANGED <<bus, newest>>
  BY <1>1 DEF BlocksOK
<1>2. CASE ~UNCHANGED <<bus, newest>>
  <2> PICK sent \in SUBSET xs :
            /\ bus' = [x \in Blocks |-> IF x \in sent THEN local[x] ELSE bus[x]]
            /\ newest' = [x \in Blocks |-> IF x \in sent /\ local[x] > newest[x]
                                           THEN local[x] ELSE newest[x]]
    BY <1>2 DEF Send
  <2> QED BY DEF BlocksOK
<1> QED BY <1>1, <1>2

LEMMA BlocksStep ==
    ASSUME BlocksOK, [Next]_vars
    PROVE  BlocksOK'
<1> USE DEF BlocksOK
<1>1. CASE StartCan \/ StartFails \/ StartClient
  BY <1>1, ClearedOK DEF StartCan, StartFails, StartClient, canVars, cliVars, history
<1>2. CASE StartBacksOut \/ Stop \/ JoinClient \/ JoinCan \/ ClientEnds
  BY <1>2 DEF StartBacksOut, Stop, JoinClient, JoinCan, ClientEnds, canVars, cliVars, history
<1>3. CASE WriteA \/ WriteB \/ WriteS
  BY <1>3 DEF WriteA, WriteB, WriteS, Write, canVars, history
<1>4. CASE LoopTop
  BY <1>4, ClearedOK DEF LoopTop, cliVars, history
<1>5. CASE ReadA \/ ReadB \/ ReadS
  BY <1>5 DEF ReadA, ReadB, ReadS, Read, cliVars, history, Blocks
<1>6. CASE WriteBackA \/ WriteBackB \/ WriteBackS
  BY <1>6 DEF WriteBackA, WriteBackB, WriteBackS, WriteBack, cliVars, history, Blocks
<1>7. CASE WarmUp \/ UNCHANGED vars
  BY <1>7 DEF WarmUp, vars, canVars, cliVars, history
<1>8. CASE SendPair
  BY <1>8, SendOK DEF SendPair, cliVars
<1>9. CASE SendS
  BY <1>9, SendOK DEF SendS, cliVars
<1> QED BY NextSteps, <1>1, <1>2, <1>3, <1>4, <1>5, <1>6, <1>7, <1>8, <1>9, Zenon

LabelsOK == /\ runtime \in {"down", "starting", "up", "joining client", "joining can"}
            /\ pc \in {"off", "top", "read A", "read B", "back A", "back B", "send",
                       "read S", "back S", "send S"}
            /\ cli \in {"A", "B", "S", "off"}
CountersOK == warm \in 0 .. Warmup /\ cnt \in 0 .. Divider - 1 /\ runs \in Nat

FlagsOK == canRunning \in BOOLEAN /\ cliRunning \in BOOLEAN

LEMMA TypeParts == TypeOK <=> BlocksOK /\ LabelsOK /\ CountersOK /\ FlagsOK
BY DEF TypeOK, BlocksOK, LabelsOK, CountersOK, FlagsOK, Blocks

LEMMA FlagsStep ==
    ASSUME FlagsOK, [Next]_vars
    PROVE  FlagsOK'
<1> USE DEF FlagsOK, canVars, cliVars
<1>1. CASE StartCan \/ StartFails \/ StartBacksOut \/ StartClient \/ Stop
  BY <1>1, Zenon DEF StartCan, StartFails, StartBacksOut, StartClient, Stop
<1>2. CASE JoinClient \/ JoinCan \/ WriteA \/ WriteB \/ WriteS \/ ClientEnds
  BY <1>2, Zenon DEF JoinClient, JoinCan, WriteA, WriteB, WriteS, Write, ClientEnds
<1>3. CASE LoopTop \/ ReadA \/ ReadB \/ ReadS \/ WarmUp \/ UNCHANGED vars
  BY <1>3, Zenon DEF LoopTop, ReadA, ReadB, ReadS, Read, WarmUp, vars
<1>4. CASE WriteBackA \/ WriteBackB \/ WriteBackS \/ SendPair \/ SendS
  BY <1>4, Zenon DEF WriteBackA, WriteBackB, WriteBackS, WriteBack, SendPair, SendS
<1> QED BY NextSteps, <1>1, <1>2, <1>3, <1>4, Zenon

LEMMA LabelsStep ==
    ASSUME LabelsOK, [Next]_vars
    PROVE  LabelsOK'
<1> USE DEF LabelsOK, canVars, cliVars
<1>1. CASE StartCan \/ StartFails \/ StartBacksOut
  BY <1>1 DEF StartCan, StartFails, StartBacksOut
<1>2. CASE StartClient \/ Stop \/ JoinClient \/ JoinCan
  BY <1>2 DEF StartClient, Stop, JoinClient, JoinCan
<1>3. CASE WriteA \/ WriteB \/ WriteS \/ ClientEnds
  BY <1>3, Zenon DEF WriteA, WriteB, WriteS, Write, ClientEnds
<1>4. CASE ReadA \/ ReadB \/ ReadS
  BY <1>4, Zenon DEF ReadA, ReadB, ReadS, Read, At
<1>5. CASE WriteBackA \/ WriteBackB \/ WriteBackS
  BY <1>5, Zenon DEF WriteBackA, WriteBackB, WriteBackS, WriteBack, At
<1>6. CASE LoopTop \/ WarmUp \/ SendPair
  BY <1>6, Zenon DEF LoopTop, WarmUp, SendPair, At
<1>7. CASE SendS \/ UNCHANGED vars
  BY <1>7, Zenon DEF SendS, At, vars
<1> QED BY NextSteps, <1>1, <1>2, <1>3, <1>4, <1>5, <1>6, <1>7, Zenon

LEMMA CountersStep ==
    ASSUME CountersOK, [Next]_vars
    PROVE  CountersOK'
<1> USE CanCycleAssumption DEF CountersOK, canVars, history
<1>1. CASE StartCan
  BY <1>1 DEF StartCan
<1>2. CASE WarmUp
  BY <1>2 DEF WarmUp
<1>3. CASE SendPair
  <2>1. Counted \in 0 .. Divider - 1
    BY DEF Counted
  <2> QED BY <1>3, <2>1, Zenon DEF SendPair
<1>4. UNCHANGED <<warm, cnt, runs>> => CountersOK'
  OBVIOUS
<1>5. CASE StartFails \/ StartBacksOut \/ StartClient \/ Stop \/ JoinClient \/ JoinCan
  BY <1>4, <1>5, Zenon DEF StartFails, StartBacksOut, StartClient, Stop, JoinClient, JoinCan
<1>6. CASE WriteA \/ WriteB \/ WriteS \/ ClientEnds
  BY <1>4, <1>6, Zenon DEF WriteA, WriteB, WriteS, Write, ClientEnds
<1>7. CASE LoopTop \/ ReadA \/ ReadB \/ ReadS \/ UNCHANGED vars
  BY <1>4, <1>7, Zenon DEF LoopTop, ReadA, ReadB, ReadS, Read, vars
<1>8. CASE WriteBackA \/ WriteBackB \/ WriteBackS \/ SendS
  BY <1>4, <1>8, Zenon DEF WriteBackA, WriteBackB, WriteBackS, WriteBack, SendS
<1> QED BY NextSteps, <1>1, <1>2, <1>3, <1>5, <1>6, <1>7, <1>8, Zenon

\* Every variable keeps its type.
THEOREM CanCycleTypeCorrect == Spec => []TypeOK
<1>1. Init => TypeOK
  <2> SUFFICES ASSUME Init PROVE TypeOK
    OBVIOUS
  <2>1. BlocksOK
    BY ClearedOK DEF Init, BlocksOK
  <2>2. LabelsOK /\ FlagsOK
    BY Zenon DEF Init, LabelsOK, FlagsOK
  <2>3. CountersOK
    BY CanCycleAssumption DEF Init, CountersOK
  <2> QED BY <2>1, <2>2, <2>3, TypeParts
<1>2. TypeOK /\ [Next]_vars => TypeOK'
  <2> SUFFICES ASSUME TypeOK, [Next]_vars PROVE TypeOK'
    OBVIOUS
  <2>1. BlocksOK' /\ LabelsOK' /\ CountersOK' /\ FlagsOK'
    BY TypeParts, BlocksStep, LabelsStep, CountersStep, FlagsStep
  <2> QED BY <2>1, Zenon DEF TypeOK, BlocksOK, LabelsOK, CountersOK, FlagsOK, Blocks
<1> QED BY <1>1, <1>2, PTL DEF Spec
-----------------------------------------------------------------------------
(* A newer command is never followed by an older one on the bus *)

\* What a block may hold: it was cleared, or it is no older than the copy of
\* run_one_cycle, which is no older than what has been sent.  (A write-back
\* makes the block older, but never older than that copy.)
Ordered(x) == /\ mem[x] = 0 \/ (mem[x] >= newest[x] /\ mem[x] >= local[x])
              /\ local[x] = 0 \/ local[x] >= newest[x]
              /\ newest[x] <= written /\ mem[x] <= written /\ local[x] <= written
              /\ bus[x] \in {NoFrame, 0, newest[x]}
OrderInv == \A x \in Blocks : Ordered(x)

LEMMA SendOrdered ==
    ASSUME BlocksOK, OrderInv, NEW xs, Send(xs), UNCHANGED <<mem, local, written>>
    PROVE  OrderInv'
<1>1. CASE UNCHANGED <<bus, newest>>
  BY <1>1 DEF OrderInv, Ordered
<1>2. CASE ~UNCHANGED <<bus, newest>>
  <2> PICK sent \in SUBSET xs :
            /\ bus' = [x \in Blocks |-> IF x \in sent THEN local[x] ELSE bus[x]]
            /\ newest' = [x \in Blocks |-> IF x \in sent /\ local[x] > newest[x]
                                           THEN local[x] ELSE newest[x]]
    BY <1>2 DEF Send
  <2> SUFFICES ASSUME NEW x \in Blocks PROVE Ordered(x)'
    BY DEF OrderInv
  <2>1. Ordered(x)
    BY DEF OrderInv
  <2>2. CASE x \in sent
    BY <2>1, <2>2 DEF Ordered, BlocksOK
  <2>3. CASE x \notin sent
    BY <2>1, <2>3 DEF Ordered, BlocksOK
  <2> QED BY <2>2, <2>3
<1> QED BY <1>1, <1>2

LEMMA OrderStep ==
    ASSUME BlocksOK, OrderInv, [Next]_vars
    PROVE  OrderInv'
<1>1. CASE StartCan
  BY <1>1 DEF StartCan, Opened, Cleared, cliVars, OrderInv, Ordered, BlocksOK
<1>2. CASE StartFails \/ StartClient
  BY <1>2 DEF StartFails, StartClient, Opened, Cleared, canVars, cliVars, history,
              OrderInv, Ordered, BlocksOK
<1>3. CASE StartBacksOut \/ Stop \/ JoinClient \/ JoinCan \/ ClientEnds
  BY <1>3 DEF StartBacksOut, Stop, JoinClient, JoinCan, ClientEnds, canVars, cliVars,
              history, OrderInv, Ordered
<1>4. CASE WriteA \/ WriteB \/ WriteS
  BY <1>4 DEF WriteA, WriteB, WriteS, Write, canVars, history, OrderInv, Ordered, BlocksOK
<1>5. CASE LoopTop
  <2> SUFFICES ASSUME NEW x \in Blocks, Ordered(x) PROVE Ordered(x)'
    BY DEF OrderInv
  <2>1. local'[x] = 0 /\ UNCHANGED <<mem, newest, bus, written>>
    BY <1>5 DEF LoopTop, Cleared, cliVars, history
  <2> QED BY <2>1 DEF Ordered, BlocksOK
<1>6. CASE ReadA \/ ReadB \/ ReadS
  <2> SUFFICES ASSUME NEW x \in Blocks, Ordered(x) PROVE Ordered(x)'
    BY DEF OrderInv
  <2>1. UNCHANGED <<mem, newest, bus, written>>
    BY <1>6 DEF ReadA, ReadB, ReadS, Read, cliVars, history
  <2>2. local'[x] \in {local[x], mem[x]}
    BY <1>6 DEF ReadA, ReadB, ReadS, Read, BlocksOK
  <2> QED BY <2>1, <2>2 DEF Ordered, BlocksOK
<1>7. CASE WriteBackA \/ WriteBackB \/ WriteBackS
  <2> SUFFICES ASSUME NEW x \in Blocks, Ordered(x) PROVE Ordered(x)'
    BY DEF OrderInv
  <2>1. UNCHANGED <<local, newest, bus, written>>
    BY <1>7 DEF WriteBackA, WriteBackB, WriteBackS, WriteBack, cliVars, history
  <2>2. mem'[x] \in {mem[x], local[x]}
    BY <1>7 DEF WriteBackA, WriteBackB, WriteBackS, WriteBack, BlocksOK
  <2> QED BY <2>1, <2>2 DEF Ordered, BlocksOK
<1>8. CASE WarmUp \/ UNCHANGED vars
  BY <1>8 DEF WarmUp, vars, canVars, cliVars, history, OrderInv, Ordered
<1>9. CASE SendPair \/ SendS
  BY <1>9, SendOrdered DEF SendPair, SendS, cliVars
<1> QED BY NextSteps, <1>1, <1>2, <1>3, <1>4, <1>5, <1>6, <1>7, <1>8, <1>9, Zenon

\* In spite of the blocks that run_one_cycle writes back over newer ones, no
\* frame on the bus carries a command older than one it has carried before.
THEOREM FrameOrder == Spec => []FramesNeverGoBack
<1>1. Init => BlocksOK /\ OrderInv
  BY DEF Init, BlocksOK, OrderInv, Ordered, Cleared
<1>2. (BlocksOK /\ OrderInv) /\ [Next]_vars => (BlocksOK /\ OrderInv)'
  BY BlocksStep, OrderStep
<1>3. BlocksOK /\ OrderInv => FramesNeverGoBack
  BY DEF OrderInv, Ordered, FramesNeverGoBack
<1> QED BY <1>1, <1>2, <1>3, PTL DEF Spec
-----------------------------------------------------------------------------
(* A run carries no command of an earlier run *)

\* When the client's worker exists, and what it has written then.
ClientInv == /\ runtime \in {"down", "starting", "joining can"} => cli = "off"
             /\ cli \in {"B", "S"} => written > base
             /\ base <= written

\* Where a command of an earlier run could be kept: the mapping, the copies of
\* run_one_cycle, the bus.
Own(x) == /\ mem[x] = 0 \/ mem[x] > base
          /\ local[x] = 0 \/ local[x] > base
          /\ bus[x] \in {NoFrame, 0} \/ bus[x] > base
OwnInv == CreateMapping => \A x \in Blocks : Own(x)

LEMMA ClientStep ==
    ASSUME BlocksOK, ClientInv, [Next]_vars
    PROVE  ClientInv'
<1>1. written \in Nat /\ base \in Nat
  BY DEF BlocksOK
<1>2. base <= written
  BY DEF ClientInv
<1>3. CASE StartCan \/ StartFails \/ StartBacksOut
  <2>1. /\ runtime \in {"down", "starting"} /\ cli' = cli /\ written' = written
        /\ base' = base \/ base' = written
    BY <1>3, Zenon DEF StartCan, StartFails, StartBacksOut, cliVars, history
  <2>2. cli' = "off" /\ cli' \notin {"B", "S"}
    BY <2>1, Zenon DEF ClientInv
  <2>3. base' <= written'
    BY <1>1, <1>2, <2>1
  <2> QED BY <2>2, <2>3, Zenon DEF ClientInv
<1>4. CASE StartClient \/ Stop
  <2>1. /\ runtime' \in {"up", "joining client"} /\ UNCHANGED <<written, base>>
        /\ cli' \in {cli, "A"}
    BY <1>4, Zenon DEF StartClient, Stop, history
  <2> QED BY <2>1 DEF ClientInv
<1>5. CASE JoinClient \/ JoinCan
  BY <1>5 DEF JoinClient, JoinCan, cliVars, history, ClientInv
<1>6. CASE WriteA
  <2>1. /\ runtime' = runtime /\ base' = base
        /\ cli = "A" /\ written' = written + 1
    BY <1>6, Zenon DEF WriteA, Write, history
  <2>2. written' > base' /\ base' <= written'
    BY <1>1, <1>2, <2>1
  <2>3. runtime' \notin {"down", "starting", "joining can"}
    BY <2>1, Zenon DEF ClientInv
  <2> QED BY <2>2, <2>3, Zenon DEF ClientInv
<1>7. CASE WriteB \/ WriteS \/ ClientEnds
  <2>1. /\ UNCHANGED <<runtime, base, written>>
        /\ (cli = "B" /\ cli' = "S") \/ (cli = "S" /\ cli' = "A")
           \/ cli' = "off"
    BY <1>7, Zenon DEF WriteB, WriteS, Write, ClientEnds, history
  <2> QED BY <2>1 DEF ClientInv
<1>8. UNCHANGED <<runtime, cli, written, base>> => ClientInv'
  BY DEF ClientInv
<1>9. CASE LoopTop \/ ReadA \/ ReadB \/ ReadS \/ WarmUp \/ UNCHANGED vars
  <2>1. UNCHANGED <<runtime, cli, written, base>>
    BY <1>9, Zenon DEF LoopTop, ReadA, ReadB, ReadS, Read, WarmUp, vars, cliVars, history
  <2> QED BY <1>8, <2>1
<1>10. CASE WriteBackA \/ WriteBackB \/ WriteBackS \/ SendPair \/ SendS
  <2>1. UNCHANGED <<runtime, cli, written, base>>
    BY <1>10, Zenon DEF WriteBackA, WriteBackB, WriteBackS, WriteBack, SendPair, SendS,
                        cliVars, history
  <2> QED BY <1>8, <2>1
<1> QED BY NextSteps, <1>3, <1>4, <1>5, <1>6, <1>7, <1>9, <1>10, Zenon

LEMMA OwnStep ==
    ASSUME BlocksOK, ClientInv, OwnInv, [Next]_vars
    PROVE  OwnInv'
<1> SUFFICES ASSUME CreateMapping, NEW x \in Blocks, Own(x) PROVE Own(x)'
  BY DEF OwnInv
<1>1. CASE StartCan
  BY <1>1 DEF StartCan, Opened, Cleared, Own
<1>2. CASE StartFails \/ StartClient
  BY <1>2 DEF StartFails, StartClient, Opened, Cleared, canVars, history, Own
<1>3. CASE StartBacksOut \/ Stop \/ JoinClient \/ JoinCan \/ ClientEnds
  BY <1>3 DEF StartBacksOut, Stop, JoinClient, JoinCan, ClientEnds, canVars, history, Own
<1>4. CASE WriteA \/ WriteB \/ WriteS
  <2>1. UNCHANGED <<local, bus, base>>
    BY <1>4 DEF WriteA, WriteB, WriteS, Write, canVars, history
  <2>2. written' > base
    <3>1. written \in Nat /\ base \in Nat /\ base <= written
      BY DEF BlocksOK, ClientInv
    <3>2. CASE WriteA
      BY <3>1, <3>2 DEF WriteA
    <3>3. CASE WriteB \/ WriteS
      <4>1. cli \in {"B", "S"} /\ UNCHANGED written
        BY <3>3, Zenon DEF WriteB, WriteS, Write
      <4> QED BY <4>1 DEF ClientInv
    <3> QED BY <1>4, <3>2, <3>3
  <2>3. mem'[x] \in {mem[x], written'}
    BY <1>4 DEF WriteA, WriteB, WriteS, Write, BlocksOK
  <2> QED BY <2>1, <2>2, <2>3 DEF Own
<1>5. CASE LoopTop
  BY <1>5 DEF LoopTop, Cleared, history, Own
<1>6. CASE ReadA \/ ReadB \/ ReadS
  <2>1. UNCHANGED <<mem, bus, base>>
    BY <1>6 DEF ReadA, ReadB, ReadS, Read, history
  <2>2. local'[x] \in {local[x], mem[x]}
    BY <1>6 DEF ReadA, ReadB, ReadS, Read, BlocksOK
  <2> QED BY <2>1, <2>2 DEF Own
<1>7. CASE WriteBackA \/ WriteBackB \/ WriteBackS
  <2>1. UNCHANGED <<local, bus, base>>
    BY <1>7 DEF WriteBackA, WriteBackB, WriteBackS, WriteBack, history
  <2>2. mem'[x] \in {mem[x], local[x]}
    BY <1>7 DEF WriteBackA, WriteBackB, WriteBackS, WriteBack, BlocksOK
  <2> QED BY <2>1, <2>2 DEF Own
<1>8. CASE WarmUp \/ UNCHANGED vars
  BY <1>8 DEF WarmUp, vars, canVars, history, Own
<1>9. CASE SendPair \/ SendS
  <2>1. UNCHANGED <<mem, local, base>> /\ bus'[x] \in {bus[x], local[x]}
    BY <1>9 DEF SendPair, SendS, Send
  <2> QED BY <2>1 DEF Own
<1> QED BY NextSteps, <1>1, <1>2, <1>3, <1>4, <1>5, <1>6, <1>7, <1>8, <1>9, Zenon

\* With create_mapping, whatever was in the mapping when the program starts
\* or restarts, the bus carries only commands written after the start.
THEOREM OwnCommands == Spec => []RunCarriesOwnCommands
<1> DEFINE Inv == BlocksOK /\ ClientInv /\ OwnInv
<1>1. Init => Inv
  BY DEF Init, BlocksOK, ClientInv, OwnInv, Own, Cleared
<1>2. Inv /\ [Next]_vars => Inv'
  BY BlocksStep, ClientStep, OwnStep
<1>3. Inv => RunCarriesOwnCommands
  BY DEF OwnInv, Own, RunCarriesOwnCommands
<1> QED BY <1>1, <1>2, <1>3, PTL DEF Spec
=============================================================================
