# Verification of the excavator real stack

TLA+ specifications of the part of this repository that moves a real machine:
the C++ control library under `control/`, the bridge process under `bridge/`
that connects the Python test bed to it, and the test bed itself under
`testbed/`: the operator's devices, the program that records episodes of
teleoperation through the bridge, the backend with its mock server, the buffers
that put samples together, and what becomes of the episodes afterwards in
quality control, training and inference. TLC checks the
specifications on small instances. TLAPS proves the most important of their
properties for every value of the constants. `PROJECT.json` lists the runs, the
mutations that break each property, the source lines behind every definition,
the hazards and the theorems.

Paths below are relative to the repository. `client`, `api`, `canlib`,
`bridge` and `record` abbreviate `control/src/excavator/excavator_client.cpp`,
`control/src/excavator_api/excavator_control.cpp`,
`control/src/can/excavator_canlib.cpp`,
`bridge/src/excavator_real_bridge.cpp` and
`testbed/testbed/cli/record_real.py`; `imu` and `comm` abbreviate
`control/src/can/imu_canlib.cpp` and `control/src/excavator/excavator_comm.cpp`,
and `laws` `control/src/excavator/excavator_control.cpp`;
Python files without a directory are under `testbed/testbed/`.

## 1. The system

```
 tb-record-real (Python) ---------------- JSON lines over TCP -- excavator_real_bridge
  gamepad, keyboard, OEM remote                                       |  calls
                        ExcavatorControl, ExcavatorReceive  <---------+
                                      |  shared_ptr, one runtime per SessionConfig
                               ExcavatorRuntime
              +-----------------------+------------------------+
        CanLib (50 Hz thread)  ImuCanLib (thread)   ExcavatorClient (50 Hz thread)
              |                       |                        |
              +--- CAN shared memory -+--- IMU shared memory --+

 tb-record-real -> episode_N.hdf5 -> tb-dataset-qc
                                  -> tb-train -> checkpoints -> ACTAdapter
```

| Component | State it keeps | Operations | What is hard about it | What makes it correct |
|---|---|---|---|---|
| `ExcavatorClient` and its state channel (`client`) | servo queue, control mode, cached status bits, reference, response, tick, `running_` | `submitServo`, `setControlMode`, status toggles, `start`, `stop`, the worker's `loop` and `update` | four locks, callers and worker interleave between any two critical sections; the queue keeps its last command | no accepted command is lost, repeated or overtaken; status interlock; `stop` leaves a complete cycle |
| `ExcavatorControl` (`api`) | a reference to the runtime | `sendCommand` (three types), `setControlMode`, nine `setX`, `setMotorGear`, mask, `start`, `stop` | checks and uses what it checked under different locks | a command is computed by a law that admits it; what was set takes effect |
| `ExcavatorReceive` | `last_tick` | `connect`, `get` | reads reference and response under two locks, while the worker publishes; restarts reset the tick | a snapshot is recent and consistent |
| `ExcavatorRuntime`, `RuntimeRegistry` | `started_`, weak references | `start`, `stop`, `acquire` | a failure half way through `start`; order of stopping | a failed start leaves nothing running; `stop` returns |
| `CanLib` (`canlib`) | shared memory view, warm-up and 10 Hz counters | `run_one_cycle`, `open`, `start`, `stop` | no lock between the two processes or threads on the mapping; blocks are read, checked and written back; the socket may drop a frame | the bus never sees an older command after a newer one, nor one of an earlier run |
| `ExcavatorCommunication` | mapping, last IMU values | `open`, `write`, `read` | the other ends of the same shared memory | as above; IMU snapshots are not torn |
| `excavator_real_bridge` (`bridge`) | `last_valid_action_ns_`, `watchdog_zeroed_`, `shutdown_requested_`, line buffer | accept loop, `handleClient`, six kinds of request, `checkWatchdog` | one thread for watchdog, network and blocking reads; clients that pipeline, fall silent, hang up | an unattended action is zeroed in time; every request is answered |
| Motion laws (`laws`), converter | sums and count of the zero drift, the mode of the last cycle, PID state | `updateRef`, four laws | what was learned outlives stop and start, and is used in laws and at times other than those it was learned in; a slew limit with an exception | a zero stops the motor; no jump away from neutral |
| `ImuCanLib` (`imu`) | sequence number, address mode, accumulators | `parseFrame`, `publish_shm`, `open`, `start`, `stop` | lock-free publication with a number that is raised once; addressing recognised on the way | a copy mixes neighbours in time only; an axis shows its own device |
| Action sources (`actions/`) | the smoother's position, the buttons seen down | `next_action`, `reset` | one edge detection over episodes and devices; rate limits that take turns | a released lever stops the machine; a button ends the episode |
| `ActionGuard`, `tb-record-real` (`record`) | the guard's last output, rows of the episode, episode files | `check`, `reset`, the loops over episodes and steps, `save` | which action the guard compares with; exceptions, Ctrl+C and kills in the middle of an episode; late requests | a file holds what the machine was told; bounded change per step, also between episodes; zero on e-stop; no file overwritten |
| `RealExcavatorBackend` (`backends/real/backend.py`) | step counter, last result, a controller and a reader | `start_episode`, `step`, `close` | twelve combinations of controller and reader, which share a client or do not | an observation shows every acknowledged command once |
| Bridge client, mock server, bring-up scripts (`bridge_client.py`, `bridge_socket.py`, `bridge_server.py`) | socket, line buffer; mock joints, connections | `request` with a timeout; `serve_forever`, `_handle_frame` | a request whose answer is late has been carried out, or will be; a server with one connection at a time | nothing of an earlier client or episode shows in a later one |
| `TimestampedBuffer`, `SynchronizedObservationBuilder` (`backends/real/sync.py`) | bounded sorted buffers | `add`, `nearest`, `latest_before`, `from_buffers` | late samples, eviction, age | the samples of a step are close in time |
| Dataset and quality control (`data/`) | episode files, the split file | `record`, `save`, `run_dataset_qc`, `load_data`, `__getitem__` | files cut short; arrays of different lengths; a directory that grows between runs | what passes control can be loaded; validation episodes are held out; nothing lost or invented at the ends |
| Training (`runtime/_train.py`, `policies/act/trainer.py`) | checkpoints, metadata, statistics, split, all written in place | `train_policy`, `fit` | kills between and within writes; resuming into the same directory | work that is resumed survives; what the metadata says is so; the best checkpoint is what was validated |
| Inference (`policies/act/adapter.py`) | step counter, cached chunk, table of chunks | `reset`, `predict` | the table's size; what an episode leaves behind | an action is made of predictions for its own step |

`PROJECT.json` has the full list of components with a reason for each that is
not modelled, and the list of hazards, each at its line.

## 2. The modules

| Module | What it is |
|---|---|
| `CommandStream` | the abstract promise of the library: accepted commands come into force in order, none lost; a restart makes the machine neutral and may bring the command in force back |
| `ServoLoop` | `ExcavatorClient` with the API calls, the runtime's start and stop, and its worker |
| `StateSnapshot` | EXTENDS `ServoLoop`: adds the tick and `ExcavatorReceive`, and a stamp (run, tick) on everything the worker publishes |
| `Bridge` | the bridge process, with any client; the library appears as an instance of `CommandStream` |
| `CanCycle` | the two workers on the CAN shared memory, and the runtime that starts and stops both |
| `RecordSession` | `tb-record-real` over the bridge, with its guard, backend, recorder and files |
| `ImuShm` | the IMU worker's publication and the client's copy of it |
| `RealAction` | normalized actions on one axis |
| `MotionLaw` | the laws of motion on one joint, over modes and restarts |
| `Teleop` | the operator's devices, the smoother, the buttons, in the recording loop |
| `RealBackend` | the backend in all its modes, its clients, the mock server and the two scripts that speak to it |
| `SampleBuffer` | the timestamped buffers and the observation built from two of them |
| `Dataset` | episode files: recording, quality control, loading, splitting, items |
| `Training` | EXTENDS `Dataset`: tb-record-real, tb-dataset-qc and tb-train over one directory each of episodes and checkpoints |
| `ActInference` | chunks and their temporal aggregation at inference |
| `MCServoLoop` | EXTENDS `StateSnapshot`: `ServoLoop` and `StateSnapshot` in one run |
| `MCLearning` | `Training` and `ActInference` in one run |
| `MCParts` | `Teleop`, `RealBackend`, `SampleBuffer`, `ImuShm` and `MotionLaw` in one run |
| `ServoLoopProofs`, `StateSnapshotProofs`, `BridgeProofs`, `CanCycleProofs`, `RecordSessionProofs` | theorems about the module of the name |
| `LearningProofs` | theorems about `Training`, `Dataset` and `ActInference` |
| `ActionProofs` | theorems about `Teleop`, `RealBackend` and `MotionLaw`, which share `RealAction` |
| `SensorProofs` | theorems about `ImuShm` and `SampleBuffer` |

How they compose: `ServoLoop` implements `CommandStream` under the refinement
mapping `Stream` (checked and proved), and `Bridge` uses exactly `CommandStream`,
so what `Bridge` shows holds on top of the real library.
`StateSnapshot` adds observers to `ServoLoop`'s own actions. `CanCycle` takes
up where `ServoLoop` ends, at the write to shared memory: there the writer's
cycle is one number and the interest is in the accesses of the two sides.
`RecordSession` is the other end, one client of the bridge; of the bridge it
keeps what `Bridge` shows of it: requests are carried out in order, `reset`
zeroes, the watchdog may zero while a client is connected. `Teleop` is the same
loop seen from the devices: it stops where the guarded action leaves it, which
is where `RecordSession`'s begins. `RealBackend` looks inside the backend that
`RecordSession` takes for a client, with the mock plants in place of the machine.
`ImuShm` is beside `CanCycle`, at the other mapping. `MotionLaw` is what
`ServoLoop` leaves out of a cycle: there it is which command meets which law, here
what the law makes of it, cycle after cycle.

`MCLearning` and `MCParts` check specifications that share no variable. A
variable `part` is chosen at the start and says which of them the behaviour is
about; the others stay in a fixed initial state. So the states add up and do not
multiply, and each property is checked of exactly the behaviours of its own
module. `MCServoLoop` does the same with three views of one loop: in `"loop"` two
control objects do everything but shift gears, in `"gears"` one of them shifts gears,
in `"snapshot"` one starts and stops while a receive object reads.

### ServoLoop

Every mutex-protected region of the code is one action. What a thread keeps in
locals between two regions is state of the model: `worker`, `wref`, `wcmd` for
the worker, `ctl[c]` for a thread in a call through control object `c`.

| Model | Code |
|---|---|
| `queue`, `cached`, `running` | `ref_command_queue_`, `cached_status_`, `running_` |
| `mode`, `ref` | `mode_` and `ref_` of `ExcavatorStateChannel` |
| `shm` | the command blocks in the CAN shared memory, written in one go at the end of a cycle (`CanCycle` splits it) |
| `SendCommand`, `SubmitServo` | the two critical sections of `sendCommand`; a type the mode does not admit changes nothing |
| `SetStatusBit`, `ToggleStatusBit` | `setStatusBit`: compare with the published reference, toggle the cached status |
| `SetMotorGear`, `ToggleStatusBit` | the same for the gear, toggled once per step |
| `Start`, `StartWorker`, `Stop`, `JoinWorker` | `ExcavatorRuntime::start` and `stop` around `client_.init()`, `start()` and `stop()` |
| `StartFails` | `start` when CanLib's worker, the IMU library or the client does not start: by then the mapping has been opened and cleared, while the reference keeps its value and `started_` stays false |
| `LoopTop` ... `WriteShm` | `loop()` and `update()`, one action per critical section, in the code's order |

A command is its number in the order of acceptance and its type; a reference
is the command and the law it was computed by, and twelve status words. What
the laws compute is left to `MotionLaw`.

### StateSnapshot

`tick` is `loop_tick_`. `CountTick` is `LoopTop` with the count, which precedes
the cycle; `StampResp` and `StampRef` stamp what is published. `rcv[r]` is a
thread inside `ExcavatorReceive::get`: `WaitNextTick`, `GetRef`, `GetResp` are
its three steps.

### Bridge

The bridge's thread is at `pc`; it blocks only in `accept`, `select`, `get`,
`send` and, at the end, in the join of the library's worker. `Tick` is one
period (20 ms) of that worker, and is possible only while the thread is
blocked: the thread's own steps take no time beside a period. `age` is the time
since `last_valid_action_ns_`, `armed` whether that is not 0, `zeroed` is
`watchdog_zeroed_`. Each kind of request has an action (`HandleSendAction`,
`HandleReset`, `HandleClose` for close and shutdown, `HandleReadState` with
`ReadDone`, `HandleBad` for everything that is only answered with an
error, and `HandleRaw` for a line that is not UTF-8: the parser's message quotes
its bytes, and `dump`, which is outside of the `try` (`bridge:573`), throws over them).
After `HandleRaw` the exception leaves `serve`; `Unwind` is what the destructors
do, which is to stop the worker without a last zero, and the process is dead.
`Reply` blocks when the client does not read; on a closed socket it may succeed once, fail (`ReplyFails`), or end the process (`ReplyKills`:
SIGPIPE is not handled). Clients connect one after the other and may send any
request, read or not read, and hang up at any time.

### CanCycle

`mem[x]` is one of the three command blocks, holding the number of the client
cycle that wrote it (0: cleared). `run_one_cycle` reads a block into `local`,
checks it, writes it back and sends it; the client's `write` stores the three
blocks one after the other. Every access of one thread to one block is an
action, without any lock, as in the code. `Opened` is what opening the mapping with
`create_mapping` does to it. Only CanLib opens it so; the runtime constructs
ExcavatorClient without (`excavator_runtime.cpp:34`). `bus[x]` is the last frame sent with block `x` in this
run; a frame may be lost. `runs`, `base`, `newest` are history.

### RecordSession

`pc` is the place in `main()`; the actions up to `CloseSession` are its steps,
in the order of the code.

| Model | Code |
|---|---|
| `index`, `saved`, `abort`, `discard` | `episode_idx`, `saved`, `abort`, `discard` of `main()` |
| `rows` | the buffers of the `EpisodeRecorder` |
| `obs`, `stepId`, `last` | `ts.observation`, `_step_id` of the backend, `_last_action` of the guard |
| `files` | the episode files, each with the session that wrote it, whether it is complete and how long |
| `Guarded` | `ActionGuard.check` on one axis; the four are alike and zeroed together |
| `ResetBridge`, `FirstObservation` | `start_episode` and the resets after it |
| `CheckAction`, `SendAction`, `ReadReply`, `Record` | one turn of the loop over the steps: guard, `send_action`, its answer, `read_state` and `recorder.record` |
| `EndEpisode`, `Save` | opening the file, which empties it, and closing it |
| `Raise`, `CloseSession` | an exception out of any request or out of `save`, and the `finally` |
| `Interrupt`, `Kill` | the SIGINT handler; the end of the process at any point |
| `Handle`, `Lose`, `Watchdog` | the bridge: a request is carried out, perhaps after the client has given up, or lost with the connection; the watchdog |
| `Estop` | the e-stop bit of the published status goes up or down |

`bridged`, `cut`, `overrun` and `sessions` are history.

### ImuShm

Each access to a device's block is an action, as is each look at the sequence
number. `base` is the addressing of the devices on the bus, which nobody tells
the program.

| Model | Code |
|---|---|
| `addrMode`, `partials` | `addr_mode` and the accumulators of `parseFrame` |
| `imus`, `sequence` | `ImuSharedMemoryLayout` |
| `ParseFrame` | `drain_can` for one frame: the mode its address tells, and the accumulator it goes to |
| `BeginPublish`, `WriteBlock`, `EndPublish` | `publish_shm`; a block without attitude leaves the old one, `++sequence` comes last |
| `BeginRead`, `CopyBlock`, `EndCopy`, `ReadUnmapped` | the IMU half of `ExcavatorCommunication::read`: two attempts, the comparison, and the last values when both fail |
| `StartImu`, `StopImu` | the runtime's start and stop as far as the mapping, the flags and the threads go |
| `rereads` | whether the program that was built reads `sequence` a second time (see the assumptions) |

### MotionLaw

One cycle is one action, since the worker alone reads and writes what the laws
keep. The queue appears as the command in force: any command that the mode admits
may follow another, and a change of the mode leaves it there.

| Model | Code |
|---|---|
| `speed`, `position` | `motor_rpm` of the published reference, as the distance from neutral, and its `position` |
| `lastMode`, `driftSum`, `driftCount` | `last_mode_`, `ref_scalar_bias_sum_`, `zero_drift_count_`; the bias is their quotient once the count is full |
| `MotorSpeed`, `FeedForward`, `Slewed` | `scalar_to_motor_rpm`, `map_scalar_for_feedforward`, `slew_feedforward_motor_rpm` |
| `Learn`, `Bias`, `Compensated`, `Remembered` | `applyZeroDriftCompensation`, and the reset of `updateRef` when the mode has changed |
| `OpenLoopMotorSpeed`, `ClosedLoopJointPosition`, `ClosedLoopJointVelocity`, `ClosedLoopVelocityScalar`, `NoLaw` | the four laws, and a closed loop before the first command |
| `SetMode`, `Send`, `Restart` | `setControlMode`, `sendCommand` for the modes that admit it, `stop` with the next `start` |

`atRest`, `cycles` and `allZero` are history: they observe the commands and not
what the law has made of them.

### Teleop

| Model | Code |
|---|---|
| `current`, `pressed` | `_current` of `AxisResponseProfile`, the true entries of `_button_states` |
| `Remap`, `Rate`, `MoveTowards`, `Smoothed`, `Scaled` | `actions/smoothing.py`, and scale and clip in `gamepad.py` |
| `Actual`, `Down`, `Edges` | a device number that does not exist stands for the first; `_button_edge` over all configured devices |
| `KeyAction`, `RemoteAction` | the sums of `keyboard.py`; `_parse_remote_result` of `oem_remote.py` |
| `BeginEpisode`, `LeaveLoop`, `SeeWindow`, `Poll`, `Finish`, `EndSession` | the loops of `main()` in `record_real.py`, as far as the source matters to them |
| `Interrupt`, `RemoteFails` | Ctrl+C; a remote's reader that raises |

A row is the set of buttons that were down when it was polled; `still` counts the
polls since the operator asked for a movement.

### RealBackend

Every request and every answer over TCP is an action of its own, the server's
included; a call of the mock client in the process is part of the caller's.

| Model | Code |
|---|---|
| `controller`, `reader` | `controller_mode`, `state_reader_mode`, or which script the process runs |
| `ControllerIs`, `ReaderIs`, `Client` | `_build_bridge_client` and the objects the modes stand for |
| `local`, `inner`, `remote` | the joints of `MockStateReader`, of the mock client in the process, and of the server's |
| `StartEpisode` ... `Apply` | `start_episode` and `step`, cut at every wait for an answer |
| `Request`, `Fail`, `Close`, `Kill` | `JsonTcpBridgeClient.request`, its exceptions, `close`, the end of the process |
| `ScriptRequest`, `ScriptReply`, `ScriptEnds` | `scripts/smoke_bridge_protocol.py` and `scripts/one_axis_bringup.py`, each a sequence of lines |
| `conns`, `accepted` | the connections at the server's socket; `serve_forever` takes one at a time |
| `Accept`, `HandleFrame`, `EndOfFile`, `SetStop`, `StopServing` | `JsonTcpBridgeMockServer` |

### SampleBuffer

`joints` and `images` are the deques. `Added` is `add`: the deque drops its first
sample when it is full, a late one makes it sort, then the age limit, relative to
the sample that was added, takes away the oldest. `Nearest`, `LatestBefore` and
`FromBuffers` are evaluated in every state, for every target.

### Dataset, Training, ActInference

A file is known by the lengths and widths of its arrays and by what quality
control asks of its attributes. Actions are numbered, so that an item of the data
set (`Item`) shows which actions it teaches at which place.

| Model | Code |
|---|---|
| `Recorded`, `Warnings`, `Report` | `EpisodeRecorder`, `write_episode`; `run_dataset_qc` |
| `LoadError`, `Available`, `Splits`, `SplitFits`, `ResolveSplit` | `load_data` in the order of its checks |
| `disk`, `todo`, `opened` | the files of `ckpt_dir`; the writes the program is about to do, each a `Truncate` and a `Write` |
| `Launch`, `LoadData`, `WarmUp`, `BeginFit` | `train_policy` up to `fit` |
| `Validate`, `Train`, `SavesOf`, `SaveLast`, `SaveBest`, `Complete` | the loop of `fit`, and its end |
| `Raise`, `FailFit`, `Kill`, `Exit` | exceptions, which `train_policy` notes in `run_metadata.json` when `fit` has begun; kills |
| `PredictChunk`, `PredictAverage`, `PredictBeyond`, `Reset` | `ACTAdapter.predict` without and with `temporal_agg`, past its table, and `reset` |
| `Allocated`, `Covering` | the size of the table; the rows that have something to say of a step |

## 3. What is checked

| Run | Result | What it shows |
|---|---|---|
| `servo_loop` | holds | two programs' threads on one runtime, three commands, pilot and ignition toggled at will, stops, restarts and starts that back out: `QueueIsBacklog`, `PilotInterlock`, `StopCompletesCycle`, `ImplementsCommandStream`, `AcceptedTakesEffect`, `StatusTakesEffect`; a receive object beside two runs of the worker: `SnapshotAtMostOneCycleOld`, `RespNotOlderThanRef` |
| `mode_switch` | violated | `LawAdmitsCommand` (finding 1) |
| `snapshot_of_one_tick` | violated | `SnapshotOfOneTick` (finding 2) |
| `bridge` | holds | clients that pipeline, fall silent, send what is no frame, do not read or hang up: `WatchdogInTime`, `ZeroedMeansZero`, `SilenceStopsMachine`, `EveryRequestAnswered` |
| `bridge_disconnect` | violated | `HeartbeatEnforced` (finding 3) |
| `can_cycle` | holds | `FramesNeverGoBack`, `RunCarriesOwnCommands`, `StopReturns` |
| `can_status_write_back` | violated | `StatusNeverTakenBack` (finding 4) |
| `record_session` | holds | two sessions on one directory with kills, Ctrl+C, timeouts and late requests: `RecordIsWhatWasDone`, `EpisodesSound`, `FilesStay`, `EndedMeansSaved`, `CommandChangesGently`, `EstopStopsMachine`, `AbortEnds` |
| `outdated_values` | violated | `OutdatedForcesZero` (finding 5) |
| `learning` | holds | two runs of tb-train over a directory that grows, with kills, exceptions and resuming, and two episodes of inference: `ResumedWorkSurvives`, `ValidationHeldOut`, `StatusTrue`, `BestWasValidated`, `QcPassedLoads`, `ItemsSound`, `ChunksAligned` |
| `item_window` | violated | `ActionsFromObservation` (finding 6) |
| `parts` | holds | every device through smoother and guard: `ReleasedStickStops`, `RowsWithoutButtons`; every combination of controller and reader, and the scripts, with the mock server: `AppliedOnce`; buffers with samples in any order: `SyncSound`; the IMU's mapping over two starts: `NearlyWhole`, `OwnAxisStays`; the laws over any commands, modes and restarts: `ZeroIsNeutral`, `AwayFromNeutralGently` |

Every property of a
passing run has a mutation of the code's definitions that violates it (the
operators whose comment begins with "Mutation of").

### Findings

1. `sendCommand` checks the mode and submits under different locks, and the
   last command stays in the queue and is taken again every cycle. After a
   `SpeedScalarCmd` and then `setControlMode(ClosedLoopJointPosition)` the
   position law computes from a command that has no position, although `api:75`
   says that this command is admitted in two other modes only.
2. `excavator_receive.hpp:19` promises reference and response of the same tick;
   `get` reads them in two critical sections and the worker may publish in
   between. `SnapshotAtMostOneCycleOld` and `RespNotOlderThanRef` are what it
   does guarantee.
3. `README.md:119` says of the bridge that its heartbeat watchdog forces a zero
   command on timeout. `checkWatchdog` is called in `handleClient` only: when a
   client has hung up, the last action stays in force until another connects.
4. `canlib:451` says not to write `cmd_10hz` back, since that would cover up
   ignition and flame-out pulses; `canlib:480` writes it back every fifth cycle.
5. `testbed/docs/realworld_v1_plan.md:65` forces a zero action when the sensor
   is stale or older than 0.20 s. `bridge:486` stamps the joint sample with the
   time of the request, and the library publishes the last IMU values again
   when no new ones arrive, so `ActionGuard` never sees their age;
   `sensor_stale` is never set either.
6. `data/dataset.py:237` says "action from t0 onward", the docstring (line 176)
   "(T - t0, Na)", and `testbed/README.md:77` gives the target as "observation_t ->
   operator command_t". Line 238 lets the window of a recorded episode begin at
   `max(0, t0 - 1)`, although the recorder numbers the observation and the action
   that answered it alike. So, except at the first step, a policy is taught to
   give first the action just given. `ACTAdapter` executes its first prediction
   at the step of the observation, that is one step late. `ItemsSound` is what
   does hold of a window, and `ChunksAligned` takes a prediction's step from its
   place in the chunk, as the adapter does; the shift is in neither.

### What the models show besides

These are not runs of their own: the repository states no rule that they break, or a
model shows them by a guard or an exception in a property.

* `bridge:573`: a client that sends a line that is not UTF-8 ends the bridge process
  (`HandleRaw`, `Unwind`), without a reply and without a last zero; what the
  machine goes on with is the last frame CanLib sent. `EveryRequestAnswered` excepts that line.
* `excavator_runtime.cpp:57`: a start that backs out has cleared the command blocks
  but not the published reference, so that the status calls still compare with the
  last one of the run before while the mapping holds none. `StopCompletesCycle` says
  what remains true between two runs.
* `policies/act/trainer.py:190`: a run that resumes and does not improve ends in
  "No validation summary was produced", although it validated. Resuming from a
  checkpoint of the last epoch may rewrite the only file that holds the work;
  `ResumedWorkSurvives` is about runs with an epoch left.
* `runtime/_train.py:109`: the statistics are computed anew and overwritten when a
  run is resumed with more episodes, so the weights go on under another
  normalization. They are taken over all episodes, those for validation too.
* A split file that a kill has torn stops every later `load_data`
  (`LoadFails`) until somebody deletes it.
* Quality control does not look at pictures missing at single steps, nor at
  episodes longer than `episode_len`: `load_data` stops for the second, and an
  epoch for the first, when it happens to draw that step (`MayDraw`).
* `policies/act/adapter.py:220`: the table is made larger by its columns and indexed
  by its rows, so that with temporal aggregation `predict` raises at step
  `max(max_episode_len, num_queries)` and from there on (`PredictBeyond`).
* `actions/gamepad.py:124`: the comment says there is no state to reset; the method
  resets what `RowsWithoutButtons` depends on.
* `actions/keyboard.py:75` and `cli/record_real.py:499`: the key D swings the
  machine and discards the episode.
* A reader of an OEM remote that raises ends the program, and the rows of
  the episode are lost (`RemoteFails`).
* A mock controller with a reader over TCP acknowledges commands that no
  observation ever shows; `AppliedOnce` leaves that combination out.
* `backends/real/bridge_server.py:93`: the mock server looks at its stop flag
  between lines; a client that is connected and silent keeps it running.
* `comm:313` says that without the IMU's mapping the last frame is kept; `open` has
  by then forgotten that there was a valid one (`KeepLast`).
* An IMU bus with addresses from 0 whose first device is silent is taken for one
  with addresses from 1 (`imu:88`), and each axis shows its neighbour until that
  device is heard. Hence `OwnAxisStays` speaks of an axis that has shown its own.
* Built with optimization, `comm`'s second look at `sequence` is the first one: the
  compiler need not read it twice, and g++ at `-O2` does not. Then a copy can mix
  any number of publications, and `NearlyWhole` holds only of builds that read
  twice. The default of the build files is no optimization.

* `laws:103`: the law of the velocity scalar takes its first 20 commands for the
  lever at rest. The bridge sends one zero when it starts, in this mode by default, and the
  last command stays in force, so the drift is learned from zeros if the first
  action comes 0.4 s later or more. Learned from a lever that is held, the drift is
  subtracted from every later command, those of the watchdog, of `reset` and of
  the e-stop included: the zero then moves the machine, until the mode is changed.
  A restart of the library keeps it. Hence the premise of `ZeroIsNeutral`.
* `laws:30`: a reversal that ends nearer to neutral than it began, if only by a
  little, is taken over in one cycle. `AwayFromNeutralGently` bounds the distance
  from neutral, which is what the code's comment (line 11) promises.
* `laws:18`: the feed-forward is not monotone. With the threshold at zero a scalar of 0.10 gives
  10 % of the speed, one just above it next to none.
* `laws:165`: the PID terms go into `plan_rpm`, which no converter sends to a motor;
  their sum `pid_extra_prev_` has no bound. So the closed loop of the position moves a
  joint for the one cycle in which the command changes (`ClosedLoopJointPosition`):
  in the next, the command has been reached as far as the law can tell.

Not covered by a property, but worth a reader's attention: `setMotorGear` counts
its toggles from the published gear, which a toggle still pending has yet to
change (`api:194`); `start` resets `loop_tick` while a receiver keeps the
`last_tick` of the run before, so `get` times out until it is passed (`client:34`);
the two frames of a pair are read from blocks that are written one after the
other (`canlib:458`); `safety_state_from_status` takes the dead man's button for pressed when the
status does not say (`backends/real/contracts.py:252`).

### Bounds, and why they are enough

* `servo_loop`: two control objects (any property here is violated by the
  worker against one caller, or by two callers against each other), `MaxCommands
  = 3` (a backlog of two behind the command in force, so that taking, keeping
  and popping all happen), one settable bit (the pilot) and one toggle mask (the
  ignition), two modes of which one admits the command sent. Restarts are
  unbounded, except while a receive object reads: one such object (they do not
  interact), `MaxTick = 3` cycles in each of `MaxRuns = 2` runs, for snapshots that
  straddle a restart, and cycles before and after it. Gears, which take several toggles of
  one call, are shifted by one caller without commands.
* `bridge`: `Heartbeat = 2`, `SelectTimeout = 1`, `ReadTimeout = 1`, two lines per
  `recv`, two requests ahead, four requests in all: a pass can be as long as
  `Pass = 3`, longer than the heartbeat, so that the watchdog is really late.
  Ages from `MaxAge = 6` on are not told apart (`MaxAge > Heartbeat + Pass`).
  `MaxLines` bounds the requests, not the time.
* `can_cycle`: one warm-up cycle, every second cycle with 10 Hz frames, two
  client cycles and two runs: a block can be overwritten while it is in CanLib's
  hands, and a run can follow another that left blocks behind. CanLib's own
  cycles are unbounded.
* `record_session`: `Delta = 1 < Clip = 2 < Full = 3 = Reach`, so that the rate
  limit, the clip and neither of them bite, in both directions; `MaxSteps = 3`
  (a first step, one after a guarded one, and one after an e-stop was seen),
  `NumEpisodes = 2` (the second compares with what the first left),
  `MaxSessions = 2` (a session that finds the files of a killed one), and a torn
  file with number 1 and nothing below it, or an empty directory.
* `outdated_values`: the same with observations that may be outdated.

* `learning`: two or three episodes: good ones of three steps, of two steps with a picture
  missing, with too few joints, of four steps and so too long, or torn; `EpisodeLen = 3`. So windows
  begin at 0 and later, and items are full or padded. Three epochs
  with validation, the latest and the periodic checkpoint at different ones;
  losses 1 and 2, so that an epoch may improve or not; two runs of tb-train, the
  second fresh or from any checkpoint the first left. Inference: chunks of two
  actions, two episodes, one step more than `MaxEpisodeLen = 4`.
* `item_window`: the same directories, with one epoch of one run.
* `parts`: the lever has four positions in each direction, one of them in the dead zone; the
  three rates differ and none divides the full command's way evenly;
  `MaxSteps = 7` is more than `Settled` needs after a movement, and two episodes
  let a button be held from one to the next; two configured devices of which 0, 1 or 2
  are connected. Two processes of two episodes of two steps each, so that a
  killed one precedes another. Buffers of three samples, an age limit of 4 and
  time stamps up to 7: full before old, and old before full. Two IMU
  devices, three publications (a copy can be overtaken twice) and two starts. The
  laws: scalars full backward, zero, a third and full forward, so that drifts of
  either sign and targets on both sides of neutral, nearer and farther, come up;
  `BiasCycles = 2`, so that a drift may be learned from unequal commands; a slew
  step of a sixth of the span. Cycles, changes of the mode and restarts are unbounded.

Deadlock is checked in all runs on `ServoLoop`, `Bridge` and `RecordSession`. The
other cfgs switch it off: the bounds (`MaxRuns`, `MaxSequence`,
`MaxProcesses`, `MaxInferences`), and in `Teleop` the end of the program, end a
behaviour there.

### Fairness

* `ServoLoop`: `WF(Worker)`. The worker waits for its tick and for critical
  sections in which nobody waits, so it always goes on. Nothing is asked of
  the callers.
* `Bridge`: `WF(Thread)`, `WF(Tick)`. The thread goes on unless it is blocked, and
  time passes while it is. `AcceptFails` and the clients are under no
  obligation: a client may be silent, or never read.
* `CanCycle`: weak fairness of both workers, as above, and of `JoinClient` and
  `JoinCan`, the steps of a `stop()` or of a failed `start()` that has begun. When
  and whether `stop` is called is left open.
* `RecordSession`: `WF(Program)`. `main()` runs, and every request ends in an answer
  or, after `timeout_s`, in an exception. The bridge is under no obligation, nor
  is the operator.

### Assumptions made by the models

* One thread's access to one block of shared memory is atomic; a copy that is
  torn within a block (at most 13 bytes) is not modelled, nor is the order in
  which a weakly ordered machine makes accesses visible.
* An open mapping stays usable: `comm_.read` and the conversions of the
  response, which fail only on a closed mapping, do not fail in a running
  worker.
* The modes the bridge can be started in with success admit `SpeedScalarCmd`,
  so that `sendCommand` in the bridge succeeds.
* `Window <= Room`: a client of the bridge does not send further ahead of reading
  than the socket buffers hold replies. Without it `send` blocks for as long as
  the client likes, and the watchdog with it. `Room` is a matter of the kernel;
  the Python client sends one request at a time.
* `RecordSession`: configurations with `action_clip` at most 1, to which
  `as_real_action` clips (`Clip <= Full`); backend and state reader are both
  `bridge_tcp`.
* `ImuShm`: as in `CanCycle` an access to a block is atomic and accesses happen in the
  program's order. Whether `read` looks at `sequence` once or twice is up to the
  compiler, since it is not volatile or atomic; `rereads` is either. The magic
  number is right; the online and valid flags, which nobody reads, are left out.
* `Teleop`: exponent 1; one axis; a button is one of the configured ones, under an
  index that the device has. The guard's reasons to stop are arbitrary.
* `RealBackend`: joints integrate commands with a constant step; an exception of the
  TCP client leads to `close`, as it does in every program of the repository
  that uses it (a client that is not closed raises at each later request).
* `MotionLaw`: one joint; a quotient is rounded toward zero, where the code has a
  floating-point number. Where the laws of the two velocities and the open loop leave the position
  is any of the positions. `plan_rpm` is left out, with the PID terms that only it
  depends on, and the sign of the joint that is turned round. Whether a command is
  sent between two locks is `ServoLoop`'s question; here a command may meet any law
  after a change of the mode.
* `SampleBuffer`: the stamps are those the sources give; two samples with the same
  one are alike.
* `Dataset`, `Training`: an HDF5 file or a checkpoint that was not closed cannot be
  opened; loading and splitting are one step, since nothing of what
  they read changes meanwhile (a recording does not run at the same time on the
  same files). Evaluation in simulation and `cfg.start_epoch` are left out.
* `ActInference`: no prediction is exactly zero in all its components, which
  `_aggregate` would take for an empty place.
* `Bridge`'s requests fill a line each; a `recv` completes at most `MaxChunk`.

## 4. What is proved

| Theorem | Statement |
|---|---|
| `ServoLoopProofs!TypeCorrect` | `Spec => []TypeOK` |
| `ServoLoopProofs!PilotCorrect` | `Spec => []PilotInterlock` |
| `ServoLoopProofs!StopCorrect` | `Spec => StopCompletesCycle` |
| `ServoLoopProofs!BacklogCorrect` | `Spec => []QueueIsBacklog` |
| `ServoLoopProofs!RefinesCommandStream` | `Spec => ImplementsCommandStream` |
| `StateSnapshotProofs!SnapshotRefinesServoLoop` | `SpecSnapshot => Spec` of `ServoLoop` |
| `StateSnapshotProofs!SnapshotAgeCorrect` | `SpecSnapshot => []SnapshotAtMostOneCycleOld` |
| `StateSnapshotProofs!RespAfterRefCorrect` | `SpecSnapshot => []RespNotOlderThanRef` |
| `BridgeProofs!BridgeTypeCorrect` | `Spec => []TypeOK` |
| `BridgeProofs!WatchdogCorrect` | `Spec => []WatchdogInTime` |
| `BridgeProofs!ZeroedCorrect` | `Spec => []ZeroedMeansZero` |
| `CanCycleProofs!CanCycleTypeCorrect` | `Spec => []TypeOK` |
| `CanCycleProofs!FrameOrder` | `Spec => []FramesNeverGoBack` |
| `CanCycleProofs!OwnCommands` | `Spec => []RunCarriesOwnCommands` |
| `RecordSessionProofs!RecordCorrect` | `Spec => []RecordIsWhatWasDone` |
| `RecordSessionProofs!EpisodesCorrect` | `Spec => []EpisodesSound` |
| `RecordSessionProofs!EndedCorrect` | `Spec => []EndedMeansSaved` |
| `RecordSessionProofs!EstopCorrect` | `Spec => []EstopStopsMachine` |
| `RecordSessionProofs!GentleCorrect` | `Spec => CommandChangesGently` |
| `RecordSessionProofs!FilesCorrect` | `Spec => FilesStay` |
| `LearningProofs!ResumeCorrect` | `Spec => []ResumedWorkSurvives` |
| `LearningProofs!SplitCorrect` | `Spec => []ValidationHeldOut` |
| `LearningProofs!StatusCorrect` | `Spec => []StatusTrue` |
| `LearningProofs!BestCorrect` | `Spec => []BestWasValidated` |
| `LearningProofs!QcCorrect` | `Spec => []QcPassedLoads` |
| `LearningProofs!ItemsCorrect` | `Spec => []ItemsSound` |
| `LearningProofs!ChunksCorrect` | `SpecInference => []ChunksAligned` |
| `ActionProofs!StickCorrect` | `SpecTeleop => []ReleasedStickStops` |
| `ActionProofs!ButtonsEndEpisodes` | `SpecTeleop => []RowsWithoutButtons` |
| `ActionProofs!BackendCorrect` | `SpecBackend => []AppliedOnce` |
| `ActionProofs!ZeroStops` | `SpecLaw => []ZeroIsNeutral` |
| `ActionProofs!SlewLimited` | `SpecLaw => AwayFromNeutralGently` |
| `SensorProofs!SyncCorrect` | `SpecBuffer => []SyncSound` |
| `SensorProofs!CopiesNearlyWhole` | `SpecImu => []NearlyWhole` |
| `SensorProofs!AxesStayOwn` | `SpecImu => OwnAxisStays` |

Every invariant and every action property that a passing run checks, and the
refinement of `CommandStream`, is thus a theorem for all values of the constants.

The only assumptions are the named `ASSUME`s on the constants, one in each module
that declares constants. They give the ranges of the configuration, and
the few relations between values that the code or its files have:

* `BridgeAssumption`: `Window <= Room`, as above.
* `RecordSessionAssumption`: `Clip <= Full`, the guard's clip is not above the range
  of an action, so that `as_real_action` leaves what the guard let pass as it is.
* `TeleopAssumption`: `Deadzone < Travel`; the rates and the scale are positive.
* `SampleBufferAssumption`: a buffer has room for two samples at least, and a
  time stamp is above zero.
* `TrainingAssumption`: the directory at the beginning (`Begun`) has its files
  numbered without gaps, as `tb-record-real` leaves them; what an episode may be
  is any of the shapes a reader can tell apart.

TLC evaluates all of them in the runs.

The arguments:

* **Interlock.** `PilotInterlock` speaks of the published reference and of the
  block. Inductive is `PilotInv`, which adds the worker's copy between the masking
  and the two writes.
* **Stop.** `LifecycleInv` says that only one call starts or stops at a time,
  that an object that is stopping has cleared `running`, that without `started`
  there is no worker, that while a start is under way the reference is zero, and that
  between a successful start and the end of the stop shared memory lags
  behind the reference only between publication and write. Outside of that the two may
  differ, since a start that backs out clears one of them; then the property
  speaks of the steps, which are those of `Start` and `StartFails`.
* **Backlog and refinement.** `StreamInv` relates the queue, the command in the
  worker's hands and the one in shared memory: each of the latter two is an
  accepted command (or none has been accepted yet), and they are next to each
  other in the order of acceptance, `wcmd.id \in {Front - 1, Front}`,
  `shm.cmd.id \in {Due - 1, Due}`. Taking a command moves `Front` or not,
  according to the length of the queue; what is pending in the abstract sense
  stays the same. Only `SubmitServo`, `WriteShm` and `Start` are abstract steps
  (`SubmitRefines`, `WriteRefines`, `StartRefines`).
* **Age of a snapshot.** `CycleInv` says by the worker's place which cycle the two published states
  are of: the tick is counted first, then the response is published, the reference last.
  What a thread inside `get` has copied or can still copy is then recent enough
  for the tick that woke it, since published states only get newer
  (`FetchInv`); that the reference is fetched first is what makes the response
  not older. Between `init` and the first tick of a run the zero reference
  counts as the next run's (`NextRun`).
* **Watchdog.** `WatchdogInTime` is not inductive: whether the thread is still
  in time depends on what it has yet to do. `TimeInv` gives each place of the loop
  its share: age, plus a `ReadTimeout` for each line left in the buffer, is at most
  the heartbeat, the select and the budget of a full chunk. `WindowInv` shows that
  with `Window <= Room` a reply to an open connection never blocks, so time
  passes only in `select` and `get`.
* **Frame order.** Write-backs do make blocks older. `OrderInv` says by how
  much: a block is cleared, or not older than the copy `run_one_cycle` has of
  it, which is cleared or not older than anything sent with it before.
* **Own commands.** `OwnInv` says it of the mapping, the copies and the bus;
  `ClientInv` adds that there is no writer until CanLib has been opened, and that its
  number is above `base` once it has begun to write. CanLib's clearing is enough and is
  needed: the mutation that leaves it out carries an old command to the bus.
* **Recording.** `SessionInv`. At most one request is under way, and none but the
  one of the step just taken while an episode goes on, since everything else that can happen
  to it ends the session (`WireInv`). So the bridge has handled the recorded
  actions and, between answer and row, one more (`BridgedInv`); the observation
  in hand is the one the next row is about (`RowInv`). Rate limit: the guard's
  last output is the bridge's command unless the watchdog has cut it
  (`GuardInv`), and a late request of a session that is gone is within the limit of the command it meets.
  Emergency stop: after one more action that moves, the guard has read the state that says so
  (`EstopInv`). Files: the present index is above every file except the one that is
  being written (`FileInv`), so that `save` opens no file there is.
* **Training.** `RunInv`. `TodoInv` gives for each place of the program what it still has to write, so
  that a kill in the middle leaves one torn file and all later ones as they
  were. `KeptInv`: the work gone on from is in the checkpoint that was resumed until the first save
  of the run, in that save until the end of `fit`, then in `policy_last.ckpt`.
  `SplitInv`: the split in memory is the one on disk, which once whole is never
  written, and all weights in memory and on disk were trained on its training side.
  `StatusInv`: before a checkpoint is touched the metadata say "started", and "completed" is
  written last. `DirInv`: a whole episode stays as it is, so a clean report stays
  true of it, and a run loads only what was there when it checked.
  `ItemsSound` needs no invariant but the lengths that `LoadError` has
  checked. That proof brought to light that the model's `LoadError` had
  overlapping cases; they are now in the order of the code's checks.
* **Chunks.** `ChunkInv`: the chunk in use was predicted at the last multiple of its
  length, and the table has a row for every step of the episode so far and no
  other. Then the rows that reach a step are those of the last `ChunkSize` steps.
* **Backend.** `BackendInv`. A process has one request under way at most (`WireInv`), and the
  server takes connections in the order in which they came, so what earlier processes left in the
  backlog is handled before the first answer this process gets.
  `RemoteInv`: once the reset is answered nobody else moves the server's joints until
  the connection is lost. The joints of a reader in the process move with the commands
  at once (`PlantInv`).
* **Released stick.** `StickInv`. Each poll at rest takes `Recenter` from the
  smoother's position, as long as there is any (`SmootherInv`); after `SmootherRests` polls the guard is
  asked for zero, and each further one takes `Delta` from its last output (`GuardInv`).
  Without a profile or a device there is nothing to recenter (`UnusedIsNeutral`).
* **Sample buffers.** `BufferInv`: a buffer is in the order of time and ends with
  the newest sample there has ever been, since neither eviction nor age take away the
  last. In an ordered sequence the first sample is what a full buffer and the age limit drop first. `SortedByTime` is
  stated as any ordered permutation, of which the lemmas show that there is one:
  an inserted sample moves down to its place.
* **Nearly whole copies.** `PublicationsInv`: a block is of the publication that the
  number counts, or of the next one if the publication in progress has been there.
  `CopyInv`: what has been copied is of publication `s1` at least, and of the one
  after the number's present value at most. So when the number is still `s1` all
  of it is of `s1` or the next. A restart clears the mapping while nobody copies.
* **Own axes.** `AddressInv`: a bus tells one mode at most, and before it does no axis
  of a bus with addresses from 0 is its own device's. So an accumulator that holds
  its own device never holds another. `AxisInv` carries this along from the
  accumulator to the block, to the copy and to what the client keeps, each of
  which lags behind the one before. The mutation that forgets the mode at a
  restart breaks it at the first link.
* **Buttons.** `EdgeInv`: while an episode goes on `pressed` is empty. A poll compares
  with it, so that an edge is the same as a button that is down (`QuietPoll`);
  only `reset` makes it so at the beginning of an episode.
* **Zero drift.** `DriftObserved`: the count that the law keeps is the number of
  cycles observed since the mode was entered, also while other laws are in
  force, and the sum is zero as long as all of them were. `NeutralSoFar`
  covers the cycles before the first command. Then the bias is zero, and a zero
  goes through deadband, feed-forward and slew limit as a zero (`ScalarLawTarget`,
  `SlewedSound`).
* **Slew limit.** `SlewedSound` bounds one step whatever target the drift and the
  feed-forward make, so that nothing need be known of them but that they are numbers.

Only model-checked: the liveness properties (`AcceptedTakesEffect`,
`StatusTakesEffect`, `SilenceStopsMachine`, `EveryRequestAnswered`,
`StopReturns`, `AbortEnds`). They need fairness, hence `ENABLED`, which is out of
the prover's reach. The six runs with a finding are counterexamples, and
need no proof.

## 5. Plan

In the order of importance for the machine.

Done: all modules of section 2, with proofs of every invariant and action property.

To come:

1. Type correctness of `RecordSession`, `Training`, `Teleop` and `RealBackend` as theorems of their own (so far they
   are parts of the inductive invariants).
2. An abstract specification of what a client of the bridge may rely on (requests
   carried out in order, a late one at most once), implemented by `RealBackend`'s mock server
   and by `Bridge`; so far `RecordSession` states it and `AppliedOnce` shows it for
   the mock server.
3. The feedback half of `CanLib`; the converter; `RuntimeRegistry`: acquire against the last
   release.

Not modelled, now or later: JSON syntax and the pictures, the C++ demo server
and tools, `can_probe`, the networks and the values of their losses, the
evaluation in simulation, and the videos. They are vendored, pure input and output,
or numerical; none of them has state that concurrent or failing steps could
bring into disorder. The motor and IMU drivers under `control/src/excavator` are
used by no program of the repository. Metadata, diagnostics and `render()` are
data that nothing depends on.

## 6. Running it

```
cd tla
tlc -workers 2 -config MCServoLoop.cfg MCServoLoop
tlc -workers 2 -config Bridge.cfg Bridge
tlc -workers 2 -config CanCycle.cfg CanCycle
tlc -workers 2 -config RecordSession.cfg RecordSession
tlc -workers 2 -config MCLearning.cfg MCLearning
tlc -workers 2 -config MCParts.cfg MCParts
tlapm ServoLoopProofs.tla
tlapm BridgeProofs.tla
tlapm CanCycleProofs.tla
tlapm StateSnapshotProofs.tla
tlapm RecordSessionProofs.tla
tlapm LearningProofs.tla
tlapm ActionProofs.tla
tlapm SensorProofs.tla
```

The six runs with a finding are `ServoLoopModeSwitch.cfg`,
`StateSnapshotTick.cfg`, `BridgeDisconnect.cfg`, `CanCycleStatus.cfg`,
`RecordSessionOutdated.cfg` and `LearningItems.cfg` (with `MCLearning`); TLC reports the violated property and a behaviour.
