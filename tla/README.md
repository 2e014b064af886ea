# Verification of the heli_fc flight software

The repository ports a Wi-Fi HaLow SDK to the ESP32 and builds on it a flight
controller for a small helicopter, `src/esp32p4_heli_fc`: agents on core 0 fly
the vehicle, tasks on core 1 talk MAVLink to a ground station.  This directory
holds TLA+ models of that flight software, what TLC checks of them, and proofs
that TLAPS checks.  Paths below are relative to `src/esp32p4_heli_fc/main`
unless they begin with `src/`.

Contents: [1 The system](#1-the-system), [2 Modules](#2-modules),
[3 Runs](#3-runs), [4 Fairness](#4-fairness), [5 Proofs](#5-proofs),
[6 What the models leave out](#6-what-the-models-leave-out),
[7 Disagreements found](#7-disagreements-found), [8 Plan](#8-plan).

## 1 The system

### 1.1 Components

| component | source | state it keeps | operations | correct if |
|---|---|---|---|---|
| message broker | `uorb/uorb.c` | per topic: advertised flag, mutex, last data, table of up to 4 depth-1 queues | init, advertise, subscribe, publish, copy | a topic is a register: nobody misses the last message or goes back to an older one |
| system monitor | `agents/sysmon_agent.c` | arm state, mode, failsafe, health flags, last RC frame, landing and ground station timers, home | a 10 Hz cycle: sense, failsafe, auto-disarm, switches, commands, status | a failure forces the right mode and stays forced; arming only after all checks; no disarm in the air |
| flight controller | `agents/flight_ctrl_agent.c` | previous mode, home, loiter position, RTH phase, touchdown timer and latch, waypoint index | one branch per mode at 500 Hz | what a mode captured belongs to this entry; touchdown is real; RTH descends at home |
| actuator agent | `agents/actuator_agent.c` | previous arm state, ramp start | mix, ramp, watchdog at 500 Hz | outputs safe when disarmed or when the controller is silent; power returns by the ramp |
| sensor agent | `agents/sensor_agent.c` | error counters, which devices work | start devices, publish at 1 kHz and below | publications go on while devices work; a dead device is noticed |
| mission manager | `agents/mission_mgr.c` | table of 50 items, count, current index | set count, store, clear, set current, advance, get | index in range; no item of an old mission in a new one |
| MAVLink handler | `comm/mavlink_handler.c` | upload state, pending parameters, calibration, telemetry cache | one handler per message; drain of telemetry | both cores agree on the mission; a request gets its answer |
| RPC | `rpc/rpc_core.c` | two bounded queues, counters | send and receive, each way | loss only as documented; order kept |
| parameters | `common/param.c`, `s_param_store` of `comm/mavlink_handler.c` | a table on each core, NVS | get, set, load, save | the vehicle flies with the values the station is shown |
| start-up | `main.c` | - | starts the tasks | every agent finds the topics it needs |
| SBUS receiver | `drivers/sbus.c` | byte framer, last frame, ready flag | UART task, read | a torn frame does not last |
| bridge | `comm/gcs_bridge.c` | UDP socket, peer | send, receive | who asks gets the whole answer |
| control laws, estimators, mixer, autotune | `control/`, `estimator/` | filters, integrators | called by the agents | numeric |
| Wi-Fi MAC and driver | `src/framework/morselib` | connection, event queue, power save | vendor library | - |
| prototype, shims, examples, cameras, codec | see PROJECT.json | - | - | - |

### 1.2 How they interact

All agents of core 0 are FreeRTOS tasks of fixed, different priorities on one
core (actuator 7, sensor agent 6, SBUS reader and flight controller 5, monitor
2): those above preempt the monitor between any two of its statements.  Core 1
runs the MAVLink handler alone.  The tasks of core 0 share no variables but the
mission manager's and the SBUS frame; they exchange uORB messages, of which a
subscriber keeps only the last.

    sensors -- SENSOR_*, VEHICLE_ATTITUDE, RC_CHANNELS --> monitor, controller
    monitor -- VEHICLE_STATUS (armed, mode, failsafe) ---> controller, actuator
    controller -- ACTUATOR_CONTROLS (+ land_detected) ---> actuator, monitor
    monitor -- RC_CHANNELS (override of the ground station)
    MAVLink handler -- RPC commands --> monitor -- RPC telemetry --> handler
    actuator -- RPC telemetry (servo outputs) -----------> handler
    monitor -- calls --> mission manager <-- calls -- controller
    SBUS reader -- s_data, s_new_data --> sensor agent
    ground stations -- UDP --> bridge <--> handler

### 1.3 What is hard

- **Feedback across three tasks of different rates.**  `land_detected` goes
  from a 500 Hz loop through a one-message queue into a 10 Hz loop that disarms
  on it; mode and arm state go the other way.
- **Many writers of one decision.**  The mode of a cycle is written by the
  failsafe, the sensor fallback, the pilot's switch and any number of commands,
  in that order, before it is published once.
- **State captured on entry.**  `prev_mode` decides what a mode resets.  Every
  early `break` of a branch also counts as having entered it.
- **Preemption without locks** in the mission manager; publishers that overtake
  each other in the broker.
- **Start-up by delays**: a subscription before the advertisement is NULL for
  good and nobody looks.
- **Two copies of the mission, and of the parameters,** on two cores, kept equal
  by commands and answers through bounded queues that drop.
- **Ages across tasks.**  A sensor message is stamped by one task, waits in up
  to two places, and is compared to a clock another task read earlier; the
  difference is unsigned.
- **A queue with two producers** that discard its oldest message and retry
  without a lock, one of them preempting the other between the two.

PROJECT.json lists every such hazard with its line and, where one exists, the
property that guards against it.

## 2 Modules

| module | models | proofs |
|---|---|---|
| `LatestValue` | what the broker promises: one register per topic | |
| `Uorb` | `uorb.c` | `UorbProofs` |
| `Sysmon` | the monitor's decisions | `SysmonProofs` |
| `FlightCtrl` | the controller's discrete state | `FlightCtrlProofs` |
| `Actuator` | the actuator loop | |
| `FlightSystem` | `Sysmon`, `FlightCtrl`, `Actuator` and the vehicle | `FlightSystemProofs` |
| `SensorHealth` | sensor agent, SBUS reader and the ages in the monitor, on top of `Sysmon` | `SensorHealthProofs` |
| `LossyFifo` | what the telemetry path between the cores promises | |
| `RpcCore` | `rpc_core.c`: both queues | (with `GroundLink`) |
| `GroundLink` | the parameter protocol over `RpcCore`, both stores, the bridge's peer, reboot | `GroundLinkProofs` |
| `Mission` | upload, command queue, mission manager, waypoint walk | `MissionProofs` |
| `Boot` | start-up scripts, composed with `Uorb` | `BootProofs` |
| `MC*` | instances for TLC | |

**Uorb.**  `orb_publish` is cut where other tasks can see it half done: store
under the topic's mutex (`PublishStore`), one queue after the other
(`PublishPush`), release (`PublishDone`).  `orb_subscribe` is cut where it holds
the global mutex and waits for the topic's.  Messages are numbered per topic;
`since[s]` is history.  `Register` maps the broker to `LatestValue`: a message
is being written while its publisher holds the mutex.

**Sysmon.**  One cycle is `Sense` (sections 1 to 4b of the loop), `Switches`
(4c, 4d, 6b), any number of commands (7) and `Publish` (5).  The cuts are where
the cycle reads another queue; between them it touches only its own variables.
What a queue held is a parameter.  Sensor ages and battery voltages become the
sets of healthy sources and the battery class (`battery`) the code compares them
to.  Three histories are about the arm switch: `held` says that the vehicle was
disarmed under a switch still on, `bySwitch` that it is armed and was so by its
switch, `looked` that a healthy frame was read since the chip started.  `Reboot`
clears what `esp_restart` clears, and not `held`: the pilot's switch stays where
it is.

**FlightCtrl.**  One action is one iteration of the loop; the branches of the
mode switch, with their early exits, are its disjuncts (`Disarmed`, `Sticks`,
`Loiter`, `RthHold`, `RthReturn`, `Land`, `MissionHold`, `MissionFly`).
Control laws become the intent of the collective.  Altitudes are steps, places
are what is within `RTH_APPROACH_RADIUS` of each other.  `stay` is history:
where and how the current stay in a mode began.

**Actuator.**  One action per iteration: arm edge, ramp, watchdog, outputs.

**FlightSystem.**  The three tasks interleave step by step; `Tick` ends 100 ms
once the monitor has finished its cycle and the two others have run after it.
A topic is the register that `Uorb` is proved to be, plus `ctlNew`, since the
monitor acts on a message only once.  The controller may stall for whole steps.
The true height follows the collective, but for `MaxGusts` gusts.  This module
assumes that every handle is connected and, in its passing run, that there is
a barometer.  **Today's start-up does not deliver the first (section 7), and
today's sensor agent has no barometer**; the module shows what the agents do
once both are mended, and its second run what the missing barometer does.

**Mission.**  Core 1 handles one MAVLink message per action and then sends the
commands it produced, each of which waits for room or is dropped.  The monitor's
calls of the mission manager are cut at each assignment (`Wipe`, `Resize`,
`Rewind`, `Copy`), with a `"torn"` item while `memset` or `memcpy` runs; an
iteration of the controller, of higher priority, is one action.  The cuts take
the assignments in source order, as the default debug-level optimisation of
the build leaves them.

**SensorHealth.**  Extends `Sysmon` by the path its health flags come from.  The
monitor's section 2 is cut at its clock reading and its two copies (`ReadClock`,
`CopyImu`, `CopyRcAndSense`); an iteration of the sensor agent at the bus it
waits for (`BeginIteration`, `EndIteration`); the SBUS reader between the store
of a frame and the flag (`BeginStore`, `EndStore`).  Guards say who can run: a
lower task runs when the higher ones wait.  Time is counted in readings of the
monitor's clock and a time stamp is its age in readings, 0 for one taken after
the last reading, whose unsigned difference wraps.  A frame read in the middle
of its store is any mixture of two, field by field.  The paths of IMU and
receiver meet only in the monitor's decisions, so a behaviour follows one set of
sources (`followed`) and leaves the monitor free in its verdict on the others:
the module says about each what it says with both, with a fraction of the
states.  Between the verdict and the publication the monitor obeys the ground
station: ARM, DISARM and SET_MODE (`MonitorObeys`), and RC overrides
(`MonitorOverrides`), which carry any reading a frame can, arm switch on
included, because the handler does not limit the channels.  The store to
`s_data` and that to `s_new_data` are taken in program order.

**RpcCore.**  A call of `rpc_send_telemetry` goes through four places: waiting
for room, about to discard, about to retry, done.  Each step is one call of a
FreeRTOS queue, which is atomic; nothing holds the queue in between.  The
actuator can come between any two steps of the monitor, never the reverse; the
handler takes at any time.  `Fifo` maps it to `LossyFifo`: messages are known by
producer and number.

**GroundLink.**  The handler's loop is `Drain` (one action per message), one
sending (`TooEarly`, `SendNext`, `EndPass`, `SendAnswers`) and at most one packet
(`AskList`, `AskValue`, `AskSet`, `AskReboot`, `NoPacket`), then the command it
forwards (`Forward`).  The code drains, then sends; here the sending is taken at
the moment the queue is seen empty, which makes no difference: what it sends
from is the handler's alone.  The monitor obeys (`ObeySet`, `ObeyReboot`) and
restarts the chip.  The module follows a message up to `sendto`; what the radio
loses is a station that does not answer, and the stations may ask anything at
any time.  `apart` and `handed` are
history.

**Boot.**  Each task's start-up is a script of delays, advertisements and
subscriptions; time advances when all wait.  Peripherals may take long or fail.

## 3 Runs

| run | configuration | shows |
|---|---|---|
| `uorb` | 2 publishers, 4 call sites, table of 2, 2 messages per topic | `NoLostUpdate`, `CopyMovesForward`, `ImplementsRegister`, `EveryMessageArrives` |
| `sysmon` | timers of 1 and 2 cycles, 4 RC frames, all health patterns | `LostImuLands`, `LostRcReturns`, `PilotKeepsMode`, `SwitchTakesBack`, `ArmedOnlyWhenSafe`, `NoArmingByHeldSwitch` |
| `flight_ctrl` | 2 places, 3 altitudes, 5 modes, any input | `LandedMeansTouched`, `HoldsWhereEntered`, `ReturnDescendsAtHome` |
| `boot` | peripherals 0 to 1.2 s, or dead | `ControlsConnected`, `QuickSensorsConnected`, `ControllerNeverSeesStatus` |
| `flight_system` | 2 altitudes, one gust, IMU and RC losses, LAND commands | `OutputsSafe`, `LostImuFlown`, `SoftStart`, `LandedDisarm`, `EmergencyLandingEnds` |
| `mission` | 2 items, 2 uploads, command queue of 2 | `CurrentInRange`, `NoStaleItems`, `CountsAgree` |
| `sensor_health` | timeouts of 2 readings, 2 errors, a poll in every reading, 3 frames, 2 overrides, SET_MODE, ARM and DISARM | `TornFrameReplaced`, `LinkLossNoticed`, `SilentImuLands`, `ImuJudgedRight` |
| `ground_link` | 2 stations, 8 requests, 3 packets, telemetry queue of 2, command queue of 1, 1 waiting answer, 2 passes | `StoresAgree`, `RefusedOnlyByRace`, `ImplementsFifo`, `ListComplete`, `NothingHeldForEver` |
| `rth_phase`, `boot_order`, `touchdown_without_baro`, `mission_upload` | the same models | one violated property each, section 7 |

Each passing run also checks the type invariant of its module.  The comment
over each property in its module says what it means for the code.

**Why the bounds are enough.**

- *uorb*: overtaking needs two publishers and two messages; a refused
  subscription a table smaller than the call sites; the second topic shows that
  mutexes of different topics do not interfere.  The proofs remove all bounds.
- *sysmon*: with one cycle of landing confirmation and two of ground station
  silence each timer can run, be interrupted, and expire.  The environment is
  unrestricted: every source may vanish and come back in any cycle.  The four
  frames differ in everything the monitor reads.  Proved for
  all values.
- *flight_ctrl*: the return altitude is one step above home, so all phases of a
  return are passed with home on the ground and in the air; two places
  separate home from elsewhere and from the initial 0, 0.  Proved for all values.
- *boot*: 1.2 s exceeds every delay of the scripts, so each order of each pair
  of start-up events occurs.  Proved for peripherals that take any time.
- *flight_system*: one step of confirmation, of detection and of ramp already
  needs several iterations of each task in the right order.  Two heights
  separate the ground from the air; one gust can lift a vehicle whose touchdown
  has been reported.  The second run has three heights, as without a barometer
  the detection must run out before the descent reaches the ground.  Only
  STABILIZE, MANUAL and LAND are flown: the others do not publish a touchdown.
    Its safety is proved for all values (`LandedDisarm` for a vehicle with a
  barometer, as part of `OnlyDetectedDisarm`).
- *mission*: two items give a first, a last and a past-the-end index; two
  uploads a longer after a shorter and the reverse; a queue of two overflows
  when an upload ends while the monitor is busy.
- *sensor_health*: a timeout of two readings has an age below it, one at it,
  where the verdict is open, and one above.  Both bounds are tight: with a
  reading less in `LinkLossNoticed` or `SilentImuLands` TLC finds a
  counterexample.  The frames differ in the arm channel and the failsafe flag, so
  that a mixture of two can be a frame nobody sent.  One mode to command,
  other than LAND, shows the exception `SilentImuLands` makes.  Proved for all values.
- *ground_link*: a telemetry queue of two distinguishes the oldest message from
  the newest, and the two producers fill it; a command queue of one is full
  with the first command.  Two stations are needed for one to draw the other's
  list away; three packets for a list, a change in the middle and another list.
  `MaxPackets` also makes the stations fall silent, which `NothingHeldForEver`
  is about.  One entry of the tables is shared and one on each side is not;
  values below and above the range are among the requests.  All but the
  liveness is proved for all values.

All runs check for deadlock; no passing run has one.

## 4 Fairness

Only `Uorb`, `FlightSystem` and `GroundLink` state fairness.

- `Uorb`: a publisher in its loop goes on (weak fairness of `PublishPush` and
  `PublishDone`): the loop has no wait, and the mutex gives its holder the
  priority of whoever waits.  A subscriber copies when there is something
  (`Copy`): each subscribing task polls in a periodic loop.  No fairness for
  publishing or subscribing.
- `FlightSystem`: each task's next step (`Monitor`, `Controller`,
  `ActuatorRuns`) and time (`Tick`): tasks are periodic with
  `vTaskDelayUntil` and leave the core idle most of the time.
  `MonitorPublishes` is weakly fair on its own: the loop over the commands
  takes what is in a queue of bounded length that is filled at the speed of a
  radio link, and so ends.  A stall is an input, not a lack of fairness: a
  controller that stalls for ever is allowed, and `EmergencyLandingEnds`
  excludes it in its premise, together with a ground station that keeps
  changing the mode.

- `GroundLink` (`GlFairSpec`): the handler's loop, the monitor and a producer
  inside `rpc_send_telemetry` each go on (weak fairness of `Handler`, `Monitor`,
  `SendStep(p)`): the waits of all three end by a timeout.  `SendNext` and
  `EndPass` are strongly fair, because a turn that comes less than 20 ms after
  the last value sends nothing (`TooEarly`), and each turn takes a millisecond
  or more, so not all of them can come too early.  No fairness for stations,
  nor for what producers offer.

## 5 Proofs

Every theorem holds for all values of the constants under the `ASSUME` of the
component's module: types of the constants; `MaxSubscribers`, `GcsTimeout`,
`RthAltitude`, `MaxItems` positive; home and origin among the places; in `Boot`
at least two entries in a topic's table (`ORB_MAX_SUBSCRIBERS` is 4, and no topic
there is subscribed to from more than two places); in `FlightSystem` no mode the
controller does not know (monitor and controller share `flight_mode_t`).
Every invariant and action property of a passing run is stated by a theorem, but
for `LandedDisarm`: as it stands it is false of today's build (run
`touchdown_without_baro`).  `DetectedDisarm` says what both builds guarantee and
has `LandedDisarm` as its last conjunct when there is a barometer.

| theorem | states | argument |
|---|---|---|
| `UorbProofs!TypeCorrect`, `NothingLost`, `MovesForward` | table bounded; no lost update; no step back | `IInv` below |
| `UorbProofs!Refinement` | the broker implements `LatestValue` | each step maps to one of the register's or stutters; a `Copy` reads between `stable` and `written` by `DeliveryInv` |
| `SysmonProofs!ImuLossLands`, `RcLossReturns`, `PilotHasTheSay`, `SwitchDisarms`, `ArmingIsSafe`, `HeldSwitchDoesNotArm`, `SysmonTypeCorrect` | the properties of run `sysmon` | `SysmonInv` |
| `FlightCtrlProofs!TouchdownIsReal`, `LoiterHolds`, `ReturnIsHome`, `FcTypeCorrect` | the properties of run `flight_ctrl` | `FcInv` |
| `FlightSystemProofs!SafeOutputs`, `PowerByRamp` | outputs and ramp in run `flight_system` | each conjunct of its own |
| `FlightSystemProofs!OnlyDetectedDisarm` | the automatic disarm ends a landing that is being flown, with or without a barometer | `LandingInv`; with one, `TouchInv` |
| `FlightSystemProofs!MonitorRefined`, `ControllerRefined` | the composed system implements the specifications of `Sysmon` and of `FlightCtrl` | each step is one of the component's or a stutter; `FsInv` |
| `FlightSystemProofs!SystemMonitorSafe`, `SystemControllerSafe` | the properties of both components hold in the composition | refinement |
| `FlightSystemProofs!ImuLossIsFlown`, `FsTypeCorrect` | the failsafe of a dead IMU reaches the collective; type invariant | `FlownInv`, `FsInv` |
| `SensorHealthProofs!TornFrame`, `LinkLoss`, `SilentImu`, `ImuJudged` | the properties of run `sensor_health` | `ShInv` |
| `SensorHealthProofs!ShTypeCorrect`, `ShMonitorSafe` | type invariant; the monitor's failsafes and the say of the pilot's two switches, with real messages as inputs | `ShTypes` |
| `GroundLinkProofs!RefusedByRace`, `FifoRefinement` | two producers on one queue | `QueueInv` |
| `GroundLinkProofs!CompleteList` | a list that ends is whole | `ListInv` |
| `GroundLinkProofs!StoresOfCores`, `GlTypeCorrect` | `StoresAgree`; type invariant | `StoreInv`; `GlInv` |
| `MissionProofs!IndexInRange`, `NothingStale`, `MissionTypeCorrect`, `LengthsAgree` | the properties of run `mission` | `ManagerInv`, `CountInv` |
| `BootProofs!BootUsesBroker` | the start-up scripts are clients of the broker: every boot is a behaviour of `Uorb` | each line of a script is a step of `Uorb` or a stutter |
| `BootProofs!ControlsAlwaysConnected`, `QuickSensorsAlwaysConnected`, `ControllerIsBlindToStatus` | the properties of run `boot` | `BootInv` |
| `BootProofs!LaterActuatorSeesStatus` | the actuator misses VEHICLE_STATUS only if its outputs start within a tick | `BootInv` |

*Uorb.*  `NoLostUpdate` is about topics nobody is publishing on, so a step that
ends a publication would have to re-establish it from nothing.  `IInv` adds
what holds in the middle: subscribers the loop has passed have received the
message being published, the others the one before (`Due`, `DeliveryInv`); this
needs that a topic has at most one publisher (`PublisherInv`) and that slots
and valid subscriptions correspond one to one (`TableInv`).

*Sysmon.*  The properties are about the end of a cycle.  `FailsafeDecided` says
what the failsafe step has fixed by the middle; the switches keep it because
only `NONE` and `BATTERY_LOW` let the pilot's switch through, and because arming
demands `rc_ok`.  `CriticalIsFailsafe` says that a critical battery is never a
benign failsafe, so that the switches let it land the vehicle whatever GCS
timeout renames it to.  `SwitchRemembered` ties `rc_arm_prev` to the histories:
it is set while a vehicle armed by its switch is flying, and, once a frame has
been read since the start, while the switch of a disarmed vehicle is held.  The
exception is real: a restart forgets `rc_arm_prev` and leaves the switch
(section 7, item 11).

*FlightCtrl.*  The properties are about one stay in a mode.  `PrevIsCurrent`
(`prev_mode` is the mode of the last status, in every branch, armed or not)
makes "entered" and "still there" exclude each other; `LatchTouched` carries
the touchdown latch through modes that neither use nor clear it.

*Mission.*  `ManagerInv` names the window in which the index may be out of
range, from the assignment of `s_count` to that of `s_current`, and that the
table is blank there, so that a wrong index reads nothing old.  The fact
that the other tasks leave the manager alone is a lemma (`Core1Step`).
`CountsAgree` is about empty queues.  On the way, `CountInv` reads core 1's
outbox behind the command queue as one sequence: its last command that resizes
the mission carries the length core 1 reports, or it has none and core 0 has
that length, perhaps in the call it is in the middle of.  Sending a command
does not change that sequence (`SentOn`), obeying one takes its head
(`DropFirst`).

*FlightSystem.*  `OutputsSafe` is inductive: `settled` says who has run since
the status changed, and the monitor does nothing to the others but to start that
anew (`MonitorLeaves`).  `SoftStart` rests on `SafeByWatchdog`: safe outputs of
an armed actuator are the watchdog's.  `LandingInv` carries a touchdown from the
controller's latch to the message the monitor confirms: such a message was sent
by the landing still being flown, since the controller replaces it as soon as
the mode or the arm state it reads changes, and the altitude read the ground in
that stay.  With a barometer its part `TouchInv` adds that the vehicle then was
there; without one the altitude is always 0, the proved statement says no more,
and run `touchdown_without_baro` shows what that allows.  The composition gives
each component inputs of its own making.  `FsInv` says that they are inputs the
component's module allows, so the system implements both specifications and
inherits their theorems.  What the components do not say alone is the chain from
one to the other: `FlownInv` follows a dead IMU from the monitor's decision to
the status it publishes (`DecisionPublished`), to the controller's copy
(`StatusCopied`), to the collective (`LandDescends`).  The second link needs
that the end of the step has seen the whole cycle (`CycleDone`).

*SensorHealth.*  `ImuPath` and `RcPath` say for each path where its newest message
is (the topic's queue, or already the monitor) and how old it may be, `Judged`
what the verdict of this cycle was based on.  No age changes between the verdict
and the end of the cycle, since only `ReadClock` lets messages get older.  Of the
commands in between only SET_MODE changes the mode, which `SilentImuLands`
excepts, and none arms a vehicle whose IMU is dead.
`FrameTypes` covers the frames nobody sent, mixtures and overrides: all are
within `AllFrames`, for which the lemmas about the monitor are stated, so its
own properties follow without a second proof.

*GroundLink.*  Seven kinds of step touch the telemetry queue, whatever else they
do (`TelemSteps`).  `SlotKept` says that the slot a producer made by discarding
is still there unless `stolen`; `InOrder` that the queue, and then the message
being sent, carry rising numbers of each producer.  `StoreInv` says of commands
on their way what `StoresAgree` says without: the last change of a parameter in
the queue carries the value of core 1, and core 0 has it if there is none.
`GlInv` joins the invariants of queue, list and stores with the shape of what
none of them needs; that a pass of a list never counts beyond its end is
`HandedShape`.

*Boot.*  Nothing in the scripts waits for anybody, so every property is about
lengths of delays.  `Paced` and its companions relate the delays still to pass:
the monitor's ends five ticks after the controller's, the actuator's no earlier,
and a sensor agent that took less than six ticks is through before the
controller wakes.  A boot is a behaviour of `Uorb`, so the broker's invariant is
at hand; with `Counted`, no table of a boot is ever full, and a refused
subscription means a topic not advertised.  The invariant leaves one handle
open: an actuator whose outputs start in the tick its task is created wakes in
the same tick as the monitor, and which of them runs first decides whether it
gets VEHICLE_STATUS.  TLC has both outcomes, and `StatusReachesActuator` says
that this is the only case.

**Model-checked only:** liveness (`EveryMessageArrives`, `EmergencyLandingEnds`,
`NothingHeldForEver`), which is out of the prover's reach, and the existence of
the behaviours of section 7.  No module here has a recursive operator.

## 6 What the models leave out

- Floating point: control laws, estimators, mixer, navigation.  The
  conditions their results are compared in are free inputs.
- Sub-100 ms timing in `FlightSystem`, except for the order of task steps.
  The age of the controls is two steps; at exactly one step the watchdog may
  or may not have fired.
- The contents of telemetry, status texts, calibration, file transfer.
- Saving parameters: nothing in `src/` sends `RPC_CMD_PARAM_SAVE` or calls
  `param_reset`, so flash holds no saved value in any state the code can reach.
- The byte framer of SBUS: `SensorHealth` starts from the frames it passes on.
- In `FlightSystem`, ages of sensors; in `SensorHealth`, touchdowns and the
  verdicts on barometer, GPS and battery: each leaves the other's part of
  `Sysmon` an open input.
- The values of parameters the monitor and the sensor agent read: thresholds and
  timeouts stay what they are in a behaviour.  PARAM_SET can change them in
  flight; a changed arm threshold only changes how a channel value reads, and
  any reading may arrive in any frame or override.
- REBOOT in `SensorHealth`: it puts every variable of the module back to an
  initial state, from which its properties start again.  `Sysmon` has the
  restart, with the histories that survive it, and `GroundLink` the packet.
- In `Mission`, a property that excludes the torn item: the controller may read
  one while the manager copies (`"torn"`), and the code does nothing against it.
- Preemption inside an iteration of a task that touches only its own variables.
- In `Sysmon` alone, where a health flag comes from; `SensorHealth` has that,
  with the wrap of the unsigned age.
- In `Mission`, everything the ground station sees, and fences and rally points.
- `src/framework`, `src/examples`, `src/esp32p4halow`, cameras, MAVLink codec:
  vendor code, demonstrations, generated code or pure I/O (reasons per part in
  PROJECT.json).  These are by far most of the repository's lines, so the
  definitions here stand for a small share of it all, but for most of the
  control flow of `src/esp32p4_heli_fc/main/agents`, `rpc` and `uorb`.

## 7 Disagreements found

1. **The controller is deaf to the arm state** (`boot_order`,
   `agents/flight_ctrl_agent.c:144`).  It subscribes to VEHICLE_STATUS half a
   second before the monitor advertises it, in every boot, and keeps NULL.
   The wait above it is meant "for topics to be advertised".
   `ControllerNeverSeesStatus` shows that this is not a race.
2. **Touchdown without a barometer** (`touchdown_without_baro`,
   `flight_ctrl_agent.c:500`).  The landing detector ignores `z_valid`; with the
   altitude stuck at 0 it reports a touchdown two seconds into any LAND, and
   three seconds of confirmation later the monitor disarms: about five seconds
   after the landing began, at whatever height.
3. **RTH continues an older return** (`rth_phase`, `flight_ctrl_agent.c:398`)
   when it is entered without a fix and the fix returns.
4. **A correct upload leaves blank waypoints** (`mission_upload`,
   `mission_mgr.c:86`): the items reach core 0 before the count that clears the
   table.

Found on the way, without a run of their own:

5. **MISSION_SET_CURRENT does not release a held waypoint.**
   `flight_ctrl_agent.c:672` says of an item without autocontinue "hold at this
   waypoint until GCS sends MISSION_SET_CURRENT to advance".  The command sets
   `s_current`, but the controller reads it on entry and after an advance of its
   own only (`EntryWp` in `Mission`): the vehicle holds until the mode changes,
   in a behaviour of 26 states with two complete uploads.
6. **MISSION entered without a fix resumes an earlier visit.**  `Hold` counts as
   entered (`flight_ctrl_agent.c:571`), so that `mission_wp_seq` stays what it
   was when the fix returns: a behaviour of `Mission` of 23 states.
7. **RC override is not what its comments say.**  `mavlink_handler.c:1465` to 1474
   speak of channels "normalized (-1000 to +1000)" and of 0 as a released one.
   1000 to 2000 arrive as -0.5 to 0.5 and 0 as the middle position, while the
   receiver's channels run from 0 to 1.  At the default `RC_ARM_TH` of 0.5 every
   value in range, and a released channel, reads as arm switch OFF: the override
   disarms a vehicle that was armed by its switch (`SwitchTakesBack`, with
   overrides among the frames in `SensorHealth!ShMonitorSafe`), and the next
   frame of a receiver whose switch is still on is an edge that arms it again if
   the checks pass.  The handler does not limit the value and `RC_ARM_TH` can be
   set from 0.1 to 0.9, so an override can also read as ON and arm; overrides
   are frames of any reading here.
8. **No value of a list is ever retried.**  The comment at `mavlink_handler.c:779`
   says "retry next iteration", but the sending function ignores the result of
   `gcs_bridge_send`.
9. **Parameters do not persist.**  `common/param.h:6` promises NVS persistence;
   nothing asks for a save (section 6).
10. **A change is confirmed before it is sent.**  PARAM_VALUE goes to the station
    before `rpc_send_command` may drop the command after 100 ms; the two stores
    also start with defaults of their own, and core 1 does not clamp
    (`StoresAgree` says when they agree none the less).
11. **A held switch arms after a restart.**  `sysmon_agent.c:509` says "Arm switch:
   CH5 rising edge above threshold".  `rc_arm_prev` starts as false (line 233), at
   power-on and after `RPC_CMD_REBOOT` (lines 682 to 687): a switch that is and
   stays on counts as an edge with the first healthy frame and arms at line 514,
   also after a landing or a DISARM that had left it on.  `NoArmingByHeldSwitch`
   excludes all other cases; the exception (`looked`) is in its statement.
12. **A switch that is off does not take back an ARM command.**  A vehicle armed by
   the ground station under a switch that is off sees no falling edge until the
   switch has been turned on and off again.  `SwitchTakesBack` is therefore
   about vehicles armed by their switch.

## 8 Plan

Done, in this order, the most important behaviour first: the broker, the
monitor, the controller, the composition, start-up, the mission; then proofs
about the composition, sensor health with the SBUS frame and the override, the
queues between the cores against a lossy FIFO, the parameter protocol with two
stores and several stations, and the rest of the proofs about the mission; then
the proofs about start-up, the refinement of the monitor and the controller by
their composition, and all type invariants.

What would come next:

1. A run that states the comment of disagreement 5 as a property, and the same
   for 6, once the code is to be mended.
2. `Boot` for any delays: `Paced` names the inequalities between the delays of
   the scripts that the proof uses; with the delays as constants they would
   become its assumptions.
3. Calibration and file transfer in the handler, which share its loop with the
   parameter list but no state with flight.
4. The autotune, once an agent calls it, and the event queue of the vendor's
   MAC, which is a project of its own.

Abstract specifications stated: the register of a topic, and the lossy FIFO of
the telemetry path.  One worth adding is, for the mission, a table that is
replaced at once; the code does not implement it (disagreement 4).
