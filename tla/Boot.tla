-------------------------------- MODULE Boot --------------------------------
(***************************************************************************)
(* How the agents of core 0 find each other's topics at power-on (main.c   *)
(* and the head of every agent's task): app_main starts the sensor agent,  *)
(* waits 100 ms and starts the others; each task waits a fixed time, then  *)
(* advertises and subscribes once.  A subscription that comes too early is *)
(* NULL for good.  This module runs those scripts against the broker.      *)
(*                                                                         *)
(* Time is counted in ticks of 100 ms, the unit of every delay here.  The  *)
(* code between two delays takes far less, so a tick passes only when      *)
(* every task waits; within a tick the tasks interleave in any order, for  *)
(* the ends of two delays of the same length are apart by the milliseconds *)
(* that creating a task and setting up the PWM take, and either task may   *)
(* come first.  What a peripheral takes to start, or whether it starts at  *)
(* all, is arbitrary up to MaxInit ticks.                                  *)
(***************************************************************************)
EXTENDS Uorb, Sequences

CONSTANT MaxInit   (* bound: ticks until a peripheral has started *)

(* The tasks, and the topics they meet at.  SENSOR_IMU stands for all the  *)
(* topics of the sensor agent that only the monitor reads.  Left out are   *)
(* BATTERY_STATUS, which nobody reads, AIRSPEED, which nobody publishes in *)
(* this build, SENSOR_GPS and VEHICLE_LOCAL_POSITION, which fare as        *)
(* VEHICLE_ATTITUDE does.                                                  *)
BootTask == {"main", "sensor", "sysmon", "flight_ctrl", "actuator"}
SensorTopics == {"VEHICLE_ATTITUDE", "SENSOR_IMU", "RC_CHANNELS"}
BootTopic == SensorTopics \cup {"ACTUATOR_CONTROLS", "VEHICLE_STATUS"}
BootPubTopics == [p \in BootTask |->
  CASE p = "sensor" -> SensorTopics
    [] p = "sysmon" -> {"VEHICLE_STATUS"}
    [] p = "flight_ctrl" -> {"ACTUATOR_CONTROLS"}
    [] OTHER -> {}]

(* A call site of orb_subscribe: the task and the topic. *)
Site(p, t) == <<p, t>>
BootSub ==
  {Site("flight_ctrl", t) : t \in {"VEHICLE_ATTITUDE", "RC_CHANNELS", "VEHICLE_STATUS"}}
    \cup {Site("sysmon", t) : t \in SensorTopics \cup {"ACTUATOR_CONTROLS"}}
    \cup {Site("actuator", t) : t \in {"ACTUATOR_CONTROLS", "VEHICLE_STATUS"}}
BootTopicOf == [s \in BootSub |-> s[2]]

ASSUME BootAssumption ==
  /\ Pub = BootTask /\ Sub = BootSub /\ TopicOf = BootTopicOf
  /\ MaxSubscribers >= 2   (* no topic has more than two call sites here *)
  /\ MaxInit \in Nat

(* The scripts.  <<"start", p>> creates task p; <<"wait", n>> is           *)
(* vTaskDelay; <<"init">> sets up peripherals; <<"adv", t>> and            *)
(* <<"sub", t>> call the broker.                                           *)
MainScript_NoDelay ==
  << <<"start", "sensor">>, <<"start", "sysmon">>, <<"start", "flight_ctrl">>,
     <<"start", "actuator">> >>

MainScript ==
  << <<"start", "sensor">>, <<"wait", 1>>, <<"start", "sysmon">>,
     <<"start", "flight_ctrl">>, <<"start", "actuator">> >>

SensorScript ==
  << <<"init">>, <<"adv", "SENSOR_IMU">>, <<"adv", "VEHICLE_ATTITUDE">>,
     <<"adv", "RC_CHANNELS">> >>

SysmonScript ==
  << <<"wait", 10>>, <<"adv", "VEHICLE_STATUS">>, <<"sub", "SENSOR_IMU">>,
     <<"sub", "RC_CHANNELS">>, <<"sub", "VEHICLE_ATTITUDE">>,
     <<"sub", "ACTUATOR_CONTROLS">> >>

FlightCtrlScript_Late ==
  << <<"wait", 15>>, <<"sub", "VEHICLE_ATTITUDE">>, <<"sub", "RC_CHANNELS">>,
     <<"sub", "VEHICLE_STATUS">>, <<"adv", "ACTUATOR_CONTROLS">> >>

FlightCtrlScript ==
  << <<"wait", 5>>, <<"sub", "VEHICLE_ATTITUDE">>, <<"sub", "RC_CHANNELS">>,
     <<"sub", "VEHICLE_STATUS">>, <<"adv", "ACTUATOR_CONTROLS">> >>

ActuatorScript ==
  << <<"init">>, <<"wait", 10>>, <<"sub", "ACTUATOR_CONTROLS">>,
     <<"sub", "VEHICLE_STATUS">> >>

Script == [p \in BootTask |->
  CASE p = "main" -> MainScript
    [] p = "sensor" -> SensorScript
    [] p = "sysmon" -> SysmonScript
    [] p = "flight_ctrl" -> FlightCtrlScript
    [] p = "actuator" -> ActuatorScript]

VARIABLES
  pc,     (* pc[p]: the next step of task p, 0 until it is created          *)
  sleep,  (* sleep[p]: ticks task p still waits                             *)
  dead,   (* the tasks that gave up: their peripherals did not start        *)
  slow    (* history: slow[p], ticks the peripherals of p took              *)

bootVars == <<orbVars, pc, sleep, dead, slow>>

BootInit ==
  /\ Init
  /\ pc = [p \in Pub |-> IF p = "main" THEN 1 ELSE 0]
  /\ sleep = [p \in Pub |-> 0]
  /\ dead = {}
  /\ slow = [p \in Pub |-> 0]

Alive(p) == pc[p] \in 1 .. Len(Script[p]) /\ p \notin dead
Ready(p) == Alive(p) /\ sleep[p] = 0
NextStep(p, kind) == Ready(p) /\ Script[p][pc[p]][1] = kind
Arg(p) == Script[p][pc[p]][2]
Advance(p) == pc' = [pc EXCEPT ![p] = @ + 1]

(* xTaskCreatePinnedToCoreWithCaps *)
Start(p) ==
  /\ NextStep(p, "start")
  /\ pc' = [pc EXCEPT ![p] = @ + 1, ![Arg(p)] = 1]
  /\ UNCHANGED <<orbVars, sleep, dead, slow>>

(* vTaskDelay *)
Wait(p) ==
  /\ NextStep(p, "wait")
  /\ Advance(p)
  /\ sleep' = [sleep EXCEPT ![p] = Arg(p)]
  /\ UNCHANGED <<orbVars, dead, slow>>

(* The I2C bus and the devices, or the PWM timers: a failure ends the task *)
(* (vTaskDelete).                                                          *)
Peripherals(p) ==
  /\ NextStep(p, "init")
  /\ \/ \E n \in 0 .. MaxInit :
          /\ Advance(p)
          /\ sleep' = [sleep EXCEPT ![p] = n]
          /\ slow' = [slow EXCEPT ![p] = n]
          /\ UNCHANGED dead
     \/ /\ dead' = dead \cup {p}
        /\ UNCHANGED <<pc, sleep, slow>>
  /\ UNCHANGED orbVars

AdvertiseStep(p) ==
  /\ NextStep(p, "adv")
  /\ Advertise(p, Arg(p))
  /\ Advance(p)
  /\ UNCHANGED <<sleep, dead, slow>>

(* The call returns a handle or NULL; nobody looks which. *)
SubscribeStep(p) ==
  /\ NextStep(p, "sub")
  /\ LET s == Site(p, Arg(p)) IN
       \/ SubscribeBegin(s) /\ UNCHANGED pc
       \/ SubscribeRefused(s) /\ Advance(p)
       \/ SubscribeRegister(s) /\ Advance(p)
  /\ UNCHANGED <<sleep, dead, slow>>

Tick ==
  /\ \A p \in Pub : ~Ready(p)
  /\ \E p \in Pub : Alive(p)
  /\ sleep' = [p \in Pub |-> IF sleep[p] > 0 THEN sleep[p] - 1 ELSE 0]
  /\ UNCHANGED <<orbVars, pc, dead, slow>>

BootStep(p) ==
  \/ Start(p) \/ Wait(p) \/ Peripherals(p) \/ AdvertiseStep(p) \/ SubscribeStep(p)

(* Every script is at its end: the agents run their loops, which this      *)
(* module leaves out.                                                      *)
BootDone ==
  /\ \A p \in Pub : ~Alive(p)
  /\ UNCHANGED bootVars

BootNext == Tick \/ BootDone \/ \E p \in Pub : BootStep(p)

BootSpec == BootInit /\ [][BootNext]_bootVars

-----------------------------------------------------------------------------
(* ACTUATOR_CONTROLS reaches the actuator and the monitor after every      *)
(* boot, whatever the peripherals take: without it neither the watchdog    *)
(* nor the landing detection would ever see the controller.                *)
ControlsConnected ==
  \A s \in BootSub : TopicOf[s] = "ACTUATOR_CONTROLS" => sub[s] # "null"

(* If the sensors start before the controller's 500 ms and the main task's *)
(* 100 ms are over, nobody misses a topic of the sensor agent.             *)
QuickSensorsConnected ==
  ("sensor" \notin dead /\ slow["sensor"] < 6) =>
    \A s \in BootSub : TopicOf[s] \in SensorTopics => sub[s] # "null"

(* The controller subscribes to VEHICLE_STATUS 500 ms before the monitor   *)
(* advertises it: in every boot its handle is NULL, and it goes on with    *)
(* the disarmed status of its initial values.                              *)
ControllerNeverSeesStatus == sub[Site("flight_ctrl", "VEHICLE_STATUS")] # "valid"

(* The wait before the subscriptions is there "for topics to be advertised *)
(* by other agents": no agent is left with a NULL handle when all          *)
(* peripherals started in time.                                            *)
WaitsSuffice ==
  (dead = {} /\ \A p \in BootTask : slow[p] < 5) => \A s \in BootSub : sub[s] # "null"
=============================================================================
