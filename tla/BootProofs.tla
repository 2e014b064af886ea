----------------------------- MODULE BootProofs -----------------------------
(***************************************************************************)
(* For peripherals that take any time to start, tables of any size that    *)
(* holds the two subscribers a topic has here, and any set of publishers   *)
(* the broker lets in: which handles a boot leaves connected.              *)
(*                                                                         *)
(* The scripts do not wait for each other; what orders them is the length  *)
(* of their delays.  The invariant therefore relates the delays that are   *)
(* still to pass: the monitor's always ends five ticks after the           *)
(* controller's, the actuator's no earlier, and a sensor agent that took   *)
(* less than six ticks is through before the controller wakes.             *)
(***************************************************************************)
EXTENDS Boot, UorbProofs

(* Where the tasks are: in their scripts, and asleep only after a delay.   *)
BootShape ==
  /\ pc \in [BootTask -> 0 .. 7]
  /\ sleep \in [BootTask -> Nat]
  /\ slow \in [BootTask -> Nat]
  /\ dead \subseteq {"sensor", "actuator"}
  /\ pc["main"] \in 1 .. 6 /\ pc["sensor"] \in 0 .. 5 /\ pc["sysmon"] \in 0 .. 7
  /\ pc["flight_ctrl"] \in 0 .. 6 /\ pc["actuator"] \in 0 .. 5

Created ==
  /\ pc["sensor"] = 0 <=> pc["main"] = 1
  /\ pc["sysmon"] = 0 <=> pc["main"] <= 3
  /\ pc["flight_ctrl"] = 0 <=> pc["main"] <= 4
  /\ pc["actuator"] = 0 <=> pc["main"] <= 5

Awake ==
  /\ pc["main"] # 3 => sleep["main"] = 0
  /\ pc["sensor"] # 2 => sleep["sensor"] = 0
  /\ pc["sysmon"] # 2 => sleep["sysmon"] = 0
  /\ pc["flight_ctrl"] # 2 => sleep["flight_ctrl"] = 0
  /\ pc["actuator"] \notin {2, 3} => sleep["actuator"] = 0
  /\ sleep["flight_ctrl"] <= 5 /\ sleep["sysmon"] <= 10

(* The ticks until the controller and the monitor wake up, counted from    *)
(* the creation of the controller, and from power-on.                      *)
ControllerIn == IF pc["flight_ctrl"] <= 1 THEN 5 ELSE sleep["flight_ctrl"]

MonitorIn == IF pc["sysmon"] <= 1 THEN 10 ELSE sleep["sysmon"]

SinceBoot ==
  IF pc["main"] <= 2 THEN 6
  ELSE IF pc["main"] = 3 THEN sleep["main"] + 5 ELSE ControllerIn

Paced ==
  pc["flight_ctrl"] <= 5 =>
    /\ pc["sysmon"] <= 2 /\ MonitorIn = ControllerIn + 5
    /\ pc["actuator"] <= 3
    /\ pc["actuator"] = 3 => sleep["actuator"] >= ControllerIn + 5

SensorsPaced ==
  "sensor" \notin dead =>
    /\ pc["sensor"] <= 1 => SinceBoot = 6 /\ slow["sensor"] = 0
    /\ pc["sensor"] \in 2 .. 4 => SinceBoot + slow["sensor"] >= sleep["sensor"] + 6

(* An actuator whose outputs took a tick to start wakes after the monitor. *)
ActuatorPaced ==
  (slow["actuator"] > 0 /\ pc["sysmon"] <= 2) =>
    /\ pc["actuator"] <= 3
    /\ pc["actuator"] = 2 => sleep["actuator"] + 10 > MonitorIn
    /\ pc["actuator"] = 3 => sleep["actuator"] > MonitorIn

(* The scripts say what is advertised, and who can be in a topic's table. *)
Advertised ==
  /\ pc["flight_ctrl"] = 6 => "ACTUATOR_CONTROLS" \in advertised
  /\ pc["sysmon"] <= 2 <=> "VEHICLE_STATUS" \notin advertised
  /\ pc["sensor"] >= 3 => "SENSOR_IMU" \in advertised
  /\ pc["sensor"] >= 4 => "VEHICLE_ATTITUDE" \in advertised
  /\ pc["sensor"] = 5 => "RC_CHANNELS" \in advertised

Counted ==
  \A s \in BootSub : sub[s] # "valid" =>
    /\ count[TopicOf[s]] <= 1
    /\ \A r \in BootSub : (r # s /\ TopicOf[r] = TopicOf[s] /\ sub[r] # "valid") =>
         count[TopicOf[s]] = 0

Connected ==
  /\ ControlsConnected
  /\ QuickSensorsConnected
  /\ sub[Site("flight_ctrl", "VEHICLE_STATUS")] \in {"unsubscribed", "null"}

(* An actuator that waited a tick for its outputs asks for VEHICLE_STATUS  *)
(* when the monitor has advertised it.                                     *)
StatusReachesActuator ==
  slow["actuator"] > 0 => sub[Site("actuator", "VEHICLE_STATUS")] # "null"

NotAskedYet ==
  pc["actuator"] <= 2 => sub[Site("actuator", "VEHICLE_STATUS")] = "unsubscribed"

BootInv ==
  /\ BootShape /\ Created /\ Awake /\ Paced /\ SensorsPaced /\ ActuatorPaced
  /\ Advertised /\ Counted /\ Connected /\ StatusReachesActuator /\ NotAskedYet

-----------------------------------------------------------------------------
(* The constants, and the scripts line by line. *)
LEMMA Tasks ==
  /\ Pub = {"main", "sensor", "sysmon", "flight_ctrl", "actuator"}
  /\ Pub = BootTask /\ Sub = BootSub
  BY BootAssumption DEF BootTask

LEMMA SiteIsIn ==
  /\ Site("sysmon", "SENSOR_IMU") \in Sub /\ Site("sysmon", "RC_CHANNELS") \in Sub
  /\ Site("sysmon", "VEHICLE_ATTITUDE") \in Sub /\ Site("sysmon", "ACTUATOR_CONTROLS") \in Sub
  /\ Site("flight_ctrl", "VEHICLE_ATTITUDE") \in Sub
  /\ Site("flight_ctrl", "RC_CHANNELS") \in Sub /\ Site("flight_ctrl", "VEHICLE_STATUS") \in Sub
  /\ Site("actuator", "ACTUATOR_CONTROLS") \in Sub /\ Site("actuator", "VEHICLE_STATUS") \in Sub
  BY BootAssumption DEF BootSub, SensorTopics

LEMMA SiteParts ==
  /\ \A s \in BootSub : \E p \in BootTask, t \in BootTopic : s = Site(p, t)
  /\ \A p, t : Site(p, t) \in BootSub => TopicOf[Site(p, t)] = t
  BY BootAssumption DEF BootSub, BootTopicOf, BootTopic, BootTask, SensorTopics, Site

LEMMA Scripts ==
  /\ Script["main"] = MainScript /\ Script["sensor"] = SensorScript
  /\ Script["sysmon"] = SysmonScript /\ Script["flight_ctrl"] = FlightCtrlScript
  /\ Script["actuator"] = ActuatorScript
  BY DEF Script, BootTask

LEMMA ScriptLengths ==
  /\ Len(Script["main"]) = 5 /\ Len(Script["sensor"]) = 4 /\ Len(Script["sysmon"]) = 6
  /\ Len(Script["flight_ctrl"]) = 5 /\ Len(Script["actuator"]) = 4
  BY Scripts DEF MainScript, SensorScript, SysmonScript, FlightCtrlScript, ActuatorScript

(* What a task does at line i of its script. *)
Awakens(p, i) == pc[p] = i /\ sleep[p] = 0 /\ p \notin dead

Passes(p, i) == Awakens(p, i) /\ pc' = [pc EXCEPT ![p] = i + 1]

Creates(i, q) ==
  /\ Awakens("main", i)
  /\ pc' = [pc EXCEPT !["main"] = i + 1, ![q] = 1]
  /\ UNCHANGED <<orbVars, sleep, dead, slow>>

Sleeps(p, i, n) ==
  /\ Passes(p, i)
  /\ sleep' = [sleep EXCEPT ![p] = n]
  /\ UNCHANGED <<orbVars, dead, slow>>

SetsUp(p, i, n) ==
  /\ Passes(p, i)
  /\ sleep' = [sleep EXCEPT ![p] = n]
  /\ slow' = [slow EXCEPT ![p] = n]
  /\ UNCHANGED <<orbVars, dead>>

GivesUp(p, i) ==
  /\ Awakens(p, i)
  /\ dead' = dead \cup {p}
  /\ UNCHANGED <<orbVars, pc, sleep, slow>>

Goes(p, i) == Passes(p, i) /\ UNCHANGED <<sleep, dead, slow>>

Advertises(p, i, t) == Goes(p, i) /\ Advertise(p, t)

Begins(p, i, t) ==
  /\ Awakens(p, i)
  /\ SubscribeBegin(Site(p, t))
  /\ UNCHANGED <<pc, sleep, dead, slow>>

Returns(p, i, t) ==
  /\ Goes(p, i)
  /\ SubscribeRefused(Site(p, t)) \/ SubscribeRegister(Site(p, t))

Subscribes(p, i, t) == Begins(p, i, t) \/ Returns(p, i, t)

MainSteps ==
  \/ Creates(1, "sensor") \/ Sleeps("main", 2, 1)
  \/ Creates(3, "sysmon") \/ Creates(4, "flight_ctrl") \/ Creates(5, "actuator")

SensorSteps ==
  \/ GivesUp("sensor", 1) \/ \E n \in Nat : SetsUp("sensor", 1, n)
  \/ Advertises("sensor", 2, "SENSOR_IMU") \/ Advertises("sensor", 3, "VEHICLE_ATTITUDE")
  \/ Advertises("sensor", 4, "RC_CHANNELS")

SysmonSteps ==
  \/ Sleeps("sysmon", 1, 10) \/ Advertises("sysmon", 2, "VEHICLE_STATUS")
  \/ Subscribes("sysmon", 3, "SENSOR_IMU") \/ Subscribes("sysmon", 4, "RC_CHANNELS")
  \/ Subscribes("sysmon", 5, "VEHICLE_ATTITUDE")
  \/ Subscribes("sysmon", 6, "ACTUATOR_CONTROLS")

FlightCtrlSteps ==
  \/ Sleeps("flight_ctrl", 1, 5)
  \/ Subscribes("flight_ctrl", 2, "VEHICLE_ATTITUDE")
  \/ Subscribes("flight_ctrl", 3, "RC_CHANNELS")
  \/ Subscribes("flight_ctrl", 4, "VEHICLE_STATUS")
  \/ Advertises("flight_ctrl", 5, "ACTUATOR_CONTROLS")

ActuatorSteps ==
  \/ GivesUp("actuator", 1) \/ \E n \in Nat : SetsUp("actuator", 1, n)
  \/ Sleeps("actuator", 2, 10)
  \/ Subscribes("actuator", 3, "ACTUATOR_CONTROLS")
  \/ Subscribes("actuator", 4, "VEHICLE_STATUS")

(* A step of task p at line i, by the kind of the line. *)
LEMMA LineStep ==
  ASSUME NEW p \in Pub, BootStep(p), NEW i, pc[p] = i,
         NEW kind, Script[p][i][1] = kind, NEW arg, Script[p][i][2] = arg
  PROVE  /\ i \in 1 .. Len(Script[p])
         /\ \/ /\ kind = "start" /\ Awakens(p, i)
               /\ pc' = [pc EXCEPT ![p] = i + 1, ![arg] = 1]
               /\ UNCHANGED <<orbVars, sleep, dead, slow>>
            \/ kind = "wait" /\ Sleeps(p, i, arg)
            \/ kind = "init" /\ (GivesUp(p, i) \/ \E n \in Nat : SetsUp(p, i, n))
            \/ kind = "adv" /\ Advertises(p, i, arg)
            \/ kind = "sub" /\ Subscribes(p, i, arg)
<1> USE DEF NextStep, Ready, Alive, Advance, Arg, Awakens, Passes
<1>1. CASE Start(p)
  BY <1>1 DEF Start
<1>2. CASE Wait(p)
  BY <1>2 DEF Wait, Sleeps
<1>3. CASE Peripherals(p)
  BY <1>3, BootAssumption DEF Peripherals, GivesUp, SetsUp
<1>4. CASE AdvertiseStep(p)
  BY <1>4 DEF AdvertiseStep, Advertises, Goes
<1>5. CASE SubscribeStep(p)
  BY <1>5 DEF SubscribeStep, Subscribes, Begins, Returns, Goes
<1>6. QED
  BY <1>1, <1>2, <1>3, <1>4, <1>5 DEF BootStep

LEMMA MainLines ==
  ASSUME BootStep("main")
  PROVE  MainSteps
<1> DEFINE i == pc["main"]
<1>1. /\ i \in 1 .. Len(MainScript) /\ Script["main"][i] = MainScript[i]
      /\ "main" \in Pub
  BY Scripts, Tasks DEF BootStep, Start, Wait, Peripherals, AdvertiseStep, SubscribeStep,
     NextStep, Ready, Alive
<1>2. i \in 1 .. 5
  BY <1>1 DEF MainScript
<1> DEFINE line == Script["main"][i]
<1>3. \/ line[1] = "start" /\ i = 1 /\ line[2] = "sensor"
      \/ line[1] = "wait"  /\ i = 2 /\ line[2] = 1
      \/ line[1] = "start" /\ i = 3 /\ line[2] = "sysmon"
      \/ line[1] = "start" /\ i = 4 /\ line[2] = "flight_ctrl"
      \/ line[1] = "start" /\ i = 5 /\ line[2] = "actuator"
  BY <1>1, <1>2 DEF MainScript
<1> HIDE DEF i, line
<1>4. QED
  BY <1>1, <1>3, LineStep DEF MainSteps, Creates, i, line

LEMMA SensorLines ==
  ASSUME BootStep("sensor")
  PROVE  SensorSteps
<1> DEFINE i == pc["sensor"]
<1>1. /\ i \in 1 .. Len(SensorScript) /\ Script["sensor"][i] = SensorScript[i]
      /\ "sensor" \in Pub
  BY Scripts, Tasks DEF BootStep, Start, Wait, Peripherals, AdvertiseStep, SubscribeStep,
     NextStep, Ready, Alive
<1>2. i \in 1 .. 4
  BY <1>1 DEF SensorScript
<1> DEFINE line == Script["sensor"][i]
<1>3. \/ line[1] = "init" /\ i = 1
      \/ line[1] = "adv" /\ i = 2 /\ line[2] = "SENSOR_IMU"
      \/ line[1] = "adv" /\ i = 3 /\ line[2] = "VEHICLE_ATTITUDE"
      \/ line[1] = "adv" /\ i = 4 /\ line[2] = "RC_CHANNELS"
  BY <1>1, <1>2 DEF SensorScript
<1> HIDE DEF i, line
<1>4. QED
  BY <1>1, <1>3, LineStep DEF SensorSteps, i, line

LEMMA SysmonLines ==
  ASSUME BootStep("sysmon")
  PROVE  SysmonSteps
<1> DEFINE i == pc["sysmon"]
<1>1. /\ i \in 1 .. Len(SysmonScript) /\ Script["sysmon"][i] = SysmonScript[i]
      /\ "sysmon" \in Pub
  BY Scripts, Tasks DEF BootStep, Start, Wait, Peripherals, AdvertiseStep, SubscribeStep,
     NextStep, Ready, Alive
<1>2. i \in 1 .. 6
  BY <1>1 DEF SysmonScript
<1> DEFINE line == Script["sysmon"][i]
<1>3. \/ line[1] = "wait" /\ i = 1 /\ line[2] = 10
      \/ line[1] = "adv" /\ i = 2 /\ line[2] = "VEHICLE_STATUS"
      \/ line[1] = "sub" /\ i = 3 /\ line[2] = "SENSOR_IMU"
      \/ line[1] = "sub" /\ i = 4 /\ line[2] = "RC_CHANNELS"
      \/ line[1] = "sub" /\ i = 5 /\ line[2] = "VEHICLE_ATTITUDE"
      \/ line[1] = "sub" /\ i = 6 /\ line[2] = "ACTUATOR_CONTROLS"
  BY <1>1, <1>2 DEF SysmonScript
<1> HIDE DEF i, line
<1>4. QED
  BY <1>1, <1>3, LineStep DEF SysmonSteps, i, line

LEMMA FlightCtrlLines ==
  ASSUME BootStep("flight_ctrl")
  PROVE  FlightCtrlSteps
<1> DEFINE i == pc["flight_ctrl"]
<1>1. /\ i \in 1 .. Len(FlightCtrlScript) /\ Script["flight_ctrl"][i] = FlightCtrlScript[i]
      /\ "flight_ctrl" \in Pub
  BY Scripts, Tasks DEF BootStep, Start, Wait, Peripherals, AdvertiseStep, SubscribeStep,
     NextStep, Ready, Alive
<1>2. i \in 1 .. 5
  BY <1>1 DEF FlightCtrlScript
<1> DEFINE line == Script["flight_ctrl"][i]
<1>3. \/ line[1] = "wait" /\ i = 1 /\ line[2] = 5
      \/ line[1] = "sub" /\ i = 2 /\ line[2] = "VEHICLE_ATTITUDE"
      \/ line[1] = "sub" /\ i = 3 /\ line[2] = "RC_CHANNELS"
      \/ line[1] = "sub" /\ i = 4 /\ line[2] = "VEHICLE_STATUS"
      \/ line[1] = "adv" /\ i = 5 /\ line[2] = "ACTUATOR_CONTROLS"
  BY <1>1, <1>2 DEF FlightCtrlScript
<1> HIDE DEF i, line
<1>4. QED
  BY <1>1, <1>3, LineStep DEF FlightCtrlSteps, i, line

LEMMA ActuatorLines ==
  ASSUME BootStep("actuator")
  PROVE  ActuatorSteps
<1> DEFINE i == pc["actuator"]
<1>1. /\ i \in 1 .. Len(ActuatorScript) /\ Script["actuator"][i] = ActuatorScript[i]
      /\ "actuator" \in Pub
  BY Scripts, Tasks DEF BootStep, Start, Wait, Peripherals, AdvertiseStep, SubscribeStep,
     NextStep, Ready, Alive
<1>2. i \in 1 .. 4
  BY <1>1 DEF ActuatorScript
<1> DEFINE line == Script["actuator"][i]
<1>3. \/ line[1] = "init" /\ i = 1
      \/ line[1] = "wait" /\ i = 2 /\ line[2] = 10
      \/ line[1] = "sub" /\ i = 3 /\ line[2] = "ACTUATOR_CONTROLS"
      \/ line[1] = "sub" /\ i = 4 /\ line[2] = "VEHICLE_STATUS"
  BY <1>1, <1>2 DEF ActuatorScript
<1> HIDE DEF i, line
<1>4. QED
  BY <1>1, <1>3, LineStep DEF ActuatorSteps, i, line

LEMMA BootSteps ==
  ASSUME [BootNext]_bootVars
  PROVE  \/ MainSteps \/ SensorSteps \/ SysmonSteps \/ FlightCtrlSteps \/ ActuatorSteps
         \/ Tick \/ UNCHANGED bootVars
<1>1. ASSUME NEW p \in Pub, BootStep(p)
      PROVE  MainSteps \/ SensorSteps \/ SysmonSteps \/ FlightCtrlSteps \/ ActuatorSteps
  <2>1. \/ BootStep("main") \/ BootStep("sensor") \/ BootStep("sysmon")
        \/ BootStep("flight_ctrl") \/ BootStep("actuator")
    BY <1>1, Tasks
  <2>2. QED
    BY <2>1, MainLines, SensorLines, SysmonLines, FlightCtrlLines, ActuatorLines
<1>2. QED
  BY <1>1 DEF BootNext, BootDone

-----------------------------------------------------------------------------
(* Whatever the scripts do to the topics, they do through the broker: the  *)
(* boot is a behaviour of module Uorb, and inherits its invariants.        *)
LEMMA BrokerStep == [BootNext]_bootVars => [Next]_orbVars
<1> SUFFICES ASSUME [BootNext]_bootVars PROVE [Next]_orbVars
  OBVIOUS
<1>1. ASSUME NEW p \in Pub, NEW i, NEW t, Advertises(p, i, t) PROVE Next
  BY <1>1, UorbAssumption DEF Advertises, Advertise, Next, Advertising
<1>2. ASSUME NEW p, NEW i, NEW t, Site(p, t) \in Sub, Subscribes(p, i, t) PROVE Next
  BY <1>2 DEF Subscribes, Begins, Returns, Next, Subscribing
<1>3. CASE MainSteps \/ Tick \/ UNCHANGED bootVars
  BY <1>3 DEF MainSteps, Creates, Sleeps, Tick, bootVars
<1>4. CASE SensorSteps
  BY <1>1, <1>4, Tasks DEF SensorSteps, GivesUp, SetsUp
<1>5. CASE SysmonSteps
  BY <1>1, <1>2, <1>5, Tasks, SiteIsIn DEF SysmonSteps, Sleeps
<1>6. CASE FlightCtrlSteps
  BY <1>1, <1>2, <1>6, Tasks, SiteIsIn DEF FlightCtrlSteps, Sleeps
<1>7. CASE ActuatorSteps
  BY <1>2, <1>7, Tasks, SiteIsIn DEF ActuatorSteps, GivesUp, SetsUp, Sleeps
<1>8. QED
  BY <1>3, <1>4, <1>5, <1>6, <1>7, BootSteps

-----------------------------------------------------------------------------
ClockInv == BootShape /\ Created /\ Awake /\ Paced /\ SensorsPaced /\ ActuatorPaced

LEMMA GoesParts ==
  ASSUME BootShape, NEW p \in BootTask, NEW i \in 0 .. 6, Goes(p, i)
  PROVE  /\ pc[p] = i /\ sleep[p] = 0 /\ p \notin dead
         /\ pc'[p] = i + 1 /\ \A q \in BootTask \ {p} : pc'[q] = pc[q]
         /\ pc' \in [BootTask -> 0 .. 7]
         /\ sleep' = sleep /\ dead' = dead /\ slow' = slow
  BY DEF BootShape, Goes, Passes, Awakens

LEMMA ClockMain == ClockInv /\ MainSteps => ClockInv'
<1> SUFFICES ASSUME ClockInv, MainSteps PROVE ClockInv'
  OBVIOUS
<1> USE DEF ClockInv, BootShape, Created, Awake, Paced, SensorsPaced, ActuatorPaced,
   ControllerIn, MonitorIn, SinceBoot, Awakens, Passes, BootTask
<1>1. CASE Creates(1, "sensor")
  BY <1>1 DEF Creates
<1>2. CASE Sleeps("main", 2, 1)
  BY <1>2 DEF Sleeps
<1>3. CASE Creates(3, "sysmon")
  BY <1>3 DEF Creates
<1>4. CASE Creates(4, "flight_ctrl")
  BY <1>4 DEF Creates
<1>5. CASE Creates(5, "actuator")
  BY <1>5 DEF Creates
<1>6. QED
  BY <1>1, <1>2, <1>3, <1>4, <1>5 DEF MainSteps

LEMMA ClockTick == ClockInv /\ Tick => ClockInv'
<1> SUFFICES ASSUME ClockInv, Tick PROVE ClockInv'
  OBVIOUS
<1>1. \A p \in BootTask : (pc[p] \in 1 .. Len(Script[p]) /\ p \notin dead) => sleep[p] # 0
  BY Tasks DEF Tick, Ready, Alive
<1>2. pc["main"] # 6 => sleep["main"] # 0
  <2>1. pc["main"] \in 1 .. 6 /\ "main" \notin dead
    BY DEF ClockInv, BootShape
  <2>2. pc["main"] \in 1 .. 5 => sleep["main"] # 0
    BY <1>1, <2>1, ScriptLengths DEF BootTask
  <2>3. QED
    BY <2>1, <2>2
<1>3. (pc["sensor"] \in 1 .. 4 /\ "sensor" \notin dead) => sleep["sensor"] # 0
  BY <1>1, ScriptLengths DEF BootTask
<1>4. pc["sysmon"] \in 1 .. 6 => sleep["sysmon"] # 0
  BY <1>1, ScriptLengths DEF BootTask, ClockInv, BootShape
<1>5. pc["flight_ctrl"] \in 1 .. 5 => sleep["flight_ctrl"] # 0
  BY <1>1, ScriptLengths DEF BootTask, ClockInv, BootShape
<1>6. (pc["actuator"] \in 1 .. 4 /\ "actuator" \notin dead) => sleep["actuator"] # 0
  BY <1>1, ScriptLengths DEF BootTask
<1>7. /\ UNCHANGED <<pc, dead, slow>>
      /\ sleep' = [p \in BootTask |-> IF sleep[p] > 0 THEN sleep[p] - 1 ELSE 0]
  BY Tasks DEF Tick
<1>8. QED
  BY <1>2, <1>3, <1>4, <1>5, <1>6, <1>7 DEF ClockInv, BootShape, Created, Awake, Paced,
     SensorsPaced, ActuatorPaced, ControllerIn, MonitorIn, SinceBoot, BootTask

LEMMA ClockSensor == ClockInv /\ SensorSteps => ClockInv'
<1> SUFFICES ASSUME ClockInv, SensorSteps PROVE ClockInv'
  OBVIOUS
<1> USE DEF ClockInv, BootShape, Created, Awake, Paced, SensorsPaced, ActuatorPaced,
   ControllerIn, MonitorIn, SinceBoot, Awakens, Passes, BootTask
<1>1. CASE GivesUp("sensor", 1)
  BY <1>1 DEF GivesUp
<1>2. ASSUME NEW n \in Nat, SetsUp("sensor", 1, n) PROVE ClockInv'
  BY <1>2 DEF SetsUp
<1>3. ASSUME NEW i \in 2 .. 4, Goes("sensor", i) PROVE ClockInv'
  <2>1. /\ pc["sensor"] = i /\ pc'["sensor"] = i + 1
        /\ sleep["sensor"] = 0 /\ "sensor" \notin dead
        /\ pc' \in [BootTask -> 0 .. 7] /\ sleep' = sleep /\ dead' = dead /\ slow' = slow
        /\ pc'["main"] = pc["main"] /\ pc'["sysmon"] = pc["sysmon"]
        /\ pc'["flight_ctrl"] = pc["flight_ctrl"] /\ pc'["actuator"] = pc["actuator"]
    BY <1>3, GoesParts
  <2>2. QED
    BY <2>1
<1>4. QED
  BY <1>1, <1>2, <1>3 DEF SensorSteps, Advertises

LEMMA ClockSysmon == ClockInv /\ SysmonSteps => ClockInv'
<1> SUFFICES ASSUME ClockInv, SysmonSteps PROVE ClockInv'
  OBVIOUS
<1> USE DEF ClockInv, BootShape, Created, Awake, Paced, SensorsPaced, ActuatorPaced,
   ControllerIn, MonitorIn, SinceBoot, Awakens, Passes, BootTask
<1>1. CASE Sleeps("sysmon", 1, 10)
  BY <1>1 DEF Sleeps
<1>2. ASSUME NEW i \in 2 .. 6, Goes("sysmon", i) PROVE ClockInv'
  <2>1. /\ pc["sysmon"] = i /\ pc'["sysmon"] = i + 1
        /\ sleep["sysmon"] = 0 /\ "sysmon" \notin dead
        /\ pc' \in [BootTask -> 0 .. 7] /\ sleep' = sleep /\ dead' = dead /\ slow' = slow
        /\ pc'["main"] = pc["main"] /\ pc'["sensor"] = pc["sensor"]
        /\ pc'["flight_ctrl"] = pc["flight_ctrl"] /\ pc'["actuator"] = pc["actuator"]
    BY <1>2, GoesParts
  <2>2. QED
    BY <2>1
<1>3. CASE UNCHANGED <<pc, sleep, dead, slow>>
  BY <1>3
<1>4. QED
  BY <1>1, <1>2, <1>3 DEF SysmonSteps, Advertises, Subscribes, Begins, Returns

LEMMA ClockFlightCtrl == ClockInv /\ FlightCtrlSteps => ClockInv'
<1> SUFFICES ASSUME ClockInv, FlightCtrlSteps PROVE ClockInv'
  OBVIOUS
<1> USE DEF ClockInv, BootShape, Created, Awake, Paced, SensorsPaced, ActuatorPaced,
   ControllerIn, MonitorIn, SinceBoot, Awakens, Passes, BootTask
<1>1. CASE Sleeps("flight_ctrl", 1, 5)
  BY <1>1 DEF Sleeps
<1>2. ASSUME NEW i \in 2 .. 5, Goes("flight_ctrl", i) PROVE ClockInv'
  <2>1. /\ pc["flight_ctrl"] = i /\ pc'["flight_ctrl"] = i + 1
        /\ sleep["flight_ctrl"] = 0 /\ "flight_ctrl" \notin dead
        /\ pc' \in [BootTask -> 0 .. 7] /\ sleep' = sleep /\ dead' = dead /\ slow' = slow
        /\ pc'["main"] = pc["main"] /\ pc'["sensor"] = pc["sensor"]
        /\ pc'["sysmon"] = pc["sysmon"] /\ pc'["actuator"] = pc["actuator"]
    BY <1>2, GoesParts
  <2>2. QED
    BY <2>1
<1>3. CASE UNCHANGED <<pc, sleep, dead, slow>>
  BY <1>3
<1>4. QED
  BY <1>1, <1>2, <1>3 DEF FlightCtrlSteps, Advertises, Subscribes, Begins, Returns

LEMMA ClockActuator == ClockInv /\ ActuatorSteps => ClockInv'
<1> SUFFICES ASSUME ClockInv, ActuatorSteps PROVE ClockInv'
  OBVIOUS
<1> USE DEF ClockInv, BootShape, Created, Awake, Paced, SensorsPaced, ActuatorPaced,
   ControllerIn, MonitorIn, SinceBoot, Awakens, Passes, BootTask
<1>1. CASE GivesUp("actuator", 1)
  BY <1>1 DEF GivesUp
<1>2. ASSUME NEW n \in Nat, SetsUp("actuator", 1, n) PROVE ClockInv'
  BY <1>2 DEF SetsUp
<1>3. CASE Sleeps("actuator", 2, 10)
  BY <1>3 DEF Sleeps
<1>4. ASSUME NEW i \in 3 .. 4, Goes("actuator", i) PROVE ClockInv'
  <2>1. /\ pc["actuator"] = i /\ pc'["actuator"] = i + 1
        /\ sleep["actuator"] = 0 /\ "actuator" \notin dead
        /\ pc' \in [BootTask -> 0 .. 7] /\ sleep' = sleep /\ dead' = dead /\ slow' = slow
        /\ pc'["main"] = pc["main"] /\ pc'["sensor"] = pc["sensor"]
        /\ pc'["sysmon"] = pc["sysmon"] /\ pc'["flight_ctrl"] = pc["flight_ctrl"]
    BY <1>4, GoesParts
  <2>2. QED
    BY <2>1
<1>5. CASE UNCHANGED <<pc, sleep, dead, slow>>
  BY <1>5
<1>6. QED
  BY <1>1, <1>2, <1>3, <1>4, <1>5 DEF ActuatorSteps, Subscribes, Begins, Returns

LEMMA ClockStep == ClockInv /\ [BootNext]_bootVars => ClockInv'
<1>1. ClockInv /\ UNCHANGED bootVars => ClockInv'
  BY DEF bootVars, ClockInv, BootShape, Created, Awake, Paced, SensorsPaced, ActuatorPaced,
     ControllerIn, MonitorIn, SinceBoot
<1>2. QED
  BY <1>1, BootSteps, ClockMain, ClockSensor, ClockSysmon, ClockFlightCtrl, ClockActuator,
     ClockTick

LEMMA ClockInit == BootInit => ClockInv
  BY Tasks DEF BootInit, ClockInv, BootShape, Created, Awake, Paced, SensorsPaced,
     ActuatorPaced, ControllerIn, MonitorIn, SinceBoot, BootTask

-----------------------------------------------------------------------------
(* What the scripts do to the topics, and when. *)
LEMMA AdvertisedStep == ClockInv /\ Advertised /\ [BootNext]_bootVars => Advertised'
<1> SUFFICES ASSUME ClockInv, Advertised, [BootNext]_bootVars PROVE Advertised'
  OBVIOUS
<1> USE DEF Advertised, ClockInv, BootShape, Awakens, Passes, Goes, BootTask
<1>1. CASE MainSteps \/ Tick \/ UNCHANGED bootVars
  <2>1. CASE Creates(1, "sensor") \/ Sleeps("main", 2, 1)
    BY <2>1 DEF Creates, Sleeps, orbVars
  <2>2. CASE Creates(3, "sysmon")
    BY <2>2 DEF Creates, Created, orbVars
  <2>3. CASE Creates(4, "flight_ctrl") \/ Creates(5, "actuator")
    BY <2>3 DEF Creates, orbVars
  <2>4. CASE Tick \/ UNCHANGED bootVars
    BY <2>4 DEF Tick, bootVars, orbVars
  <2>5. QED
    BY <1>1, <2>1, <2>2, <2>3, <2>4 DEF MainSteps
<1>2. CASE SensorSteps
  <2>1. CASE GivesUp("sensor", 1) \/ \E n \in Nat : SetsUp("sensor", 1, n)
    BY <2>1 DEF GivesUp, SetsUp, orbVars
  <2>2. CASE Advertises("sensor", 2, "SENSOR_IMU")
    BY <2>2 DEF Advertises, Advertise
  <2>3. CASE Advertises("sensor", 3, "VEHICLE_ATTITUDE")
    BY <2>3 DEF Advertises, Advertise
  <2>4. CASE Advertises("sensor", 4, "RC_CHANNELS")
    BY <2>4 DEF Advertises, Advertise
  <2>5. QED
    BY <1>2, <2>1, <2>2, <2>3, <2>4 DEF SensorSteps
<1>3. ASSUME NEW p, NEW i, NEW t, Subscribes(p, i, t) PROVE advertised' = advertised
  BY <1>3 DEF Subscribes, Begins, Returns, SubscribeBegin, SubscribeRefused, SubscribeRegister
<1>4. CASE SysmonSteps
  <2>1. CASE Sleeps("sysmon", 1, 10)
    BY <2>1 DEF Sleeps, orbVars
  <2>2. CASE Advertises("sysmon", 2, "VEHICLE_STATUS")
    BY <2>2 DEF Advertises, Advertise
  <2>3. ASSUME NEW i \in 3 .. 6, NEW t, Subscribes("sysmon", i, t) PROVE Advertised'
    BY <1>3, <2>3 DEF Subscribes, Begins, Returns
  <2>4. QED
    BY <1>4, <2>1, <2>2, <2>3 DEF SysmonSteps
<1>5. CASE FlightCtrlSteps
  <2>1. CASE Sleeps("flight_ctrl", 1, 5)
    BY <2>1 DEF Sleeps, orbVars
  <2>2. CASE Advertises("flight_ctrl", 5, "ACTUATOR_CONTROLS")
    BY <2>2 DEF Advertises, Advertise
  <2>3. ASSUME NEW i \in 2 .. 4, NEW t, Subscribes("flight_ctrl", i, t) PROVE Advertised'
    BY <1>3, <2>3 DEF Subscribes, Begins, Returns
  <2>4. QED
    BY <1>5, <2>1, <2>2, <2>3 DEF FlightCtrlSteps
<1>6. CASE ActuatorSteps
  <2>1. CASE \/ GivesUp("actuator", 1) \/ Sleeps("actuator", 2, 10)
             \/ \E n \in Nat : SetsUp("actuator", 1, n)
    BY <2>1 DEF GivesUp, SetsUp, Sleeps, orbVars
  <2>2. ASSUME NEW i \in 3 .. 4, NEW t, Subscribes("actuator", i, t) PROVE Advertised'
    BY <1>3, <2>2 DEF Subscribes, Begins, Returns
  <2>3. QED
    BY <1>6, <2>1, <2>2 DEF ActuatorSteps
<1>7. QED
  BY <1>1, <1>2, <1>4, <1>5, <1>6, BootSteps

(* A topic has at most two call sites. *)
LEMMA TwoSites ==
  ASSUME NEW s \in BootSub, NEW r \in BootSub, NEW q \in BootSub,
         TopicOf[s] = TopicOf[r], TopicOf[r] = TopicOf[q]
  PROVE  s = r \/ r = q \/ s = q
  BY BootAssumption DEF BootSub, BootTopicOf, SensorTopics, Site

(* Only a subscription that registers counts, and it counts once. *)
LEMMA CountedStep == IInv /\ Counted /\ [BootNext]_bootVars => Counted'
<1> SUFFICES ASSUME IInv, Counted, [BootNext]_bootVars PROVE Counted'
  OBVIOUS
<1>1. CASE UNCHANGED <<sub, count>>
  BY <1>1 DEF Counted
<1>2. /\ TopicOf \in [BootSub -> Topic] /\ Sub = BootSub
      /\ count \in [Topic -> Nat]
      /\ sub \in [BootSub -> {"unsubscribed", "registering", "valid", "null"}]
  BY Tasks, UorbAssumption DEF IInv, TypeOK
<1>3. ASSUME NEW s \in BootSub, NEW x, x # "valid", sub[s] # "valid",
             sub' = [sub EXCEPT ![s] = x], count' = count
      PROVE  Counted'
  BY <1>2, <1>3 DEF Counted
<1>4. ASSUME NEW s \in BootSub, SubscribeRegister(s) PROVE Counted'
  <2>1. /\ sub[s] # "valid" /\ sub' = [sub EXCEPT ![s] = "valid"]
        /\ count' = [count EXCEPT ![TopicOf[s]] = @ + 1]
    BY <1>4 DEF SubscribeRegister
  <2>2. SUFFICES ASSUME NEW r \in BootSub, sub'[r] # "valid"
                 PROVE  /\ count'[TopicOf[r]] <= 1
                        /\ \A q \in BootSub :
                             (q # r /\ TopicOf[q] = TopicOf[r] /\ sub'[q] # "valid") =>
                               count'[TopicOf[r]] = 0
    BY DEF Counted
  <2>3. r # s /\ sub[r] # "valid"
    BY <1>2, <2>1, <2>2
  <2>4. CASE TopicOf[r] # TopicOf[s]
    BY <1>2, <2>1, <2>3, <2>4 DEF Counted
  <2>5. CASE TopicOf[r] = TopicOf[s]
    <3>1. count[TopicOf[r]] = 0
      BY <2>1, <2>3, <2>5 DEF Counted
    <3>2. count'[TopicOf[r]] = 1
      BY <1>2, <2>1, <2>5, <3>1
    <3>3. ASSUME NEW q \in BootSub, q # r, TopicOf[q] = TopicOf[r], sub'[q] # "valid"
          PROVE  FALSE
      <4>1. q # s
        BY <1>2, <2>1, <3>3
      <4>2. QED
        BY <2>3, <2>5, <3>3, <4>1, TwoSites
    <3>4. QED
      BY <3>2, <3>3
  <2>6. QED
    BY <2>4, <2>5
<1>5. ASSUME NEW s \in BootSub, SubscribeBegin(s) \/ SubscribeRefused(s) PROVE Counted'
  BY <1>3, <1>5 DEF SubscribeBegin, SubscribeRefused
<1>6. CASE Next
  BY <1>1, <1>2, <1>4, <1>5, <1>6 DEF Next, Advertising, Subscribing, Publishing, Copying,
     Advertise, PublishStore, PublishDone, PublishPush, Copy, CopyNothing, orbVars
<1>7. QED
  BY <1>1, <1>6, BrokerStep DEF orbVars

-----------------------------------------------------------------------------
(* What has been advertised when the tasks wake up.                        *)
SensorsQuick == "sensor" \notin dead /\ slow["sensor"] < 6

LEMMA ControllerFinds ==
  ASSUME ClockInv, Advertised, pc["flight_ctrl"] \in 2 .. 6, sleep["flight_ctrl"] = 0
  PROVE  SensorsQuick => SensorTopics \subseteq advertised
<1>1. SinceBoot = 0
  BY DEF ClockInv, BootShape, Created, SinceBoot, ControllerIn
<1>2. SensorsQuick => pc["sensor"] = 5
  BY <1>1, Tasks DEF ClockInv, BootShape, SensorsPaced, SensorsQuick, BootTask
<1>3. QED
  BY <1>2 DEF Advertised, SensorTopics

LEMMA MonitorFinds ==
  ASSUME ClockInv, Advertised, pc["sysmon"] \in 3 .. 6
  PROVE  /\ "ACTUATOR_CONTROLS" \in advertised
         /\ SensorsQuick => SensorTopics \subseteq advertised
<1>1. pc["flight_ctrl"] = 6
  BY DEF ClockInv, BootShape, Paced
<1>2. sleep["flight_ctrl"] = 0
  BY <1>1 DEF ClockInv, Awake
<1>3. QED
  BY <1>1, <1>2, ControllerFinds DEF Advertised

LEMMA ActuatorFinds ==
  ASSUME ClockInv, Advertised, pc["actuator"] \in 3 .. 4, sleep["actuator"] = 0
  PROVE  "ACTUATOR_CONTROLS" \in advertised
<1>1. pc["flight_ctrl"] = 6
  <2>1. SUFFICES ASSUME pc["flight_ctrl"] <= 5 PROVE FALSE
    BY DEF ClockInv, BootShape
  <2>2. pc["actuator"] = 3 /\ 0 >= ControllerIn + 5
    BY <2>1 DEF ClockInv, BootShape, Paced
  <2>3. ControllerIn \in Nat
    BY DEF ClockInv, BootShape, ControllerIn, BootTask
  <2>4. QED
    BY <2>2, <2>3
<1>2. QED
  BY <1>1 DEF Advertised

LEMMA NoStatusYet ==
  ASSUME ClockInv, Advertised, pc["flight_ctrl"] <= 5
  PROVE  "VEHICLE_STATUS" \notin advertised
  BY DEF ClockInv, Paced, Advertised

(* A call that returns NULL found its topic not advertised: the tables     *)
(* have room.                                                              *)
LEMMA CallEffect ==
  ASSUME IInv, Counted, NEW p, NEW i, NEW t, Site(p, t) \in Sub, Subscribes(p, i, t)
  PROVE  \E x : /\ sub' = [sub EXCEPT ![Site(p, t)] = x]
                /\ x = "null" => t \notin advertised
                /\ x # "null" => t \in advertised \/ sub[Site(p, t)] = "registering"
                /\ UNCHANGED <<dead, slow>>
<1> DEFINE s == Site(p, t)
<1>1. TopicOf[s] = t /\ s \in BootSub
  BY Tasks, SiteParts
<1>2. CASE SubscribeBegin(s)
  BY <1>1, <1>2 DEF SubscribeBegin, Subscribes, Begins, Returns, Goes
<1>3. CASE SubscribeRegister(s)
  BY <1>1, <1>3 DEF SubscribeRegister, Subscribes, Begins, Returns, Goes
<1>4. CASE SubscribeRefused(s)
  <2>1. sub[s] # "valid" /\ sub' = [sub EXCEPT ![s] = "null"]
    BY <1>4 DEF SubscribeRefused
  <2>2. count[t] <= 1 /\ count[t] \in Nat
    <3>1. count[t] <= 1
      BY <1>1, <2>1 DEF Counted
    <3>2. t \in Topic
      BY <1>1, UorbAssumption
    <3>3. QED
      BY <3>1, <3>2, UorbAssumption DEF IInv, TypeOK
  <2>3. t \notin advertised
    BY <1>1, <1>4, <2>2, BootAssumption, UorbAssumption DEF SubscribeRefused
  <2>4. QED
    BY <1>4, <2>1, <2>3 DEF Subscribes, Begins, Returns, Goes
<1>5. QED
  BY <1>2, <1>3, <1>4 DEF Subscribes, Begins, Returns

(* What a call must find, and what then stays true of the handles. *)
LEMMA CallKeepsConnected ==
  ASSUME IInv, Counted, Connected,
         NEW p, NEW i, NEW t, Site(p, t) \in Sub, Subscribes(p, i, t),
         t = "ACTUATOR_CONTROLS" => t \in advertised,
         (SensorsQuick /\ t \in SensorTopics) => t \in advertised,
         t = "VEHICLE_STATUS" /\ p = "flight_ctrl" => t \notin advertised
  PROVE  Connected'
<1> DEFINE s == Site(p, t)
           blind == Site("flight_ctrl", "VEHICLE_STATUS")
<1>1. s \in BootSub /\ blind \in BootSub /\ TopicOf[s] = t /\ DOMAIN sub = BootSub
  BY Tasks, SiteIsIn, SiteParts DEF IInv, TypeOK
<1>2. PICK x : /\ sub' = [sub EXCEPT ![s] = x]
               /\ x = "null" => t \notin advertised
               /\ x # "null" => t \in advertised \/ sub[s] = "registering"
               /\ UNCHANGED <<dead, slow>>
  BY CallEffect
<1>3. ControlsConnected'
  BY <1>1, <1>2 DEF Connected, ControlsConnected
<1>4. QuickSensorsConnected'
  BY <1>1, <1>2 DEF Connected, QuickSensorsConnected, SensorsQuick
<1>5. sub'[blind] \in {"unsubscribed", "null"}
  <2>1. CASE s = blind
    <3>1. t = "VEHICLE_STATUS" /\ p = "flight_ctrl"
      BY <2>1 DEF Site
    <3>2. x = "null"
      BY <1>2, <2>1, <3>1 DEF Connected
    <3>3. QED
      BY <1>1, <1>2, <2>1, <3>2
  <2>2. CASE s # blind
    BY <1>1, <1>2, <2>2 DEF Connected
  <2>3. QED
    BY <2>1, <2>2
<1>6. QED
  BY <1>3, <1>4, <1>5 DEF Connected

LEMMA ConnectedStep ==
  ClockInv /\ Advertised /\ IInv /\ Counted /\ Connected /\ [BootNext]_bootVars => Connected'
<1> SUFFICES ASSUME ClockInv, Advertised, IInv, Counted, Connected, [BootNext]_bootVars
             PROVE  Connected'
  OBVIOUS
<1> USE DEF Awakens, Passes, Goes
<1>1. CASE UNCHANGED <<sub, dead, slow>>
  BY <1>1 DEF Connected, ControlsConnected, QuickSensorsConnected
<1>2. ASSUME NEW p, NEW i, NEW t, Advertises(p, i, t) PROVE Connected'
  BY <1>1, <1>2 DEF Advertises, Advertise
<1>3. CASE MainSteps \/ Tick \/ UNCHANGED bootVars
  BY <1>1, <1>3 DEF MainSteps, Creates, Sleeps, Tick, bootVars, orbVars
<1>4. CASE SensorSteps
  <2>1. CASE GivesUp("sensor", 1)
    BY <2>1 DEF GivesUp, Connected, ControlsConnected, QuickSensorsConnected, orbVars
  <2>2. ASSUME NEW n \in Nat, SetsUp("sensor", 1, n) PROVE Connected'
    <3>1. "sensor" \notin dead /\ slow["sensor"] = 0
      BY <2>2 DEF SetsUp, ClockInv, SensorsPaced
    <3>2. \A s \in BootSub : TopicOf[s] \in SensorTopics => sub[s] # "null"
      BY <3>1 DEF Connected, QuickSensorsConnected
    <3>3. QED
      BY <2>2, <3>2 DEF SetsUp, Connected, ControlsConnected, QuickSensorsConnected, orbVars
  <2>3. QED
    BY <1>2, <1>4, <2>1, <2>2 DEF SensorSteps
<1>5. CASE SysmonSteps
  <2>1. ASSUME NEW i \in 3 .. 6, NEW t, Site("sysmon", t) \in Sub, Subscribes("sysmon", i, t)
        PROVE  Connected'
    <3>1. pc["sysmon"] \in 3 .. 6
      BY <2>1 DEF Subscribes, Begins, Returns
    <3>2. QED
      BY <2>1, <3>1, MonitorFinds, CallKeepsConnected
  <2>2. QED
    BY <1>1, <1>2, <1>5, <2>1, SiteIsIn DEF SysmonSteps, Sleeps, orbVars
<1>6. CASE FlightCtrlSteps
  <2>1. ASSUME NEW i \in 2 .. 4, NEW t, Site("flight_ctrl", t) \in Sub, t # "ACTUATOR_CONTROLS",
               Subscribes("flight_ctrl", i, t)
        PROVE  Connected'
    <3>1. pc["flight_ctrl"] \in 2 .. 4 /\ sleep["flight_ctrl"] = 0
      BY <2>1 DEF Subscribes, Begins, Returns
    <3>2. QED
      BY <2>1, <3>1, ControllerFinds, NoStatusYet, CallKeepsConnected
  <2>2. QED
    BY <1>1, <1>2, <1>6, <2>1, SiteIsIn DEF FlightCtrlSteps, Sleeps, orbVars
<1>7. CASE ActuatorSteps
  <2>1. ASSUME NEW i \in 3 .. 4, NEW t \in {"ACTUATOR_CONTROLS", "VEHICLE_STATUS"},
               Subscribes("actuator", i, t)
        PROVE  Connected'
    <3>1. pc["actuator"] \in 3 .. 4 /\ sleep["actuator"] = 0
      BY <2>1 DEF Subscribes, Begins, Returns
    <3>2. Site("actuator", t) \in Sub /\ t \notin SensorTopics
      BY <2>1, SiteIsIn DEF SensorTopics
    <3>3. QED
      BY <2>1, <3>1, <3>2, ActuatorFinds, CallKeepsConnected
  <2>2. CASE GivesUp("actuator", 1)
    BY <2>2 DEF GivesUp, Connected, ControlsConnected, QuickSensorsConnected, orbVars
  <2>3. ASSUME NEW n \in Nat, SetsUp("actuator", 1, n) PROVE Connected'
    <3>1. slow'["sensor"] = slow["sensor"] /\ dead' = dead /\ sub' = sub
      BY <2>3 DEF SetsUp, orbVars, ClockInv, BootShape, BootTask
    <3>2. QED
      BY <3>1 DEF Connected, ControlsConnected, QuickSensorsConnected
  <2>4. QED
    BY <1>1, <1>7, <2>1, <2>2, <2>3 DEF ActuatorSteps, Sleeps, orbVars
<1>8. QED
  BY <1>3, <1>4, <1>5, <1>6, <1>7, BootSteps

LEMMA StatusFound ==
  ASSUME ClockInv, Advertised, slow["actuator"] > 0, pc["actuator"] \in 3 .. 4,
         sleep["actuator"] = 0
  PROVE  "VEHICLE_STATUS" \in advertised
<1>1. pc["sysmon"] \in 0 .. 7 /\ MonitorIn \in Nat
  BY DEF ClockInv, BootShape, MonitorIn, BootTask
<1>2. ~(pc["sysmon"] <= 2)
  BY <1>1 DEF ClockInv, ActuatorPaced
<1>3. QED
  BY <1>2 DEF Advertised

LEMMA StatusReachesStep ==
  ASSUME ClockInv, Advertised, IInv, Counted, StatusReachesActuator, NotAskedYet,
         [BootNext]_bootVars
  PROVE  StatusReachesActuator' /\ NotAskedYet'
<1> DEFINE s == Site("actuator", "VEHICLE_STATUS")
<1> USE DEF StatusReachesActuator, NotAskedYet, Awakens, Passes, Goes
<1>1. s \in Sub /\ DOMAIN sub = Sub /\ pc \in [BootTask -> 0 .. 7] /\ slow \in [BootTask -> Nat]
  BY SiteIsIn DEF IInv, TypeOK, ClockInv, BootShape
<1>2. CASE sub' = sub /\ slow' = slow /\ (pc["actuator"] > 2 => pc'["actuator"] > 2)
           /\ pc'["actuator"] \in 0 .. 7
  BY <1>1, <1>2 DEF BootTask
<1>3. CASE MainSteps
  BY <1>1, <1>2, <1>3 DEF MainSteps, Creates, Sleeps, orbVars, BootTask, ClockInv, Created
<1>4. ASSUME NEW p \in {"sensor", "sysmon", "flight_ctrl"}, NEW i \in 1 .. 6, Goes(p, i),
             sub'[s] = sub[s]
      PROVE  StatusReachesActuator' /\ NotAskedYet'
  BY <1>1, <1>4 DEF BootTask
<1>5. ASSUME NEW p, NEW i, NEW t, Advertises(p, i, t) PROVE sub'[s] = sub[s]
  BY <1>5 DEF Advertises, Advertise
<1>6. ASSUME NEW p \in {"sysmon", "flight_ctrl"}, NEW i \in 1 .. 6, NEW t, Site(p, t) \in Sub,
             Subscribes(p, i, t)
      PROVE  StatusReachesActuator' /\ NotAskedYet'
  <2>1. Site(p, t) # s
    BY <1>6 DEF Site
  <2>2. sub'[s] = sub[s]
    BY <1>1, <1>6, <2>1, CallEffect
  <2>3. QED
    BY <1>1, <1>4, <1>6, <2>2 DEF Subscribes, Begins, Returns, BootTask
<1>7. CASE SensorSteps
  BY <1>1, <1>2, <1>4, <1>5, <1>7
  DEF SensorSteps, GivesUp, SetsUp, Advertises, orbVars, BootTask
<1>8. CASE SysmonSteps
  BY <1>1, <1>2, <1>4, <1>5, <1>6, <1>8, SiteIsIn
  DEF SysmonSteps, Sleeps, Advertises, orbVars, BootTask
<1>9. CASE FlightCtrlSteps
  BY <1>1, <1>2, <1>4, <1>5, <1>6, <1>9, SiteIsIn
  DEF FlightCtrlSteps, Sleeps, Advertises, orbVars, BootTask
<1>10. CASE ActuatorSteps
  <2>1. CASE GivesUp("actuator", 1) \/ Sleeps("actuator", 2, 10)
    BY <1>1, <2>1 DEF GivesUp, Sleeps, orbVars, BootTask
  <2>2. ASSUME NEW n \in Nat, SetsUp("actuator", 1, n)
        PROVE  StatusReachesActuator' /\ NotAskedYet'
    BY <1>1, <2>2 DEF SetsUp, orbVars, BootTask
  <2>3. ASSUME NEW i \in 3 .. 4, NEW t \in {"ACTUATOR_CONTROLS", "VEHICLE_STATUS"},
               Subscribes("actuator", i, t)
        PROVE  StatusReachesActuator' /\ NotAskedYet'
    <3>1. pc["actuator"] = i /\ pc'["actuator"] \in {i, i + 1} /\ sleep["actuator"] = 0
      BY <1>1, <2>3 DEF Subscribes, Begins, Returns, BootTask
    <3>2. Site("actuator", t) \in Sub
      BY <2>3, SiteIsIn
    <3>3. PICK x : /\ sub' = [sub EXCEPT ![Site("actuator", t)] = x]
                   /\ x = "null" => t \notin advertised
                   /\ slow' = slow
      BY <2>3, <3>2, CallEffect
    <3>4. slow["actuator"] > 0 => "VEHICLE_STATUS" \in advertised
      BY <2>3, <3>1, StatusFound
    <3>5. sub'[s] = IF t = "VEHICLE_STATUS" THEN x ELSE sub[s]
      BY <1>1, <3>3 DEF Site
    <3>6. QED
      BY <3>1, <3>3, <3>4, <3>5
  <2>4. QED
    BY <1>10, <2>1, <2>2, <2>3 DEF ActuatorSteps
<1>11. CASE Tick \/ UNCHANGED bootVars
  BY <1>11 DEF Tick, bootVars, orbVars
<1>12. QED
  BY <1>3, <1>7, <1>8, <1>9, <1>10, <1>11, BootSteps

LEMMA BootInitInv == BootInit => BootInv
<1> SUFFICES ASSUME BootInit PROVE BootInv
  OBVIOUS
<1>1. ClockInv
  BY ClockInit
<1>2. sub = [s \in BootSub |-> "unsubscribed"] /\ advertised = {} /\ count = [t \in Topic |-> 0]
  BY Tasks DEF BootInit, Init
<1>3. Advertised
  BY <1>1, <1>2, Tasks DEF Advertised, BootInit, BootTask
<1>4. Counted
  BY <1>2, Tasks, UorbAssumption DEF Counted
<1>5. Connected
  BY <1>2, Tasks, SiteIsIn DEF Connected, ControlsConnected, QuickSensorsConnected
<1>6. StatusReachesActuator /\ NotAskedYet
  BY <1>2, Tasks, SiteIsIn DEF StatusReachesActuator, NotAskedYet
<1>7. QED
  BY <1>1, <1>3, <1>4, <1>5, <1>6 DEF BootInv, ClockInv

LEMMA BootInvStep == IInv /\ BootInv /\ [BootNext]_bootVars => BootInv'
  BY ClockStep, AdvertisedStep, CountedStep, ConnectedStep, StatusReachesStep
  DEF BootInv, ClockInv

-----------------------------------------------------------------------------
(* The boot scripts are a client of the broker: every behaviour of theirs  *)
(* is one of module Uorb, whose theorems therefore hold of the boot.       *)
THEOREM BootUsesBroker == BootSpec => Spec
<1>1. BootInit => Init
  BY DEF BootInit
<1>2. QED
  BY <1>1, BrokerStep, PTL DEF BootSpec, Spec

(* The delays keep their order, nobody's table is full, and every handle   *)
(* is as the wake-up times say: the inductive invariant of the boot.       *)
THEOREM BootInvariant == BootSpec => []BootInv
<1>1. BootSpec => []IInv
  BY BootUsesBroker, InductiveInvariant, PTL
<1>2. QED
  BY <1>1, BootInitInv, BootInvStep, PTL DEF BootSpec

(* However long a peripheral takes, and even when one never starts, the    *)
(* actuator and the monitor get a handle on ACTUATOR_CONTROLS: the fixed   *)
(* delays of main.c and of the tasks make the controller advertise first.  *)
THEOREM ControlsAlwaysConnected == BootSpec => []ControlsConnected
<1>1. BootInv => ControlsConnected
  BY DEF BootInv, Connected
<1>2. QED
  BY <1>1, BootInvariant, PTL

(* A sensor agent that is up within 600 ms has every reader: no agent is   *)
(* left without the topics the sensor agent publishes.                     *)
THEOREM QuickSensorsAlwaysConnected == BootSpec => []QuickSensorsConnected
<1>1. BootInv => QuickSensorsConnected
  BY DEF BootInv, Connected
<1>2. QED
  BY <1>1, BootInvariant, PTL

(* In no boot does the flight controller get a handle on VEHICLE_STATUS:   *)
(* whatever the peripherals take, it asks 500 ms before the monitor        *)
(* advertises, and it never asks again.                                    *)
THEOREM ControllerIsBlindToStatus == BootSpec => []ControllerNeverSeesStatus
<1>1. BootInv => ControllerNeverSeesStatus
  BY DEF BootInv, Connected, ControllerNeverSeesStatus
<1>2. QED
  BY <1>1, BootInvariant, PTL

(* Only an actuator whose outputs start within the tick in which its task  *)
(* is created can miss VEHICLE_STATUS: its 1000 ms and the monitor's then  *)
(* end together, and which task comes first is not fixed by the code.      *)
THEOREM LaterActuatorSeesStatus == BootSpec => []StatusReachesActuator
<1>1. BootInv => StatusReachesActuator
  BY DEF BootInv
<1>2. QED
  BY <1>1, BootInvariant, PTL
=============================================================================
