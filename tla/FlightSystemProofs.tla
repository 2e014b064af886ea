------------------------ MODULE FlightSystemProofs -------------------------
(***************************************************************************)
(* For any timers, health patterns, flight modes, altitudes and gusts: the *)
(* outputs are safe when they have to be, power returns by the ramp, and   *)
(* the monitor ends by itself only what the controller flies as a landing  *)
(* and has seen at the ground, which with a barometer it is.               *)
(*                                                                         *)
(* Each property concerns few of the variables, which only one task writes *)
(* between two publications: the monitor is told apart by what it leaves   *)
(* alone, and the controller by what it may report.                        *)
(*                                                                         *)
(* The system is also shown to be a behaviour of the monitor's module and  *)
(* of the controller's: what the proofs of these say of the agents in an   *)
(* environment that can do anything holds of the agents that fly together. *)
(***************************************************************************)
EXTENDS FlightSystem, SysmonProofs, FlightCtrlProofs

(* The monitor writes none of the other tasks' variables but the status    *)
(* and the queue it empties.                                               *)
LEMMA MonitorLeaves ==
  ASSUME Monitor \/ MonitorObeys
  PROVE  /\ UNCHANGED <<fcVars, actVars, touch, height, ctlSeen, ctlAge>>
         /\ \/ UNCHANGED <<status, settled>>
            \/ settled' = {}
  BY DEF Monitor, MonitorObeys, MonitorSenses, MonitorSwitches,
     MonitorPublishes, linkVars, envVars

-----------------------------------------------------------------------------
(* At the end of every 100 ms the outputs are safe if they have to be, for *)
(* any number of iterations of the tasks in any order.                     *)
THEOREM SafeOutputs == FsSpec => []OutputsSafe
<1>1. FsInit => OutputsSafe
  BY DEF FsInit, OutputsSafe
<1>2. OutputsSafe /\ [FsNext]_sysmVars => OutputsSafe'
  <2> SUFFICES ASSUME OutputsSafe, [FsNext]_sysmVars PROVE OutputsSafe'
    OBVIOUS
  <2>1. CASE Monitor \/ MonitorObeys
    <3>1. UNCHANGED <<pwm, ctlSeen, ctlAge>>
          /\ (UNCHANGED <<status, settled>> \/ settled' = {})
      BY <2>1, MonitorLeaves DEF actVars
    <3>2. QED
      BY <3>1 DEF OutputsSafe
  <2>2. CASE Controller
    <3>1. ctlAge' = 0 /\ settled' = settled \cup {"controller"}
          /\ UNCHANGED <<pwm, status>>
      BY <2>2 DEF Controller, actVars
    <3>2. QED
      BY <3>1 DEF OutputsSafe
  <2>3. CASE ActuatorRuns
    <3>1. PICK stale \in Stale : ActIteration(status.armed, stale)
      BY <2>3 DEF ActuatorRuns
    <3>2. UNCHANGED <<status, ctlSeen, ctlAge>>
      BY <2>3 DEF ActuatorRuns, linkVars
    <3>3. ~status.armed \/ stale => pwm' = "safe"
      BY <3>1 DEF ActIteration
    <3>4. ctlSeen /\ ctlAge = 2 => stale
      BY DEF Stale
    <3>5. QED
      BY <3>2, <3>3, <3>4 DEF OutputsSafe
  <2>4. CASE Tick
    BY <2>4 DEF Tick, OutputsSafe
  <2>5. CASE UNCHANGED sysmVars
    BY <2>5 DEF sysmVars, actVars, linkVars, envVars, OutputsSafe
  <2>6. QED
    BY <2>1, <2>2, <2>3, <2>4, <2>5 DEF FsNext
<1>3. QED
  BY <1>1, <1>2, PTL DEF FsSpec

-----------------------------------------------------------------------------
(* An armed actuator with safe outputs has the watchdog to thank.          *)
SafeByWatchdog == (prevArmed /\ pwm = "safe") => tripped

(* Full power never follows safe outputs directly unless the watchdog had  *)
(* cut in, whatever the time of the ramp.                                  *)
THEOREM PowerByRamp == FsSpec => SoftStart
<1>1. FsInit => SafeByWatchdog
  BY DEF FsInit, ActInit, SafeByWatchdog
<1>2. ASSUME NEW a, NEW stale, ActIteration(a, stale), SafeByWatchdog
      PROVE  SafeByWatchdog' /\ ((pwm = "safe" /\ pwm' = "full") => tripped)
  <2>1. pwm' = "full" => prevArmed
    BY <1>2, ActuatorAssumption DEF ActIteration
  <2>2. (prevArmed' /\ pwm' = "safe") => tripped'
    BY <1>2 DEF ActIteration
  <2>3. QED
    BY <1>2, <2>1, <2>2 DEF SafeByWatchdog
<1>3. SafeByWatchdog /\ [FsNext]_sysmVars =>
        SafeByWatchdog' /\ [(pwm = "safe" /\ pwm' = "full") => tripped]_sysmVars
  <2> SUFFICES ASSUME SafeByWatchdog, [FsNext]_sysmVars
               PROVE  SafeByWatchdog' /\ ((pwm = "safe" /\ pwm' = "full") => tripped)
    OBVIOUS
  <2>1. CASE ActuatorRuns
    BY <1>2, <2>1 DEF ActuatorRuns
  <2>2. CASE UNCHANGED <<prevArmed, pwm, tripped>>
    BY <2>2 DEF SafeByWatchdog
  <2>3. CASE Monitor \/ MonitorObeys
    BY <2>2, <2>3, MonitorLeaves DEF actVars
  <2>4. CASE Controller \/ Tick
    BY <2>2, <2>4 DEF Controller, Tick, ActClock, actVars
  <2>5. CASE UNCHANGED sysmVars
    BY <2>2, <2>5 DEF sysmVars, actVars
  <2>6. QED
    BY <2>1, <2>3, <2>4, <2>5 DEF FsNext
<1>4. QED
  BY <1>1, <1>3, PTL DEF FsSpec, SoftStart

-----------------------------------------------------------------------------
(* What the controller reports, and what it will report if it stays in     *)
(* LAND, was touched in this landing.                                      *)
TouchInv ==
  /\ controls.landed => touch
  /\ (landDet /\ prevMode = "LAND") => touch

LEMMA ControllerTouches ==
  ASSUME BaroConnected, TouchInv, Controller
  PROVE  TouchInv'
<1>1. /\ FcIteration(status, NoFix, height, FALSE)
      /\ touch' = (height = 0 \/ (touch /\ status.armed /\ status.mode = "LAND"
                                    /\ prevMode = "LAND"))
  BY DEF Controller, Altimeter
<1>2. CASE Disarmed(status, NoFix, height)
  BY <1>2 DEF Disarmed, Send, TouchInv
<1>3. CASE Land(status, NoFix, height)
  <2>1. status.armed /\ status.mode = "LAND"
    BY <1>3 DEF Land, Armed
  <2>2. /\ landDet' => height = 0 \/ (prevMode = "LAND" /\ landDet)
        /\ controls'.landed = landDet'
    BY <1>3 DEF Land, Send
  <2>3. landDet' => touch'
    BY <1>1, <2>1, <2>2 DEF TouchInv
  <2>4. QED
    BY <2>2, <2>3 DEF TouchInv
<1>4. ASSUME NEW m, m # "LAND", prevMode' = m, ~controls'.landed PROVE TouchInv'
  BY <1>4 DEF TouchInv
<1>5. CASE Sticks(status, NoFix, height)
  BY <1>4, <1>5 DEF Sticks, Armed, Send
<1>6. CASE Loiter(status, NoFix, height)
  BY <1>4, <1>6 DEF Loiter, Armed, Send
<1>7. CASE RthHold(status, NoFix, height) \/ RthReturn(status, NoFix, height)
  BY <1>4, <1>7 DEF RthHold, RthReturn, Armed, Send
<1>8. CASE MissionHold(status, NoFix, height, FALSE) \/ MissionFly(status, NoFix, height, FALSE)
  BY <1>4, <1>8 DEF MissionHold, MissionFly, Armed, Send
<1>9. QED
  BY <1>1, <1>2, <1>3, <1>5, <1>6, <1>7, <1>8 DEF FcIteration

LEMMA TouchStep ==
  ASSUME BaroConnected, TouchInv, [FsNext]_sysmVars
  PROVE  TouchInv'
<1>1. CASE UNCHANGED <<controls, landDet, prevMode, touch>>
  BY <1>1 DEF TouchInv
<1>2. CASE Monitor \/ MonitorObeys
  BY <1>1, <1>2, MonitorLeaves DEF fcVars
<1>3. CASE ActuatorRuns \/ Tick
  BY <1>1, <1>3 DEF ActuatorRuns, Tick, FcClock, fcVars
<1>4. CASE UNCHANGED sysmVars
  BY <1>1, <1>4 DEF sysmVars, fcVars
<1>5. QED
  BY <1>2, <1>3, <1>4, ControllerTouches DEF FsNext

-----------------------------------------------------------------------------
(* In the system, each agent does what its module says it can do.          *)
LEMMA SystemMonitor == [FsNext]_sysmVars => [SysmonNext]_sysVars
<1> SUFFICES ASSUME [FsNext]_sysmVars PROVE [SysmonNext]_sysVars
  OBVIOUS
<1>1. CASE MonitorSenses
  <2>1. PICK fresh \in Fresh : \E frame \in IF "rc" \in fresh THEN Frames ELSE {rc} :
          Sense("good", fresh, frame, FALSE)
    BY <1>1 DEF MonitorSenses
  <2>2. PICK frame \in Frames \cup {rc} : Sense("good", fresh, frame, FALSE)
    BY <2>1
  <2>3. fresh \in SUBSET Sources /\ "good" \in Batteries /\ FALSE \in BOOLEAN
    BY FlightSystemAssumption DEF Batteries
  <2>4. QED
    BY <2>2, <2>3 DEF SysmonNext
<1>2. CASE MonitorSwitches
  <2>1. (ctlNew /\ controls.landed) \in BOOLEAN
    OBVIOUS
  <2>2. QED
    BY <1>2, <2>1 DEF MonitorSwitches, SysmonNext
<1>3. CASE MonitorPublishes
  BY <1>3 DEF MonitorPublishes, SysmonNext
<1>4. CASE MonitorObeys
  BY <1>4 DEF MonitorObeys, SysmonNext, Command, Obey
<1>5. CASE Controller \/ ActuatorRuns \/ Tick \/ UNCHANGED sysmVars
  BY <1>5 DEF Controller, ActuatorRuns, Tick, sysmVars
<1>6. QED
  BY <1>1, <1>2, <1>3, <1>4, <1>5 DEF FsNext, Monitor

LEMMA SystemController ==
  status \in Status /\ height \in Altitudes /\ [FsNext]_sysmVars => [FcNext]_fcVars
<1> SUFFICES ASSUME status \in Status, height \in Altitudes, [FsNext]_sysmVars
             PROVE  [FcNext]_fcVars
  OBVIOUS
<1>1. CASE Controller
  <2>1. NoFix \in Gps
    BY FlightCtrlAssumption DEF NoFix, Gps
  <2>2. Altimeter \in Altitudes
    BY FlightCtrlAssumption DEF Altimeter, Altitudes
  <2>3. FcIteration(status, NoFix, Altimeter, FALSE)
    BY <1>1 DEF Controller
  <2>4. QED
    BY <2>1, <2>2, <2>3 DEF FcNext
<1>2. CASE Tick
  BY <1>2 DEF Tick, FcNext
<1>3. CASE Monitor \/ MonitorObeys
  BY <1>3, MonitorLeaves
<1>4. CASE ActuatorRuns \/ UNCHANGED sysmVars
  BY <1>4 DEF ActuatorRuns, sysmVars
<1>5. QED
  BY <1>1, <1>2, <1>3, <1>4 DEF FsNext

(* What the agents tell each other, and the vehicle's place in the world.  *)
LinkTypeOK ==
  /\ status \in Status
  /\ ctlNew \in BOOLEAN /\ ctlSeen \in BOOLEAN
  /\ ctlNew => ctlSeen
  /\ ctlAge \in 0 .. 2

EnvTypeOK ==
  /\ stalled \in BOOLEAN /\ due \in BOOLEAN
  /\ settled \subseteq {"controller", "actuator"}
  /\ height \in Altitudes /\ gusts \in 0 .. MaxGusts

ActTypeOK ==
  /\ prevArmed \in BOOLEAN /\ spool \in 0 .. SpoolTime
  /\ pwm \in {"safe", "ramp", "full"} /\ tripped \in BOOLEAN

FsInv == SysmonInv /\ FcInv /\ LinkTypeOK /\ EnvTypeOK /\ ActTypeOK

LEMMA FsInitInv == FsInit => FsInv
<1> SUFFICES ASSUME FsInit PROVE FsInv
  OBVIOUS
<1>1. SysmonInv /\ FcInv
  BY SysmonInitInv, FcInitInv DEF FsInit
<1>2. LinkTypeOK
  <2>1. status \in Status
    BY DEF FsInit, Status
  <2>2. ctlAge \in 0 .. 2
    BY DEF FsInit
  <2>3. QED
    BY <2>1, <2>2, Zenon DEF FsInit, LinkTypeOK
<1>3. EnvTypeOK
  <2>1. height \in Altitudes /\ gusts \in 0 .. MaxGusts
    BY FlightSystemAssumption, FlightCtrlAssumption DEF FsInit, Altitudes
  <2>2. QED
    BY <2>1, Zenon DEF FsInit, EnvTypeOK
<1>4. ActTypeOK
  <2>1. spool \in 0 .. SpoolTime
    BY ActuatorAssumption DEF FsInit, ActInit
  <2>2. QED
    BY <2>1, Zenon DEF FsInit, ActInit, ActTypeOK
<1>5. QED
  BY <1>1, <1>2, <1>3, <1>4 DEF FsInv

LEMMA LinkTypeStep ==
  SysmonTypeOK /\ LinkTypeOK /\ [FsNext]_sysmVars => LinkTypeOK'
<1> SUFFICES ASSUME SysmonTypeOK, LinkTypeOK, [FsNext]_sysmVars PROVE LinkTypeOK'
  OBVIOUS
<1> USE DEF LinkTypeOK
<1>1. CASE MonitorPublishes
  <2>1. status' \in Status
    BY <1>1, FlightSystemAssumption DEF MonitorPublishes, Status, SysmonTypeOK
  <2>2. QED
    BY <1>1, <2>1 DEF MonitorPublishes
<1>2. CASE MonitorSwitches
  <2>1. ctlNew' \in BOOLEAN /\ (ctlNew' => ctlNew)
    BY <1>2 DEF MonitorSwitches
  <2>2. QED
    BY <1>2, <2>1 DEF MonitorSwitches
<1>3. CASE MonitorSenses \/ MonitorObeys
  <2>1. UNCHANGED linkVars
    BY <1>3 DEF MonitorSenses, MonitorObeys
  <2>2. QED
    BY <2>1, Zenon DEF linkVars
<1>4. CASE Controller
  BY <1>4 DEF Controller
<1>5. CASE Tick
  BY <1>5 DEF Tick
<1>6. CASE ActuatorRuns \/ UNCHANGED sysmVars
  BY <1>6 DEF ActuatorRuns, sysmVars, linkVars
<1>7. QED
  BY <1>1, <1>2, <1>3, <1>4, <1>5, <1>6 DEF FsNext, Monitor

LEMMA EnvTypeStep == EnvTypeOK /\ [FsNext]_sysmVars => EnvTypeOK'
<1> SUFFICES ASSUME EnvTypeOK, [FsNext]_sysmVars PROVE EnvTypeOK'
  OBVIOUS
<1> USE DEF EnvTypeOK
<1>1. CASE MonitorPublishes
  BY <1>1 DEF MonitorPublishes
<1>2. CASE MonitorSenses \/ MonitorSwitches \/ MonitorObeys
  BY <1>2 DEF MonitorSenses, MonitorSwitches, MonitorObeys, envVars
<1>3. CASE Controller
  BY <1>3 DEF Controller
<1>4. CASE ActuatorRuns
  BY <1>4 DEF ActuatorRuns
<1>5. CASE Tick
  <2>1. height' \in Altitudes /\ gusts' \in 0 .. MaxGusts
    BY <1>5, FlightSystemAssumption, FlightCtrlAssumption
    DEF Tick, Moves, Lower, Higher, Altitudes
  <2>2. QED
    BY <1>5, <2>1 DEF Tick
<1>6. CASE UNCHANGED sysmVars
  BY <1>6 DEF sysmVars, envVars
<1>7. QED
  BY <1>1, <1>2, <1>3, <1>4, <1>5, <1>6 DEF FsNext, Monitor

LEMMA ActTypeStep ==
  LinkTypeOK /\ ActTypeOK /\ [FsNext]_sysmVars => ActTypeOK'
<1> SUFFICES ASSUME LinkTypeOK, ActTypeOK, [FsNext]_sysmVars PROVE ActTypeOK'
  OBVIOUS
<1> USE DEF ActTypeOK
<1>1. CASE ActuatorRuns
  <2>1. PICK stale \in Stale : ActIteration(status.armed, stale)
    BY <1>1 DEF ActuatorRuns
  <2>2. spool' \in 0 .. SpoolTime
    BY <2>1, ActuatorAssumption DEF ActIteration
  <2>3. prevArmed' \in BOOLEAN /\ tripped' \in BOOLEAN
    BY <2>1, Zenon DEF ActIteration, LinkTypeOK, Status
  <2>4. pwm' \in {"safe", "ramp", "full"}
    BY <2>1 DEF ActIteration
  <2>5. QED
    BY <2>2, <2>3, <2>4
<1>2. CASE Tick
  BY <1>2, ActuatorAssumption DEF Tick, ActClock
<1>3. CASE Monitor \/ MonitorObeys
  BY <1>3, MonitorLeaves DEF actVars
<1>4. CASE Controller \/ UNCHANGED sysmVars
  BY <1>4 DEF Controller, sysmVars, actVars
<1>5. QED
  BY <1>1, <1>2, <1>3, <1>4 DEF FsNext

LEMMA FsInvStep == FsInv /\ [FsNext]_sysmVars => FsInv'
<1> SUFFICES ASSUME FsInv, [FsNext]_sysmVars PROVE FsInv'
  OBVIOUS
<1>1. SysmonInv'
  BY SystemMonitor, SysmonInvStep DEF FsInv
<1>2. FcInv'
  BY SystemController, FcInvStep DEF FsInv, LinkTypeOK, EnvTypeOK
<1>3. LinkTypeOK' /\ EnvTypeOK' /\ ActTypeOK'
  BY LinkTypeStep, EnvTypeStep, ActTypeStep DEF FsInv, SysmonInv
<1>4. QED
  BY <1>1, <1>2, <1>3 DEF FsInv

LEMMA FsInvariant == FsSpec => []FsInv
  BY FsInitInv, FsInvStep, PTL DEF FsSpec

-----------------------------------------------------------------------------
(* What connects and moves the agents keeps its types, and the monitor     *)
(* never counts a landing beyond its confirmation time, whatever the       *)
(* controller reports and however long it stalls.                          *)
THEOREM FsTypeCorrect == FsSpec => []FsTypeOK
<1>1. FsInv => FsTypeOK
  BY DEF FsInv, SysmonInv, SysmonTypeOK, LinkTypeOK, EnvTypeOK, ActTypeOK, FsTypeOK
<1>2. QED
  BY <1>1, FsInvariant, PTL

(* The monitor that flies with the others is the one of module Sysmon: the *)
(* system shows it nothing its environment there could not.                *)
THEOREM MonitorRefined == FsSpec => SysmonSpec
<1>1. FsInit => SysmonInit
  BY DEF FsInit
<1>2. QED
  BY <1>1, SystemMonitor, PTL DEF FsSpec, SysmonSpec

(* Likewise the controller: what VEHICLE_STATUS and the estimator tell it  *)
(* is within what module FlightCtrl lets it be told.                       *)
THEOREM ControllerRefined == FsSpec => FcSpec
<1>1. FsInit => FcInit
  BY DEF FsInit
<1>2. FsInv => status \in Status /\ height \in Altitudes
  BY DEF FsInv, LinkTypeOK, EnvTypeOK
<1>3. QED
  BY <1>1, <1>2, FsInvariant, SystemController, PTL DEF FsSpec, FcSpec

(* So the failsafes of a dead IMU and of a lost RC link, the say of the    *)
(* pilot's two switches and the checks of arming hold of sysmon_task among *)
(* the other tasks.                                                        *)
THEOREM SystemMonitorSafe ==
  FsSpec => /\ [](LostImuLands /\ LostRcReturns /\ PilotKeepsMode /\ SwitchTakesBack)
            /\ ArmedOnlyWhenSafe
            /\ NoArmingByHeldSwitch
  BY MonitorRefined, ImuLossLands, RcLossReturns, PilotHasTheSay, SwitchDisarms,
     ArmingIsSafe, HeldSwitchDoesNotArm, PTL

(* And flight_ctrl_task, told what this monitor publishes, reports no      *)
(* touchdown of an earlier landing and holds where LOITER was entered.     *)
THEOREM SystemControllerSafe ==
  FsSpec => [](LandedMeansTouched /\ HoldsWhereEntered /\ ReturnDescendsAtHome)
  BY ControllerRefined, TouchdownIsReal, LoiterHolds, ReturnIsHome, PTL

-----------------------------------------------------------------------------
(* From the failsafe to the collective: what the monitor has published is  *)
(* what it decided, what the controller has copied is what was published,  *)
(* and in LAND it climbs under no circumstances.                           *)
DecisionPublished ==
  (sysPc = "sense" /\ status.armed /\ "imu" \notin ok /\ ~modeCmd) => status.mode = "LAND"

CycleDone == ~due => sysPc = "sense"

StatusCopied == "controller" \in settled => fcStatus = status

LandDescends ==
  (fcStatus.armed /\ fcStatus.mode = "LAND") => controls.coll \in {"descend", "zero", "min"}

FlownInv == DecisionPublished /\ CycleDone /\ StatusCopied /\ LandDescends

LEMMA MonitorFlownStep ==
  LostImuLands /\ FlownInv /\ (Monitor \/ MonitorObeys) => FlownInv'
<1> SUFFICES ASSUME LostImuLands, FlownInv, Monitor \/ MonitorObeys PROVE FlownInv'
  OBVIOUS
<1>1. UNCHANGED <<fcStatus, controls>> /\ (UNCHANGED <<status, settled>> \/ settled' = {})
  BY MonitorLeaves DEF fcVars
<1>2. StatusCopied' /\ LandDescends'
  BY <1>1 DEF FlownInv, StatusCopied, LandDescends
<1>3. DecisionPublished' /\ CycleDone'
  <2> USE DEF FlownInv, DecisionPublished, CycleDone
  <2>1. CASE MonitorSenses
    BY <2>1 DEF MonitorSenses, Sense, envVars
  <2>2. CASE MonitorSwitches
    BY <2>2 DEF MonitorSwitches, Switches, envVars
  <2>3. CASE MonitorObeys
    BY <2>3 DEF MonitorObeys, ArmCommand, DisarmCommand, SetModeCommand, CommandReceived,
                envVars
  <2>4. CASE MonitorPublishes
    BY <2>4 DEF MonitorPublishes, Publish, LostImuLands
  <2>5. QED
    BY <2>1, <2>2, <2>3, <2>4 DEF Monitor
<1>4. QED
  BY <1>2, <1>3 DEF FlownInv

LEMMA ControllerFlies ==
  ASSUME NEW st, NEW gps, NEW alt, NEW items, FcIteration(st, gps, alt, items)
  PROVE  fcStatus' = st /\ LandDescends'
<1>1. fcStatus' = st
  BY DEF FcIteration, Disarmed, Sticks, Loiter, RthHold, RthReturn, Land, MissionHold,
         MissionFly, Armed, Read
<1>2. CASE Land(st, gps, alt)
  <2>1. controls'.coll \in {"descend", "zero", "min"}
    BY <1>2 DEF Land, Send
  <2>2. QED
    BY <1>1, <2>1 DEF LandDescends
<1>3. CASE Disarmed(st, gps, alt)
  BY <1>1, <1>3 DEF Disarmed, LandDescends
<1>4. CASE ~Land(st, gps, alt) /\ ~Disarmed(st, gps, alt)
  <2>1. st.mode # "LAND"
    BY <1>4 DEF FcIteration, Sticks, Loiter, RthHold, RthReturn, MissionHold, MissionFly, Armed
  <2>2. QED
    BY <1>1, <2>1 DEF LandDescends
<1>5. QED
  BY <1>1, <1>2, <1>3, <1>4

(* When the IMU is lost, the monitor's failsafe, past the pilot's switches *)
(* and the ground station's commands, reaches the collective: a controller *)
(* that runs is descending or down by the end of every 100 ms.             *)
THEOREM ImuLossIsFlown == FsSpec => []LostImuFlown
<1>1. FsInit => FlownInv
  BY DEF FsInit, SysmonInit, FcInit, FlownInv, DecisionPublished, CycleDone, StatusCopied,
         LandDescends
<1>2. LostImuLands /\ FlownInv /\ [FsNext]_sysmVars => FlownInv'
  <2> SUFFICES ASSUME LostImuLands, FlownInv, [FsNext]_sysmVars PROVE FlownInv'
    OBVIOUS
  <2> USE DEF FlownInv, DecisionPublished, CycleDone, StatusCopied
  <2>1. CASE Controller
    <3>1. fcStatus' = status /\ LandDescends'
      BY <2>1, ControllerFlies DEF Controller
    <3>2. UNCHANGED <<sysPc, ok, modeCmd, status, due>>
      BY <2>1 DEF Controller, sysVars
    <3>3. QED
      BY <3>1, <3>2
  <2>2. CASE ActuatorRuns
    BY <2>2 DEF ActuatorRuns, sysVars, fcVars, linkVars, LandDescends
  <2>3. CASE Tick
    BY <2>3 DEF Tick, FcClock, sysVars, LandDescends
  <2>4. CASE UNCHANGED sysmVars
    BY <2>4 DEF sysmVars, sysVars, fcVars, linkVars, envVars, LandDescends
  <2>5. QED
    BY <2>1, <2>2, <2>3, <2>4, MonitorFlownStep DEF FsNext
<1>3. FlownInv => LostImuFlown
  BY DEF FlownInv, DecisionPublished, CycleDone, StatusCopied, LandDescends, LostImuFlown
<1>4. QED
  BY <1>1, <1>2, <1>3, SystemMonitorSafe, PTL DEF FsSpec

-----------------------------------------------------------------------------
(* A touchdown is reported by a landing that is still flown, and with a    *)
(* barometer it was one.                                                   *)
LandingInv ==
  /\ controls.landed => fcStatus.armed
  /\ BaroConnected => TouchInv

LEMMA LandingStep == LandingInv /\ [FsNext]_sysmVars => LandingInv'
<1> SUFFICES ASSUME LandingInv, [FsNext]_sysmVars PROVE LandingInv'
  OBVIOUS
<1>1. BaroConnected => TouchInv'
  BY TouchStep DEF LandingInv
<1>2. (controls.landed => fcStatus.armed)'
  <2>1. CASE Controller
    <3>1. FcIteration(status, NoFix, Altimeter, FALSE) /\ fcStatus' = status
      BY <2>1, ControllerFlies DEF Controller
    <3>2. controls'.landed => status.armed
      BY <3>1 DEF FcIteration, Disarmed, Sticks, Loiter, RthHold, RthReturn, Land,
                  MissionHold, MissionFly, Armed, Send
    <3>3. QED
      BY <3>1, <3>2
  <2>2. CASE UNCHANGED <<controls, fcStatus>>
    BY <2>2 DEF LandingInv
  <2>3. CASE Monitor \/ MonitorObeys
    BY <2>2, <2>3, MonitorLeaves DEF fcVars
  <2>4. CASE ActuatorRuns \/ Tick \/ UNCHANGED sysmVars
    BY <2>2, <2>4 DEF ActuatorRuns, Tick, FcClock, sysmVars, fcVars
  <2>5. QED
    BY <2>1, <2>3, <2>4 DEF FsNext
<1>3. QED
  BY <1>1, <1>2 DEF LandingInv

(* In either build, the automatic disarm of section 4c ends a landing: the *)
(* controller is flying it, armed, and since it entered LAND the altitude  *)
(* it was given read the ground.  With a barometer the vehicle then was on *)
(* the ground, which is the property LandedDisarm; without one the         *)
(* altitude always reads the ground, and that is all there is to it.       *)
DetectedDisarm ==
  [][(sysPc = "switches" /\ AutoDisarm(ctlNew /\ controls.landed)) =>
        /\ fcStatus.armed /\ fcStatus.mode = "LAND"
        /\ stay.low
        /\ BaroConnected => touch]_sysmVars

(* No touchdown of an earlier landing, none read twice and none of a mode  *)
(* that has been left disarms the vehicle, whatever the stalls and gusts.  *)
THEOREM OnlyDetectedDisarm == FsSpec => DetectedDisarm
<1>1. FsInit => LandingInv
  BY DEF FsInit, FcInit, LandingInv, TouchInv
<1>2. LandingInv /\ LandedMeansTouched =>
        ((sysPc = "switches" /\ AutoDisarm(ctlNew /\ controls.landed)) =>
           /\ fcStatus.armed /\ fcStatus.mode = "LAND"
           /\ stay.low
           /\ BaroConnected => touch)
  BY DEF LandingInv, LandedMeansTouched, TouchInv, AutoDisarm
<1>3. QED
  BY <1>1, <1>2, LandingStep, SystemControllerSafe, PTL DEF FsSpec, DetectedDisarm
=============================================================================
