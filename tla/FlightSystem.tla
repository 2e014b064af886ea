---------------------------- MODULE FlightSystem ----------------------------
(***************************************************************************)
(* The agents of core 0 together: the monitor decides on arming and mode   *)
(* and publishes VEHICLE_STATUS; the flight controller flies what it is    *)
(* told and publishes ACTUATOR_CONTROLS with the touchdown it detects; the *)
(* monitor reads it back to disarm after a landing; the actuator reads     *)
(* both.  A topic is a register here, which is what module Uorb implements *)
(* for connected subscribers; the monitor alone also needs to know whether *)
(* a message is new.  Module Boot shows which handles are connected: this  *)
(* module is about a vehicle in which all of them are.                     *)
(*                                                                         *)
(* Time advances in steps of 100 ms, the monitor's period.  In every step  *)
(* the monitor runs one cycle, and the controller and the actuator, which  *)
(* preempt it, run at least once after it has published; before that they  *)
(* run between any two of its steps, any number of times.  The controller  *)
(* may stall for whole steps.  The vehicle sinks when it is told to or has *)
(* no power, but for a bounded number of gusts, and otherwise moves        *)
(* freely.  It has no GPS: module FlightCtrl covers the return home.       *)
(***************************************************************************)
EXTENDS Sysmon, FlightCtrl, Actuator

CONSTANTS
  Fresh,          (* bound: the sets of healthy sources that occur          *)
  BaroConnected,  (* whether the altitude comes from a barometer; baro_ok   *)
                  (* of the sensor agent                                    *)
  MaxGusts        (* bound: times a sinking vehicle rises                   *)

(* Both agents have the one flight_mode_t. *)
ASSUME FlightSystemAssumption ==
  /\ Modes \subseteq FcModes \cup {"MANUAL"}
  /\ Fresh \subseteq SUBSET (Sources \ {"gps"})
  /\ BaroConnected \in BOOLEAN
  /\ MaxGusts \in Nat

VARIABLES
  status,   (* the last VEHICLE_STATUS                                      *)
  ctlNew,   (* the monitor's queue of ACTUATOR_CONTROLS is not empty        *)
  ctlSeen,  (* an ACTUATOR_CONTROLS has been published                      *)
  ctlAge,   (* time steps since then, up to 2                               *)
  stalled,  (* the controller does not run in this time step                *)
  due,      (* the monitor has not finished its cycle of this step          *)
  settled,  (* the tasks that have run since it published                   *)
  height,   (* the vehicle's true altitude step                             *)
  gusts,    (* gusts so far                                                 *)
  touch     (* history: on the ground since the current LAND was entered    *)

linkVars == <<status, ctlNew, ctlSeen, ctlAge>>
envVars == <<stalled, due, settled, height, gusts>>
sysmVars == <<sysVars, fcVars, actVars, linkVars, envVars, touch>>

FsInit ==
  /\ SysmonInit /\ FcInit /\ ActInit
  /\ status = [armed |-> FALSE, mode |-> "MANUAL"]
  /\ ctlNew = FALSE /\ ctlSeen = FALSE /\ ctlAge = 0
  /\ stalled = FALSE /\ due = TRUE /\ settled = {}
  /\ height = 0 /\ gusts = 0 /\ touch = FALSE

(* Without a barometer the estimator is never initialised and reports the  *)
(* altitude it was cleared to.                                             *)
Altimeter == IF BaroConnected THEN height ELSE 0

NoFix == [fix |-> FALSE, good |-> FALSE, at |-> Origin]

-----------------------------------------------------------------------------
(* The monitor's cycle. *)
MonitorSenses ==
  /\ due
  /\ \E fresh \in Fresh : \E frame \in IF "rc" \in fresh THEN Frames ELSE {rc} :
       Sense("good", fresh, frame, FALSE)
  /\ UNCHANGED <<fcVars, actVars, linkVars, envVars, touch>>

MonitorSwitches ==
  /\ Switches(ctlNew /\ controls.landed)
  /\ ctlNew' = (ctlNew /\ ~armed)
  /\ UNCHANGED <<fcVars, actVars, status, ctlSeen, ctlAge, envVars, touch>>

MonitorObeys ==
  /\ ArmCommand \/ DisarmCommand \/ \E m \in ModeCommands : SetModeCommand(m)
  /\ UNCHANGED <<fcVars, actVars, linkVars, envVars, touch>>

MonitorPublishes ==
  /\ Publish
  /\ status' = [armed |-> armed, mode |-> mode]
  /\ due' = FALSE
  /\ settled' = {}
  /\ UNCHANGED <<fcVars, actVars, ctlNew, ctlSeen, ctlAge, stalled, height,
                 gusts, touch>>

Monitor == MonitorSenses \/ MonitorSwitches \/ MonitorPublishes

(* One iteration of the controller's loop. *)
Controller ==
  /\ ~stalled
  /\ touch' = (height = 0 \/ (touch /\ status.armed /\ status.mode = "LAND"
                                    /\ prevMode = "LAND"))
  /\ FcIteration(status, NoFix, Altimeter, FALSE)
  /\ ctlNew' = TRUE /\ ctlSeen' = TRUE /\ ctlAge' = 0
  /\ settled' = settled \cup {"controller"}
  /\ UNCHANGED <<sysVars, actVars, status, stalled, due, height, gusts>>

(* One iteration of the actuator's loop.  The controls are older than the  *)
(* watchdog's 100 ms once two steps have passed, even if the controller is *)
(* about to run again, and may be after one if it is not running.          *)
Stale ==
  IF ~ctlSeen \/ ctlAge = 0 \/ (ctlAge = 1 /\ ~stalled) THEN {FALSE}
  ELSE IF ctlAge = 1 THEN BOOLEAN ELSE {TRUE}

ActuatorRuns ==
  /\ \E stale \in Stale : ActIteration(status.armed, stale)
  /\ settled' = settled \cup {"actuator"}
  /\ UNCHANGED <<sysVars, fcVars, linkVars, stalled, due, height, gusts, touch>>

(* Where the vehicle can be after a step. *)
Sinking == pwm = "safe" \/ controls.coll \in {"min", "descend"}
Lower == IF height > 0 THEN height - 1 ELSE 0
Higher == IF height < MaxAlt THEN height + 1 ELSE height

Moves ==
  \/ /\ Sinking
     /\ height' = Lower
     /\ UNCHANGED gusts
  \/ /\ Sinking /\ gusts < MaxGusts /\ pwm # "safe"
     /\ height' = Higher
     /\ gusts' = gusts + 1
  \/ /\ ~Sinking
     /\ height' \in {Lower, height, Higher}
     /\ UNCHANGED gusts

(* 100 ms are over. *)
Tick ==
  /\ ~due
  /\ "actuator" \in settled /\ (stalled \/ "controller" \in settled)
  /\ due' = TRUE
  /\ settled' = {}
  /\ stalled' \in BOOLEAN
  /\ ctlAge' = IF ctlAge < 2 THEN ctlAge + 1 ELSE ctlAge
  /\ Moves
  /\ FcClock /\ ActClock
  /\ UNCHANGED <<sysVars, status, ctlNew, ctlSeen, touch>>

FsNext == Monitor \/ MonitorObeys \/ Controller \/ ActuatorRuns \/ Tick

(* Every task gets the processor in the end, and the ground station does   *)
(* not fill the command queue faster than the monitor empties it.          *)
FsFairness ==
  /\ WF_sysmVars(Monitor)
  /\ WF_sysmVars(MonitorPublishes)
  /\ WF_sysmVars(Controller)
  /\ WF_sysmVars(ActuatorRuns)
  /\ WF_sysmVars(Tick)

FsSpec == FsInit /\ [][FsNext]_sysmVars /\ FsFairness

-----------------------------------------------------------------------------
(* The shape of what connects the agents; the modules extended have the    *)
(* invariants of their own variables.                                      *)
FsTypeOK ==
  /\ status \in Status
  /\ ctlNew \in BOOLEAN /\ ctlSeen \in BOOLEAN
  /\ ctlNew => ctlSeen
  /\ ctlAge \in 0 .. 2
  /\ stalled \in BOOLEAN /\ due \in BOOLEAN
  /\ settled \subseteq {"controller", "actuator"}
  /\ height \in Altitudes /\ gusts \in 0 .. MaxGusts
  /\ prevArmed \in BOOLEAN /\ spool \in 0 .. SpoolTime
  /\ pwm \in {"safe", "ramp", "full"} /\ tripped \in BOOLEAN
  /\ landCount \in 0 .. LandConfirm + 1

(* At the end of every 100 ms the outputs are safe if the status says      *)
(* disarmed, whatever controls are still around, or if the controller has  *)
(* been silent since the step before the last, whatever the status says.   *)
OutputsSafe ==
  ("actuator" \in settled /\ (~status.armed \/ (ctlSeen /\ ctlAge = 2)))
    => pwm = "safe"

(* At the end of every 100 ms in which the IMU was found dead, an armed    *)
(* vehicle is descending or has landed, unless the ground station has just *)
(* asked for another mode: the failsafe of one agent, past the switches    *)
(* and the commands, is what the other has been told and what it flies.    *)
LostImuFlown ==
  (~due /\ "controller" \in settled /\ "imu" \notin ok /\ status.armed /\ ~modeCmd)
    => controls.coll \in {"descend", "zero", "min"}

(* Full power never follows safe outputs directly, a short disarming       *)
(* between two armings included, unless the watchdog had cut in.           *)
SoftStart == [][(pwm = "safe" /\ pwm' = "full") => tripped]_sysmVars

(* The monitor disarms by itself only a vehicle that was on the ground     *)
(* since it entered LAND: no older touchdown, no message read twice and no *)
(* stalled controller disarms one in the air.                              *)
LandedDisarm ==
  [][(sysPc = "switches" /\ AutoDisarm(ctlNew /\ controls.landed)) => touch]_sysmVars

(* When the IMU is lost for good, the emergency landing ends: if the       *)
(* controller runs and the ground station does not change the mode, the    *)
(* vehicle is disarmed in the end.                                         *)
EmergencyLandingEnds ==
  <>[]("imu" \notin ok /\ ~modeCmd /\ ~stalled) => <>[](~status.armed)
=============================================================================
