------------------------------- MODULE Sysmon -------------------------------
(***************************************************************************)
(* The system monitor (agents/sysmon_agent.c): the task that owns the arm  *)
(* state, the flight mode and the failsafe state, and publishes them in    *)
(* VEHICLE_STATUS at 10 Hz.  It has the lowest priority on its core, so    *)
(* every other agent can run between any two of its statements.  A cycle   *)
(* is cut where that matters, at the reads of shared queues:               *)
(*                                                                         *)
(*   Sense      the clock, the battery, the sensor and RC topics; the      *)
(*              health flags; the failsafe and what it forces              *)
(*   Switches   ACTUATOR_CONTROLS and the automatic disarm; the pilot's    *)
(*              arm and mode switches; the ground station's timeout        *)
(*   a command  one message of the RPC command queue, until it is empty    *)
(*   Publish    VEHICLE_STATUS                                             *)
(*                                                                         *)
(* What a step reads from a queue is a parameter of the action; the        *)
(* modules that compose the agents pass the content of the queue, and the  *)
(* specification at the end of this module any content.  Time is counted   *)
(* in cycles.  Telemetry and status texts are left out.  An RC frame       *)
(* always carries eight channels, so rc_ok implies channel_count >= 6.  An *)
(* override of the ground station is a frame like the receiver's, here and *)
(* for the code.                                                           *)
(*                                                                         *)
(* An operator whose name has an underscore and a suffix, as ArmEdge_Level *)
(* for ArmEdge, is that operator with a plausible mistake; nothing uses    *)
(* it but the table of mutants in PROJECT.json.                            *)
(***************************************************************************)
EXTENDS Naturals, FiniteSets

CONSTANTS
  LandConfirm,  (* LAND_DISARM_CONFIRM_MS in cycles                       *)
  GcsTimeout,   (* PARAM_GCS_TIMEOUT_MS in cycles                         *)
  Frames,       (* the RC frames that can arrive                          *)
  ModeCommands  (* the modes the ground station can ask for               *)

Modes == {"MANUAL", "STABILIZE", "ALT_HOLD", "LOITER", "RTH", "LAND", "ACRO",
          "MISSION"}
Failsafes == {"NONE", "RC_LOST", "BATTERY_LOW", "BATTERY_CRITICAL",
              "SENSOR_FAILURE", "GCS_LOST"}
Sources == {"imu", "baro", "gps", "rc"}
Batteries == {"good", "low", "critical"}

(* What the monitor reads off an RC frame: the arm switch (CH5 above its   *)
(* threshold), the position of the mode switch (CH4), and whether the      *)
(* collective is low enough to arm.                                        *)
SwitchModes == {"STABILIZE", "LOITER", "ALT_HOLD"}
AllFrames == [arm : BOOLEAN, mode : SwitchModes, collLow : BOOLEAN]

(* last_rc before any frame: every channel reads 0. *)
ZeroFrame == [arm |-> FALSE, mode |-> "LOITER", collLow |-> TRUE]

ASSUME SysmonAssumption ==
  /\ LandConfirm \in Nat
  /\ GcsTimeout \in Nat \ {0}
  /\ Frames \subseteq AllFrames
  /\ ModeCommands \subseteq Modes

VARIABLES
  sysPc,     (* the next step of the cycle                                  *)
  armed,     (* arm_state = ARM_STATE_ARMED                                 *)
  mode,      (* flight_mode                                                 *)
  failsafe,  (* failsafe                                                    *)
  battery,   (* batt_msg.warning and critical of this cycle                 *)
  ok,        (* the sources whose health flag is set in this cycle          *)
  rc,        (* last_rc                                                     *)
  rcArmPrev, (* rc_arm_prev                                                 *)
  baroPrev,  (* prev_baro_ok                                                *)
  landCount, (* cycles since land_detected_start_ms was set, plus one; or 0 *)
  gcsSeen,   (* last_gcs_cmd_ts > 0                                         *)
  gcsAge,    (* cycles since last_gcs_cmd_ts, up to GcsTimeout              *)
  homeSet,   (* home_set                                                    *)
  modeCmd,   (* history: a SET_MODE was obeyed in this cycle                *)
  held,      (* history: the vehicle was disarmed by something other than   *)
             (* its arm switch, last seen on, and not seen off since        *)
  looked,    (* history: a healthy frame was read since the chip started    *)
  bySwitch   (* history: the vehicle is armed, and was so by its switch     *)

(* The histories of who armed and disarmed; a restart of the chip does not *)
(* turn the pilot's switch.                                                *)
armVars == <<held, looked, bySwitch>>

sysVars == <<sysPc, armed, mode, failsafe, battery, ok, rc, rcArmPrev, baroPrev,
             landCount, gcsSeen, gcsAge, homeSet, modeCmd, armVars>>

SysmonInit ==
  /\ sysPc = "sense"
  /\ armed = FALSE
  /\ mode = "STABILIZE"
  /\ failsafe = "NONE"
  /\ battery = "good"
  /\ ok = {}
  /\ rc = ZeroFrame
  /\ rcArmPrev = FALSE
  /\ baroPrev = FALSE
  /\ landCount = 0
  /\ gcsSeen = FALSE
  /\ gcsAge = 0
  /\ homeSet = FALSE
  /\ modeCmd = FALSE
  /\ held = FALSE /\ looked = FALSE /\ bySwitch = FALSE

-----------------------------------------------------------------------------
(* Section 3: the failsafe of this cycle. *)
Failsafe(batt, fresh) ==
  IF "imu" \notin fresh THEN "SENSOR_FAILURE"
  ELSE IF batt = "critical" THEN "BATTERY_CRITICAL"
  ELSE IF armed /\ "rc" \notin fresh THEN "RC_LOST"
  ELSE IF batt = "low" THEN "BATTERY_LOW"
  ELSE "NONE"

ForcedMode_NoSensor(fs, fresh) ==
  CASE fs = "BATTERY_CRITICAL" -> "LAND"
    [] fs = "RC_LOST" /\ mode \notin {"RTH", "LAND"} ->
         IF "gps" \in fresh THEN "RTH" ELSE "LAND"
    [] OTHER -> mode

(* Section 4: the mode a failsafe forces on an armed vehicle. *)
ForcedMode(fs, fresh) ==
  CASE fs \in {"BATTERY_CRITICAL", "SENSOR_FAILURE"} -> "LAND"
    [] fs = "RC_LOST" /\ mode \notin {"RTH", "LAND"} ->
         IF "gps" \in fresh THEN "RTH" ELSE "LAND"
    [] OTHER -> mode

(* Section 4b: modes that need a sensor fall back when it is lost, on the  *)
(* edge for the barometer and at any time for the GPS.                     *)
Fallback(m, fresh) ==
  LET noBaro == baroPrev /\ "baro" \notin fresh /\ m \in {"ALT_HOLD", "LOITER"}
      m1 == IF noBaro THEN "STABILIZE" ELSE m
  IN  IF m1 = "LOITER" /\ "gps" \notin fresh
      THEN IF "baro" \in fresh THEN "ALT_HOLD" ELSE "STABILIZE"
      ELSE m1

(* Sections 1 to 4b.  fresh is the set of sources found healthy, frame the *)
(* frame found in the RC topic, or last_rc when there was none, and fix    *)
(* whether the GPS topic had a message with a 3D fix and six satellites.   *)
Sense(batt, fresh, frame, fix) ==
  LET fs == Failsafe(batt, fresh) IN
  /\ sysPc = "sense"
  /\ sysPc' = "switches"
  /\ battery' = batt
  /\ ok' = fresh
  /\ rc' = frame
  /\ homeSet' = (armed /\ (homeSet \/ fix))
  /\ failsafe' = fs
  /\ mode' = IF armed THEN Fallback(ForcedMode(fs, fresh), fresh) ELSE mode
  /\ baroPrev' = ("baro" \in fresh)
  /\ gcsAge' = IF gcsSeen /\ gcsAge < GcsTimeout THEN gcsAge + 1 ELSE gcsAge
  /\ modeCmd' = FALSE
  /\ UNCHANGED <<armed, rcArmPrev, landCount, gcsSeen, armVars>>

(* Failsafes that do not stand in the way of arming and of the mode switch *)
Benign(fs) == fs \in {"NONE", "BATTERY_LOW"}

AutoDisarm_Late(landed) == armed /\ landed /\ landCount > LandConfirm + 1

(* Section 4c: land_detected for longer than the confirmation time. *)
AutoDisarm(landed) == armed /\ landed /\ landCount > LandConfirm

ArmEdge_Level(a) ==
  /\ ~a /\ rc.arm
  /\ {"imu", "rc"} \subseteq ok /\ Benign(failsafe) /\ rc.collLow

ArmEdge_AnyCollective(a) ==
  /\ ~a /\ rc.arm /\ ~rcArmPrev
  /\ {"imu", "rc"} \subseteq ok /\ Benign(failsafe)

(* Section 4d, on an arm state a: the edges of the arm switch. *)
ArmEdge(a) ==
  /\ ~a /\ rc.arm /\ ~rcArmPrev
  /\ {"imu", "rc"} \subseteq ok /\ Benign(failsafe) /\ rc.collLow

DisarmEdge_Benign(a) == a /\ "rc" \in ok /\ ~rc.arm /\ rcArmPrev /\ Benign(failsafe)

DisarmEdge(a) == a /\ "rc" \in ok /\ ~rc.arm /\ rcArmPrev

SwitchedMode_AnyFailsafe ==
  IF "rc" \in ok /\ ~(rc.mode = "LOITER" /\ "gps" \notin ok) THEN rc.mode ELSE mode

SwitchedMode_AfterGcs ==
  IF /\ "rc" \in ok /\ Benign(failsafe) /\ ~(armed /\ gcsSeen /\ gcsAge >= GcsTimeout)
     /\ ~(rc.mode = "LOITER" /\ "gps" \notin ok)
  THEN rc.mode ELSE mode

(* Section 4d: the mode switch, applied in every cycle. *)
SwitchedMode ==
  IF "rc" \in ok /\ Benign(failsafe) /\ ~(rc.mode = "LOITER" /\ "gps" \notin ok)
  THEN rc.mode ELSE mode

(* Sections 4c, 4d and 6b.  landed is the land_detected flag of the        *)
(* ACTUATOR_CONTROLS message found, FALSE when there was none.             *)
Switches(landed) ==
  LET a == armed /\ ~AutoDisarm(landed)
      b == (a /\ ~DisarmEdge(a)) \/ ArmEdge(a)
  IN
  /\ sysPc = "switches"
  /\ sysPc' = "commands"
  /\ armed' = b
  /\ landCount' = IF a /\ landed THEN landCount + 1 ELSE 0
  /\ rcArmPrev' = IF "rc" \in ok THEN rc.arm ELSE rcArmPrev
  /\ mode' = SwitchedMode
  /\ failsafe' = IF b /\ gcsSeen /\ gcsAge >= GcsTimeout THEN "GCS_LOST" ELSE failsafe
  /\ held' = IF "rc" \in ok /\ ~rc.arm THEN FALSE
             ELSE held \/ (AutoDisarm(landed) /\ rcArmPrev)
  /\ looked' = (looked \/ "rc" \in ok)
  /\ bySwitch' = (b /\ (bySwitch \/ ArmEdge(a)))
  /\ UNCHANGED <<battery, ok, rc, baroPrev, gcsSeen, gcsAge, homeSet, modeCmd>>

-----------------------------------------------------------------------------
(* Section 7: every command first renews last_gcs_cmd_ts. *)
CommandReceived ==
  /\ sysPc = "commands"
  /\ gcsSeen' = TRUE
  /\ gcsAge' = 0
  /\ UNCHANGED <<sysPc, failsafe, battery, ok, rc, rcArmPrev, baroPrev, landCount, homeSet,
                 looked>>

ArmCommand_NoRcCheck ==
  /\ CommandReceived
  /\ armed' = (armed \/ ("imu" \in ok /\ Benign(failsafe) /\ rc.collLow))
  /\ UNCHANGED <<mode, modeCmd, held, bySwitch>>

(* RPC_CMD_ARM *)
ArmCommand ==
  /\ CommandReceived
  /\ armed' = (armed \/ (/\ {"imu", "rc"} \subseteq ok
                         /\ Benign(failsafe)
                         /\ rc.collLow))
  /\ UNCHANGED <<mode, modeCmd, held, bySwitch>>

(* RPC_CMD_DISARM *)
DisarmCommand ==
  /\ CommandReceived
  /\ armed' = FALSE
  /\ held' = (held \/ (armed /\ rcArmPrev))
  /\ bySwitch' = FALSE
  /\ UNCHANGED <<mode, modeCmd>>

(* RPC_CMD_SET_MODE, no check but the range of the mode *)
SetModeCommand(m) ==
  /\ CommandReceived
  /\ mode' = m
  /\ modeCmd' = TRUE
  /\ UNCHANGED <<armed, held, bySwitch>>

(* The commands that leave the supervisor's own state alone: overrides,    *)
(* parameters, missions, queries, a REBOOT refused because armed.          *)
OtherCommand ==
  /\ CommandReceived
  /\ UNCHANGED <<armed, mode, modeCmd, held, bySwitch>>

(* RPC_CMD_REBOOT of a disarmed vehicle: esp_restart, and the task starts  *)
(* anew; the pilot's switch stays where it is.                             *)
Reboot ==
  /\ sysPc = "commands" /\ ~armed
  /\ sysPc' = "sense" /\ armed' = FALSE /\ mode' = "STABILIZE"
  /\ failsafe' = "NONE" /\ battery' = "good" /\ ok' = {} /\ rc' = ZeroFrame
  /\ rcArmPrev' = FALSE /\ baroPrev' = FALSE /\ landCount' = 0
  /\ gcsSeen' = FALSE /\ gcsAge' = 0 /\ homeSet' = FALSE
  /\ modeCmd' = FALSE /\ looked' = FALSE
  /\ UNCHANGED <<held, bySwitch>>

(* Section 5: VEHICLE_STATUS goes out with armed, mode, failsafe and ok. *)
Publish ==
  /\ sysPc = "commands"
  /\ sysPc' = "sense"
  /\ UNCHANGED <<armed, mode, failsafe, battery, ok, rc, rcArmPrev, baroPrev, landCount,
                 gcsSeen, gcsAge, homeSet, modeCmd, armVars>>

-----------------------------------------------------------------------------
(* The monitor alone, in an environment that can do anything. *)
Obey ==
  \/ ArmCommand
  \/ DisarmCommand
  \/ \E m \in ModeCommands : SetModeCommand(m)
  \/ OtherCommand

Command == Obey \/ Reboot

SysmonNext ==
  \/ \E batt \in Batteries, fresh \in SUBSET Sources :
       \E frame \in Frames \cup {rc}, fix \in BOOLEAN :
         Sense(batt, fresh, frame, fix)
  \/ \E landed \in BOOLEAN : Switches(landed)
  \/ Command
  \/ Publish

SysmonSpec == SysmonInit /\ [][SysmonNext]_sysVars

-----------------------------------------------------------------------------
(* The shape of the monitor's state. *)
SysmonTypeOK ==
  /\ sysPc \in {"sense", "switches", "commands"}
  /\ armed \in BOOLEAN
  /\ mode \in Modes
  /\ failsafe \in Failsafes
  /\ battery \in Batteries
  /\ ok \subseteq Sources
  /\ rc \in AllFrames
  /\ rcArmPrev \in BOOLEAN
  /\ baroPrev \in BOOLEAN
  /\ landCount \in 0 .. LandConfirm + 1
  /\ gcsSeen \in BOOLEAN
  /\ gcsAge \in 0 .. GcsTimeout
  /\ homeSet \in BOOLEAN
  /\ modeCmd \in BOOLEAN
  /\ held \in BOOLEAN /\ looked \in BOOLEAN /\ bySwitch \in BOOLEAN

(* From the moment VEHICLE_STATUS can go out until it does, an armed       *)
(* vehicle whose IMU is found dead is in LAND, unless a SET_MODE of this   *)
(* very cycle took it out: nothing between the failsafe and the            *)
(* publication undoes it, neither the pilot's mode switch nor the loss of  *)
(* the ground station that renames the failsafe.                           *)
LostImuLands ==
  (sysPc = "commands" /\ armed /\ "imu" \notin ok /\ ~modeCmd) => mode = "LAND"

(* Likewise an armed vehicle without an RC link returns home or lands;     *)
(* nobody can arm it into another mode while the link is down.             *)
LostRcReturns ==
  (sysPc = "commands" /\ armed /\ "rc" \notin ok /\ ~modeCmd)
    => mode \in {"RTH", "LAND"}

(* With IMU and RC link healthy the pilot has the say: the status that     *)
(* goes out carries the mode of his switch, unless that is LOITER without  *)
(* GPS or a SET_MODE of this cycle asked otherwise.  What the ground       *)
(* station asked earlier does not survive, and its silence, which renames  *)
(* the failsafe, takes nothing from him.  Only a critical battery does,    *)
(* which lands an armed vehicle under whatever name the failsafe goes out. *)
PilotKeepsMode ==
  (sysPc = "commands" /\ {"imu", "rc"} \subseteq ok /\ ~modeCmd) =>
    IF battery = "critical" THEN armed => mode = "LAND"
    ELSE mode = rc.mode \/ (rc.mode = "LOITER" /\ "gps" \notin ok)

(* A vehicle that its switch armed is disarmed by the first healthy frame  *)
(* that reads the switch off, the receiver's or an override: no failsafe,  *)
(* lost link, refused command or rename in between swallows that edge.  (A *)
(* vehicle armed by command under a switch that is off does not obey it.)  *)
SwitchTakesBack ==
  (sysPc = "commands" /\ bySwitch /\ "rc" \in ok) => rc.arm

(* Whoever arms the vehicle, the pilot or the ground station, finds the    *)
(* IMU and the RC link healthy, the collective down and no failsafe but a  *)
(* low battery.                                                            *)
ArmedOnlyWhenSafe ==
  [][(~armed /\ armed') =>
        /\ {"imu", "rc"} \subseteq ok
        /\ Benign(failsafe)
        /\ rc.collLow]_sysVars

(* A vehicle that was disarmed after landing or by the ground station      *)
(* while the arm switch was on is not armed again by that switch before a  *)
(* frame has read it off, except by the first healthy frame after a        *)
(* restart: rc_arm_prev begins as off, whatever the switch does.           *)
NoArmingByHeldSwitch ==
  [][(sysPc = "switches" /\ ~armed /\ armed') => ~held \/ ~looked]_sysVars
=============================================================================
