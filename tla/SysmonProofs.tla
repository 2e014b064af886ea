---------------------------- MODULE SysmonProofs ----------------------------
(***************************************************************************)
(* For any confirmation time, ground station timeout, RC frames and mode   *)
(* commands: what the monitor publishes after a loss of the IMU or of the  *)
(* RC link, and when it arms.                                              *)
(*                                                                         *)
(* The properties speak of the end of a cycle; the inductive invariant     *)
(* adds what the failsafe step has established by the middle of it, that   *)
(* a critical battery stays a failsafe whatever it is renamed to, and that *)
(* rc_arm_prev remembers the switch a vehicle was armed by or disarmed     *)
(* under.                                                                  *)
(***************************************************************************)
EXTENDS Sysmon, TLAPS

(* Between the failsafe step and the switches of the same cycle. *)
FailsafeDecided ==
  sysPc = "switches" =>
    /\ ~modeCmd
    /\ "imu" \notin ok => failsafe = "SENSOR_FAILURE" /\ (armed => mode = "LAND")
    /\ (armed /\ "rc" \notin ok) =>
         /\ failsafe \in {"RC_LOST", "BATTERY_CRITICAL", "SENSOR_FAILURE"}
         /\ mode \in {"RTH", "LAND"}
    /\ (armed /\ "imu" \in ok /\ battery = "critical") => mode = "LAND"
    /\ ({"imu", "rc"} \subseteq ok /\ battery # "critical") => Benign(failsafe)

CriticalIsFailsafe ==
  (sysPc # "sense" /\ battery = "critical") => ~Benign(failsafe)

SwitchRemembered ==
  /\ (held /\ looked) => rcArmPrev
  /\ bySwitch => armed /\ rcArmPrev

SysmonInv ==
  /\ SysmonTypeOK
  /\ FailsafeDecided
  /\ LostImuLands
  /\ LostRcReturns
  /\ PilotKeepsMode
  /\ SwitchTakesBack
  /\ CriticalIsFailsafe
  /\ SwitchRemembered

(* The state sysmon_task starts from. *)
LEMMA SysmonInitInv == SysmonInit => SysmonInv
<1> SUFFICES ASSUME SysmonInit PROVE SysmonInv
  OBVIOUS
<1>1. rc \in AllFrames
  BY DEF SysmonInit, AllFrames, SwitchModes, ZeroFrame
<1>2. landCount \in 0 .. LandConfirm + 1 /\ gcsAge \in 0 .. GcsTimeout
  BY SysmonAssumption DEF SysmonInit
<1>3. mode \in Modes /\ failsafe \in Failsafes /\ battery \in Batteries
  BY DEF SysmonInit, Modes, Failsafes, Batteries
<1>4. SysmonTypeOK
  BY <1>1, <1>2, <1>3, Zenon DEF SysmonInit, SysmonTypeOK
<1>5. FailsafeDecided /\ LostImuLands /\ LostRcReturns /\ PilotKeepsMode
  BY DEF SysmonInit, FailsafeDecided, LostImuLands, LostRcReturns,
         PilotKeepsMode
<1>6. SwitchTakesBack /\ CriticalIsFailsafe /\ SwitchRemembered
  BY DEF SysmonInit, SwitchTakesBack, CriticalIsFailsafe, SwitchRemembered
<1>7. QED
  BY <1>4, <1>5, <1>6 DEF SysmonInv

(* The failsafe step keeps the types, whatever frame it finds in the topic. *)
LEMMA SenseTyped ==
  ASSUME SysmonTypeOK, NEW batt \in Batteries, NEW fresh \in SUBSET Sources,
         NEW frame \in AllFrames, NEW fix \in BOOLEAN,
         Sense(batt, fresh, frame, fix)
  PROVE  SysmonTypeOK'
<1> USE SysmonAssumption DEF SysmonTypeOK
<1>1. Failsafe(batt, fresh) \in Failsafes
  BY DEF Failsafe, Failsafes
<1>2. ForcedMode(Failsafe(batt, fresh), fresh) \in Modes
  BY DEF ForcedMode, Modes
<1>3. Fallback(ForcedMode(Failsafe(batt, fresh), fresh), fresh) \in Modes
  BY <1>2 DEF Fallback, Modes
<1>4. mode' \in Modes /\ failsafe' \in Failsafes /\ rc' \in AllFrames
  BY <1>1, <1>3 DEF Sense
<1>5. gcsAge' \in 0 .. GcsTimeout /\ landCount' \in 0 .. LandConfirm + 1
  BY DEF Sense
<1>6. ok' \subseteq Sources /\ sysPc' = "switches"
  BY DEF Sense
<1>7. homeSet' \in BOOLEAN /\ baroPrev' \in BOOLEAN /\ modeCmd' \in BOOLEAN
  <2>1. homeSet' \in BOOLEAN
    BY DEF Sense
  <2>2. baroPrev' \in BOOLEAN
    BY DEF Sense
  <2>3. modeCmd' \in BOOLEAN
    BY DEF Sense
  <2>4. QED
    BY <2>1, <2>2, <2>3
<1>8. battery' \in Batteries /\ UNCHANGED <<armed, rcArmPrev, gcsSeen, armVars>>
  BY Zenon DEF Sense
<1>9. UNCHANGED <<held, looked, bySwitch>>
  BY <1>8 DEF armVars
<1>10. QED
  BY <1>4, <1>5, <1>6, <1>7, <1>8, <1>9, Zenon

(* No step of a cycle leaves the declared shape. *)
LEMMA SysmonTypeStep ==
  SysmonTypeOK /\ [SysmonNext]_sysVars => SysmonTypeOK'
<1> SUFFICES ASSUME SysmonTypeOK, [SysmonNext]_sysVars PROVE SysmonTypeOK'
  OBVIOUS
<1> USE SysmonAssumption DEF SysmonTypeOK
<1>1. ASSUME NEW batt \in Batteries, NEW fresh \in SUBSET Sources,
             NEW frame \in Frames \cup {rc}, NEW fix \in BOOLEAN,
             Sense(batt, fresh, frame, fix)
      PROVE  SysmonTypeOK'
  <2>1. frame \in AllFrames
    OBVIOUS
  <2>2. QED
    BY <1>1, <2>1, SenseTyped
<1>2. ASSUME NEW landed \in BOOLEAN, Switches(landed) PROVE SysmonTypeOK'
  <2>1. SwitchedMode \in Modes /\ rc.arm \in BOOLEAN
    BY DEF SwitchedMode, AllFrames, SwitchModes, Modes
  <2>2. landCount' \in 0 .. LandConfirm + 1
    BY <1>2 DEF Switches, AutoDisarm
  <2>3. armed' \in BOOLEAN /\ held' \in BOOLEAN
    BY <1>2 DEF Switches, DisarmEdge, ArmEdge, AutoDisarm
  <2>6. looked' \in BOOLEAN /\ bySwitch' \in BOOLEAN
    BY <1>2, Zenon DEF Switches
  <2>4. failsafe' \in Failsafes /\ rcArmPrev' \in BOOLEAN /\ mode' \in Modes
    BY <1>2, <2>1 DEF Switches, Failsafes
  <2>5. QED
    BY <1>2, <2>2, <2>3, <2>4, <2>6 DEF Switches
<1>3. ASSUME CommandReceived, armed' \in BOOLEAN, mode' \in Modes,
             modeCmd' \in BOOLEAN, held' \in BOOLEAN, bySwitch' \in BOOLEAN
      PROVE  SysmonTypeOK'
  <2>1. gcsAge' \in 0 .. GcsTimeout
    BY <1>3 DEF CommandReceived
  <2>2. QED
    BY <1>3, <2>1, Zenon DEF CommandReceived
<1>4. ASSUME Obey PROVE SysmonTypeOK'
  <2>1. CASE ArmCommand
    <3>1. armed' \in BOOLEAN
      BY <2>1, Zenon DEF ArmCommand
    <3>2. QED
      BY <1>3, <2>1, <3>1, Zenon DEF ArmCommand
  <2>2. CASE DisarmCommand
    <3>1. armed' \in BOOLEAN /\ held' \in BOOLEAN
      BY <2>2, Zenon DEF DisarmCommand
    <3>2. QED
      BY <1>3, <2>2, <3>1, Zenon DEF DisarmCommand
  <2>3. CASE OtherCommand
    BY <1>3, <2>3, Zenon DEF OtherCommand
  <2>4. CASE \E m \in ModeCommands : SetModeCommand(m)
    <3>1. mode' \in Modes /\ CommandReceived
      BY <2>4 DEF SetModeCommand
    <3>2. QED
      BY <1>3, <2>4, <3>1, Zenon DEF SetModeCommand
  <2>5. QED
    BY <1>4, <2>1, <2>2, <2>3, <2>4 DEF Obey
<1>5. ASSUME Reboot PROVE SysmonTypeOK'
  <2>1. rc' \in AllFrames
    BY <1>5 DEF Reboot, AllFrames, SwitchModes, ZeroFrame
  <2>2. mode' \in Modes /\ failsafe' \in Failsafes /\ battery' \in Batteries
    BY <1>5 DEF Reboot, Modes, Failsafes, Batteries
  <2>3. landCount' \in 0 .. LandConfirm + 1 /\ gcsAge' \in 0 .. GcsTimeout
    BY <1>5 DEF Reboot
  <2>4. QED
    BY <1>5, <2>1, <2>2, <2>3, Zenon DEF Reboot
<1>6. ASSUME Publish PROVE SysmonTypeOK'
  BY <1>6 DEF Publish, armVars
<1>7. CASE UNCHANGED sysVars
  BY <1>7 DEF sysVars, armVars
<1>8. QED
  BY <1>1, <1>2, <1>4, <1>5, <1>6, <1>7 DEF SysmonNext, Command

(* The failsafe step decides, whatever frame it finds. *)
LEMMA SenseDecides ==
  ASSUME SysmonInv, NEW batt \in Batteries, NEW fresh \in SUBSET Sources,
         NEW frame \in AllFrames, NEW fix \in BOOLEAN,
         Sense(batt, fresh, frame, fix)
  PROVE  SysmonInv'
<1>1. SysmonTypeOK'
  BY SenseTyped DEF SysmonInv
<1>2. FailsafeDecided'
  BY DEF SysmonInv, Sense, FailsafeDecided, Failsafe, ForcedMode, Fallback, Benign
<1>3. LostImuLands' /\ LostRcReturns' /\ PilotKeepsMode' /\ SwitchTakesBack'
  BY DEF Sense, LostImuLands, LostRcReturns, PilotKeepsMode, SwitchTakesBack
<1>4. CriticalIsFailsafe'
  BY DEF Sense, CriticalIsFailsafe, Failsafe, Benign
<1>5. SwitchRemembered'
  BY DEF SysmonInv, Sense, SwitchRemembered, armVars
<1>6. QED
  BY <1>1, <1>2, <1>3, <1>4, <1>5 DEF SysmonInv

(* What the failsafe step decides lasts until VEHICLE_STATUS goes out. *)
LEMMA SysmonInvStep == SysmonInv /\ [SysmonNext]_sysVars => SysmonInv'
<1> SUFFICES ASSUME SysmonInv, [SysmonNext]_sysVars PROVE SysmonInv'
  OBVIOUS
<1> USE DEF SysmonInv
<1>t. SysmonTypeOK'
  BY SysmonTypeStep
<1>1. ASSUME NEW batt \in Batteries, NEW fresh \in SUBSET Sources,
             NEW frame \in Frames \cup {rc}, NEW fix \in BOOLEAN,
             Sense(batt, fresh, frame, fix)
      PROVE  SysmonInv'
  <2>1. frame \in AllFrames
    BY SysmonAssumption DEF SysmonTypeOK
  <2>2. QED
    BY <1>1, <2>1, SenseDecides
<1>2. ASSUME NEW landed \in BOOLEAN, Switches(landed) PROVE SysmonInv'
  <2>1. FailsafeDecided'
    BY <1>2 DEF Switches, FailsafeDecided
  <2>2. LostImuLands'
    BY <1>2 DEF Switches, LostImuLands, FailsafeDecided, SwitchedMode, Benign,
                ArmEdge
  <2>3. LostRcReturns'
    BY <1>2 DEF Switches, LostRcReturns, FailsafeDecided, SwitchedMode, ArmEdge,
                SysmonTypeOK, AutoDisarm, DisarmEdge
  <2>4. PilotKeepsMode'
    BY <1>2 DEF Switches, PilotKeepsMode, FailsafeDecided, CriticalIsFailsafe,
                SwitchedMode, ArmEdge
  <2>5. CriticalIsFailsafe'
    BY <1>2 DEF Switches, CriticalIsFailsafe, Benign
  <2>6. SwitchTakesBack' /\ SwitchRemembered'
    BY <1>2 DEF Switches, SwitchTakesBack, SwitchRemembered, SysmonTypeOK,
                ArmEdge, DisarmEdge
  <2>7. QED
    BY <1>t, <2>1, <2>2, <2>3, <2>4, <2>5, <2>6
<1>3. ASSUME CommandReceived, mode' = mode \/ modeCmd',
             modeCmd => modeCmd',
             ~armed => ~armed' \/ ({"imu", "rc"} \subseteq ok /\ Benign(failsafe)),
             held' => held \/ rcArmPrev,
             bySwitch' => armed' /\ bySwitch
      PROVE  SysmonInv'
  <2>1. FailsafeDecided'
    BY <1>3 DEF FailsafeDecided, CommandReceived
  <2>2. LostImuLands' /\ LostRcReturns'
    BY <1>3 DEF LostImuLands, LostRcReturns, CommandReceived, SysmonTypeOK
  <2>3. PilotKeepsMode'
    BY <1>3 DEF PilotKeepsMode, CriticalIsFailsafe, CommandReceived, SysmonTypeOK
  <2>4. CriticalIsFailsafe'
    BY <1>3 DEF CriticalIsFailsafe, Benign, CommandReceived
  <2>5. SwitchTakesBack' /\ SwitchRemembered'
    BY <1>3 DEF SwitchTakesBack, SwitchRemembered, CommandReceived
  <2>6. QED
    BY <1>t, <2>1, <2>2, <2>3, <2>4, <2>5
<1>4. ASSUME Obey PROVE SysmonInv'
  <2>1. CASE ArmCommand
    BY <1>3, <2>1 DEF ArmCommand, SwitchRemembered
  <2>2. CASE DisarmCommand
    BY <1>3, <2>2 DEF DisarmCommand
  <2>3. CASE OtherCommand
    BY <1>3, <2>3 DEF OtherCommand, SwitchRemembered
  <2>4. CASE \E m \in ModeCommands : SetModeCommand(m)
    BY <1>3, <2>4 DEF SetModeCommand, SwitchRemembered
  <2>5. QED
    BY <1>4, <2>1, <2>2, <2>3, <2>4 DEF Obey
<1>5. ASSUME Reboot PROVE SysmonInv'
  BY <1>t, <1>5 DEF Reboot, FailsafeDecided, LostImuLands, LostRcReturns,
                    PilotKeepsMode, SwitchTakesBack, CriticalIsFailsafe,
                    SwitchRemembered
<1>6. ASSUME Publish PROVE SysmonInv'
  BY <1>t, <1>6 DEF Publish, FailsafeDecided, LostImuLands, LostRcReturns,
                    PilotKeepsMode, SwitchTakesBack, CriticalIsFailsafe,
                    SwitchRemembered, armVars
<1>7. CASE UNCHANGED sysVars
  BY <1>t, <1>7 DEF sysVars, armVars, FailsafeDecided, LostImuLands, LostRcReturns,
                    PilotKeepsMode, SwitchTakesBack, CriticalIsFailsafe,
                    SwitchRemembered, Benign
<1>8. QED
  BY <1>1, <1>2, <1>4, <1>5, <1>6, <1>7 DEF SysmonNext, Command

-----------------------------------------------------------------------------
(* The invariant of sysmon_task's loop. *)
LEMMA SysmonInvariant == SysmonSpec => []SysmonInv
<1>1. QED
  BY SysmonInitInv, SysmonInvStep, PTL DEF SysmonSpec

(* The variables of sysmon_task keep their types; in particular the        *)
(* landing timer never runs past its confirmation time.                    *)
THEOREM SysmonTypeCorrect == SysmonSpec => []SysmonTypeOK
  BY SysmonInvariant, PTL DEF SysmonInv

(* The failsafe of a dead IMU, section 4 of the cycle, survives sections   *)
(* 4b to 7.                                                                *)
THEOREM ImuLossLands == SysmonSpec => []LostImuLands
  BY SysmonInvariant, PTL DEF SysmonInv

(* So does the failsafe of a lost RC link. *)
THEOREM RcLossReturns == SysmonSpec => []LostRcReturns
  BY SysmonInvariant, PTL DEF SysmonInv

(* Section 4d applies the mode switch in every cycle without a failsafe,   *)
(* and sections 6b and 7 take nothing from it but by a SET_MODE.           *)
THEOREM PilotHasTheSay == SysmonSpec => []PilotKeepsMode
  BY SysmonInvariant, PTL DEF SysmonInv

(* rc_arm_prev is on as long as the switch's own arming lasts, so the edge *)
(* of section 4d is there whenever the switch is read off.                 *)
THEOREM SwitchDisarms == SysmonSpec => []SwitchTakesBack
  BY SysmonInvariant, PTL DEF SysmonInv

(* Neither of the two places that arm the vehicle forgets a check. *)
THEOREM ArmingIsSafe == SysmonSpec => ArmedOnlyWhenSafe
<1>1. [SysmonNext]_sysVars =>
        [(~armed /\ armed') => /\ {"imu", "rc"} \subseteq ok
                               /\ Benign(failsafe)
                               /\ rc.collLow]_sysVars
  BY DEF SysmonNext, Command, Obey, sysVars, Sense, Switches, ArmEdge,
         ArmCommand, DisarmCommand, OtherCommand, SetModeCommand,
         CommandReceived, Reboot, Publish
<1>2. QED
  BY <1>1, PTL DEF SysmonSpec, ArmedOnlyWhenSafe

(* rc_arm_prev makes the arm switch a momentary one: an automatic or       *)
(* remote disarm is not undone by a switch that was left on, as long as    *)
(* the program that remembers it runs.  After a restart it can be, once.   *)
THEOREM HeldSwitchDoesNotArm == SysmonSpec => NoArmingByHeldSwitch
<1>1. SysmonInv /\ [SysmonNext]_sysVars =>
        [(sysPc = "switches" /\ ~armed /\ armed') => ~held \/ ~looked]_sysVars
  BY DEF SysmonNext, Command, Obey, sysVars, Sense, Switches, ArmEdge,
         ArmCommand, DisarmCommand, OtherCommand, SetModeCommand,
         CommandReceived, Reboot, Publish, SysmonInv, SwitchRemembered
<1>2. QED
  BY <1>1, SysmonInvariant, PTL DEF SysmonSpec, NoArmingByHeldSwitch
=============================================================================
