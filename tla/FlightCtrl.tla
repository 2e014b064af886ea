----------------------------- MODULE FlightCtrl -----------------------------
(***************************************************************************)
(* The flight controller (agents/flight_ctrl_agent.c): a 500 Hz loop that  *)
(* reads the vehicle's status, GPS and altitude, runs the flight mode it   *)
(* is told to fly and publishes ACTUATOR_CONTROLS.  One action is one      *)
(* iteration of the loop; iterations differ by the branch of the mode they *)
(* run.  What orb_copy left in the local copies is a parameter: the status *)
(* st, the GPS fix and the altitude.                                       *)
(*                                                                         *)
(* Kept: which mode runs, what it captured when it was entered, home, the  *)
(* phases of the return home, the touchdown timer and latch, and the       *)
(* collective's intent.  Left out: the control laws, the sticks, altitude  *)
(* set points, and the navigation along a mission, which is module         *)
(* Mission.  Altitudes are counted in steps; step 0 is below               *)
(* LAND_DETECT_ALT, and within 2 m of home means no step above it.  Places *)
(* stand for what is within RTH_APPROACH_RADIUS of each other.             *)
(*                                                                         *)
(* X_Suffix is operator X with a plausible mistake, for PROJECT.json.      *)
(***************************************************************************)
EXTENDS Naturals

CONSTANTS
  Place,        (* the places the vehicle can be at                         *)
  Origin,       (* latitude and longitude 0, the initial value of both      *)
  MaxAlt,       (* bound: the highest altitude step                         *)
  RthAltitude,  (* RTH_ALTITUDE in steps                                    *)
  LandDetect,   (* LAND_DETECT_TIME_MS in time steps                        *)
  FcModes       (* bound: the flight modes the status can ask for           *)

NoHome == "no home"

ASSUME FlightCtrlAssumption ==
  /\ Origin \in Place /\ NoHome \notin Place
  /\ MaxAlt \in Nat /\ RthAltitude \in Nat \ {0} /\ LandDetect \in Nat
  /\ FcModes \subseteq {"MANUAL", "STABILIZE", "ALT_HOLD", "LOITER", "RTH",
                        "LAND", "ACRO", "MISSION"}

Altitudes == 0 .. MaxAlt
Phases == {"CLIMB", "TRANSIT", "DESCEND", "LAND"}

(* fix: fix_type >= 3; good: satellites >= 6 as well; at: where it says.   *)
Gps == {g \in [fix : BOOLEAN, good : BOOLEAN, at : Place] : g.good => g.fix}
Status == [armed : BOOLEAN, mode : FcModes \cup {"MANUAL"}]

(* ACTUATOR_CONTROLS: the collective's intent and land_detected.  "min" is *)
(* -1 without throttle, "zero" the neutral pitch of a cleared message.     *)
Collectives == {"min", "zero", "stick", "hold", "climb", "descend", "mission"}
Controls == [coll : Collectives, landed : BOOLEAN]

VARIABLES
  fcStatus,   (* status, the local copy of VEHICLE_STATUS                   *)
  prevMode,   (* prev_mode                                                  *)
  home,       (* home_lat and home_lon once home_set, or NoHome             *)
  homeAlt,    (* home_alt                                                   *)
  loiter,     (* loiter_lat and loiter_lon                                  *)
  rthPhase,   (* rth_phase                                                  *)
  landSince,  (* time steps since land_low_alt_start_ms, plus one; or 0     *)
  landDet,    (* land_detected                                              *)
  controls,   (* the last ACTUATOR_CONTROLS published                       *)
  stay        (* history: the current armed stay in a mode, see Staying     *)

fcVars == <<fcStatus, prevMode, home, homeAlt, loiter, rthPhase, landSince,
            landDet, controls, stay>>

NoStay == [entered |-> FALSE, at |-> Origin, rth |-> FALSE, low |-> FALSE,
           nearHome |-> FALSE]

FcInit ==
  /\ fcStatus = [armed |-> FALSE, mode |-> "MANUAL"]
  /\ prevMode = "MANUAL"
  /\ home = NoHome
  /\ homeAlt = 0
  /\ loiter = Origin
  /\ rthPhase = "CLIMB"
  /\ landSince = 0
  /\ landDet = FALSE
  /\ controls = [coll |-> "zero", landed |-> FALSE]
  /\ stay = NoStay

-----------------------------------------------------------------------------
Capturing(st, gps) == st.armed /\ home = NoHome /\ gps.good

Read_AltAtArming(st, gps, alt) ==
  /\ fcStatus' = st
  /\ home' = IF Capturing(st, gps) THEN gps.at ELSE home
  /\ homeAlt' = IF st.armed /\ home = NoHome THEN alt ELSE homeAlt

(* The top of the loop: the local copy, and home at the first armed        *)
(* iteration with a good fix; it is never given up again.                  *)
Read(st, gps, alt) ==
  /\ fcStatus' = st
  /\ home' = IF Capturing(st, gps) THEN gps.at ELSE home
  /\ homeAlt' = IF Capturing(st, gps) THEN alt ELSE homeAlt

(* History: a stay begins when the vehicle is armed in a mode or changes   *)
(* to it while armed.  It records whether the mode saw itself entered, the *)
(* place where it began, whether it began a return home with a home and a  *)
(* fix, and whether the vehicle was low or near home during it.            *)
Staying(st, gps, alt) ==
  LET begins == ~fcStatus.armed \/ st.mode # fcStatus.mode
      near == gps.fix /\ gps.at = home'
  IN  stay' = [entered  |-> IF begins THEN st.mode # prevMode ELSE stay.entered,
               at       |-> IF begins THEN gps.at ELSE stay.at,
               rth      |-> IF begins THEN st.mode # prevMode /\ home' # NoHome /\ gps.fix
                                      ELSE stay.rth,
               low      |-> alt = 0 \/ (~begins /\ stay.low),
               nearHome |-> near \/ (~begins /\ stay.nearHome)]

Armed(m, st, gps, alt) ==
  /\ st.armed /\ st.mode = m
  /\ Read(st, gps, alt)
  /\ Staying(st, gps, alt)
  /\ prevMode' = m

Send(c, l) == controls' = [coll |-> c, landed |-> l]

(* Disarmed: safe controls, and prev_mode follows the mode all the same. *)
Disarmed(st, gps, alt) ==
  /\ ~st.armed
  /\ Read(st, gps, alt)
  /\ prevMode' = st.mode
  /\ landDet' = FALSE
  /\ Send("min", FALSE)
  /\ stay' = NoStay
  /\ UNCHANGED <<loiter, rthPhase, landSince>>

(* MANUAL, ACRO, STABILIZE and ALT_HOLD: the pilot's sticks. *)
Sticks(st, gps, alt) ==
  /\ \E m \in {"MANUAL", "ACRO", "STABILIZE", "ALT_HOLD"} : Armed(m, st, gps, alt)
  /\ Send("stick", FALSE)
  /\ UNCHANGED <<loiter, rthPhase, landSince, landDet>>

Loiter_NoCapture(st, gps, alt) ==
  /\ Armed("LOITER", st, gps, alt)
  /\ loiter' = IF loiter = Origin THEN gps.at ELSE loiter
  /\ Send("stick", FALSE)
  /\ UNCHANGED <<rthPhase, landSince, landDet>>

(* LOITER: hold the position captured on entry. *)
Loiter(st, gps, alt) ==
  /\ Armed("LOITER", st, gps, alt)
  /\ loiter' = IF prevMode # "LOITER" THEN gps.at ELSE loiter
  /\ Send("stick", FALSE)
  /\ UNCHANGED <<rthPhase, landSince, landDet>>

(* RTH without a home or a fix: hold the altitude, leave the phase alone. *)
RthHold(st, gps, alt) ==
  /\ Armed("RTH", st, gps, alt)
  /\ home' = NoHome \/ ~gps.fix
  /\ Send("hold", FALSE)
  /\ UNCHANGED <<loiter, rthPhase, landSince, landDet>>

NextPhase_AnyPlace(ph, gps, alt) ==
  IF ph = "CLIMB" /\ alt >= homeAlt' + RthAltitude THEN "DESCEND"
  ELSE IF ph = "TRANSIT" /\ gps.at = home' THEN "DESCEND"
  ELSE IF ph = "DESCEND" /\ alt <= homeAlt' THEN "LAND"
  ELSE ph

(* RTH: the phase after an iteration in phase ph. *)
NextPhase(ph, gps, alt) ==
  IF ph = "CLIMB" /\ alt >= homeAlt' + RthAltitude THEN "TRANSIT"
  ELSE IF ph = "TRANSIT" /\ gps.at = home' THEN "DESCEND"
  ELSE IF ph = "DESCEND" /\ alt <= homeAlt' THEN "LAND"
  ELSE ph

(* ... and what it does with the collective.  *)
Intent == [CLIMB |-> "climb", TRANSIT |-> "hold", DESCEND |-> "descend",
           LAND |-> "descend"]

RthReturn(st, gps, alt) ==
  LET ph == IF prevMode # "RTH" THEN "CLIMB" ELSE rthPhase IN
  /\ Armed("RTH", st, gps, alt)
  /\ home' # NoHome /\ gps.fix
  /\ rthPhase' = NextPhase(ph, gps, alt)
  /\ Send(Intent[ph], FALSE)
  /\ UNCHANGED <<loiter, landSince, landDet>>

Land_NoReset(st, gps, alt) ==
  LET since == IF prevMode # "LAND" THEN 0 ELSE landSince
      started == IF since = 0 THEN 1 ELSE since
      confirmed == alt = 0 /\ started > LandDetect + 1
      landed == landDet \/ confirmed
  IN
  /\ Armed("LAND", st, gps, alt)
  /\ landSince' = IF alt = 0 THEN started ELSE 0
  /\ landDet' = landed
  /\ Send(IF confirmed THEN "min" ELSE IF landed THEN "zero" ELSE "descend", landed)
  /\ UNCHANGED <<loiter, rthPhase>>

(* LAND: low for longer than the detection time, or found so earlier in    *)
(* this stay: the flag is latched, and a vehicle that rises again gets     *)
(* neither the descent nor the cut but neutral collective.                 *)
Land(st, gps, alt) ==
  LET enters == prevMode # "LAND"
      since == IF enters THEN 0 ELSE landSince
      started == IF since = 0 THEN 1 ELSE since
      confirmed == alt = 0 /\ started > LandDetect + 1
      landed == (~enters /\ landDet) \/ confirmed
  IN
  /\ Armed("LAND", st, gps, alt)
  /\ landSince' = IF alt = 0 THEN started ELSE 0
  /\ landDet' = landed
  /\ Send(IF confirmed THEN "min" ELSE IF landed THEN "zero" ELSE "descend", landed)
  /\ UNCHANGED <<loiter, rthPhase>>

(* MISSION without items or without a fix: the position captured on entry  *)
(* is held.  items: mission_mgr_get_count() is not 0.                      *)
MissionHold(st, gps, alt, items) ==
  /\ Armed("MISSION", st, gps, alt)
  /\ ~items \/ ~gps.fix
  /\ loiter' = IF prevMode # "MISSION" THEN gps.at ELSE loiter
  /\ Send("hold", FALSE)
  /\ UNCHANGED <<rthPhase, landSince, landDet>>

MissionFly(st, gps, alt, items) ==
  /\ Armed("MISSION", st, gps, alt)
  /\ items /\ gps.fix
  /\ Send("mission", FALSE)
  /\ UNCHANGED <<loiter, rthPhase, landSince, landDet>>

(* One iteration of the loop. *)
FcIteration(st, gps, alt, items) ==
  \/ Disarmed(st, gps, alt)
  \/ Sticks(st, gps, alt)
  \/ Loiter(st, gps, alt)
  \/ RthHold(st, gps, alt)
  \/ RthReturn(st, gps, alt)
  \/ Land(st, gps, alt)
  \/ MissionHold(st, gps, alt, items)
  \/ MissionFly(st, gps, alt, items)

(* Time passes for the touchdown timer, whatever mode is flown. *)
FcClock ==
  /\ landSince' = IF landSince \in 1 .. LandDetect + 1 THEN landSince + 1 ELSE landSince
  /\ UNCHANGED <<fcStatus, prevMode, home, homeAlt, loiter, rthPhase, landDet,
                 controls, stay>>

-----------------------------------------------------------------------------
(* The controller alone, told anything. *)
FcNext ==
  \/ \E st \in Status, gps \in Gps, alt \in Altitudes, items \in BOOLEAN :
       FcIteration(st, gps, alt, items)
  \/ FcClock

FcSpec == FcInit /\ [][FcNext]_fcVars

-----------------------------------------------------------------------------
(* The shape of the controller's state; before home is captured its        *)
(* altitude is the initial 0.                                              *)
FcTypeOK ==
  /\ fcStatus \in Status
  /\ prevMode \in FcModes \cup {"MANUAL"}
  /\ home \in Place \cup {NoHome}
  /\ homeAlt \in Altitudes
  /\ home = NoHome => homeAlt = 0
  /\ loiter \in Place
  /\ rthPhase \in Phases
  /\ landSince \in 0 .. LandDetect + 2
  /\ landDet \in BOOLEAN
  /\ controls \in Controls
  /\ stay \in [entered : BOOLEAN, at : Place, rth : BOOLEAN, low : BOOLEAN,
               nearHome : BOOLEAN]

(* land_detected, on which the monitor disarms, is published only if the   *)
(* vehicle was seen below LAND_DETECT_ALT since it last went to LAND: a    *)
(* latch left by an earlier landing never reports a touchdown in the air.  *)
LandedMeansTouched == controls.landed => fcStatus.mode = "LAND" /\ stay.low

(* A LOITER that saw itself entered holds the position of its entry,       *)
(* whatever RTH, LAND or MISSION did with their own state before.          *)
HoldsWhereEntered ==
  (fcStatus.armed /\ fcStatus.mode = "LOITER" /\ stay.entered) => loiter = stay.at

(* A return home that began with a home and a fix starts its descent only  *)
(* after it came within RTH_APPROACH_RADIUS of home in this same return,   *)
(* even if the fix was lost and found again on the way.                    *)
ReturnDescendsAtHome ==
  (fcStatus.armed /\ fcStatus.mode = "RTH" /\ stay.rth /\ rthPhase \in {"DESCEND", "LAND"})
    => stay.nearHome

(* RTH_APPROACH_RADIUS is the distance at which to start descending: no    *)
(* return home descends without having been that close to home.  It fails  *)
(* when RTH was entered without a fix, for rth_phase then is an older one. *)
RthDescendsAtHome ==
  (fcStatus.mode = "RTH" /\ stay.entered /\ controls.coll = "descend")
    => stay.nearHome
=============================================================================
