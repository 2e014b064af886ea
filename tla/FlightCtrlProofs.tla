-------------------------- MODULE FlightCtrlProofs --------------------------
(***************************************************************************)
(* For any places, altitudes, detection time and flight modes: when the    *)
(* controller reports a touchdown, what a LOITER holds and where a return  *)
(* home descends.                                                          *)
(*                                                                         *)
(* The three properties speak of one stay in a mode.  The inductive        *)
(* invariant adds what carries them from one stay to the next: prev_mode   *)
(* is always the mode of the last status, so that "entered" and "still     *)
(* there" exclude each other, and land_detected does not outlive a         *)
(* disarming.                                                              *)
(***************************************************************************)
EXTENDS FlightCtrl, TLAPS

(* prev_mode follows the status in every branch of the loop. *)
PrevIsCurrent == prevMode = fcStatus.mode

(* The latch holds only while armed, and in LAND only after the vehicle    *)
(* was low; what is published is the latch, and FALSE in other modes.      *)
LatchTouched ==
  /\ landDet => fcStatus.armed
  /\ (landDet /\ fcStatus.mode = "LAND") => stay.low
  /\ controls.landed => landDet /\ fcStatus.mode = "LAND"

FcInv ==
  /\ FcTypeOK
  /\ PrevIsCurrent
  /\ LatchTouched
  /\ HoldsWhereEntered
  /\ ReturnDescendsAtHome

(* The state flight_ctrl_task starts from. *)
LEMMA FcInitInv == FcInit => FcInv
<1> SUFFICES ASSUME FcInit PROVE FcInv
  OBVIOUS
<1>1. fcStatus \in Status /\ home \in Place \cup {NoHome}
  BY DEF FcInit, Status
<1>2. homeAlt \in Altitudes /\ landSince \in 0 .. LandDetect + 2
  BY FlightCtrlAssumption DEF FcInit, Altitudes
<1>3. controls \in Controls /\ rthPhase \in Phases /\ loiter \in Place
  BY FlightCtrlAssumption DEF FcInit, Controls, Collectives, Phases
<1>4. stay \in [entered : BOOLEAN, at : Place, rth : BOOLEAN, low : BOOLEAN,
                nearHome : BOOLEAN]
  BY FlightCtrlAssumption DEF FcInit, NoStay
<1>5. FcTypeOK
  BY <1>1, <1>2, <1>3, <1>4 DEF FcInit, FcTypeOK
<1>6. PrevIsCurrent /\ LatchTouched /\ HoldsWhereEntered /\ ReturnDescendsAtHome
  BY DEF FcInit, PrevIsCurrent, LatchTouched, HoldsWhereEntered,
         ReturnDescendsAtHome
<1>7. QED
  BY <1>5, <1>6 DEF FcInv

(* What the top of the loop and the history keep, whatever mode runs. *)
LEMMA ReadStayTyped ==
  ASSUME FcTypeOK, NEW st \in Status, NEW gps \in Gps, NEW alt \in Altitudes,
         Read(st, gps, alt), Staying(st, gps, alt)
  PROVE  /\ fcStatus' \in Status
         /\ home' \in Place \cup {NoHome}
         /\ homeAlt' \in Altitudes
         /\ home' = NoHome => homeAlt' = 0
         /\ stay' \in [entered : BOOLEAN, at : Place, rth : BOOLEAN,
                       low : BOOLEAN, nearHome : BOOLEAN]
<1> USE DEF FcTypeOK
<1>1. gps.at \in Place
  BY DEF Gps
<1>2. fcStatus' \in Status
  BY DEF Read
<1>3. /\ home' \in Place \cup {NoHome}
      /\ homeAlt' \in Altitudes
      /\ home' = NoHome => homeAlt' = 0
  BY <1>1, FlightCtrlAssumption DEF Read, Capturing
<1>4. stay' \in [entered : BOOLEAN, at : Place, rth : BOOLEAN, low : BOOLEAN,
                 nearHome : BOOLEAN]
  BY <1>1 DEF Staying, Gps
<1>5. QED
  BY <1>2, <1>3, <1>4

(* A stay that goes on was entered before and stays in its mode. *)
LEMMA StayGoesOn ==
  ASSUME PrevIsCurrent, NEW m, NEW st \in Status, NEW gps \in Gps,
         NEW alt \in Altitudes, Armed(m, st, gps, alt)
  PROVE  /\ fcStatus' = st /\ st.armed /\ st.mode = m /\ prevMode' = m
         /\ PrevIsCurrent'
         /\ (fcStatus.armed /\ prevMode = m) =>
              /\ stay'.entered = stay.entered /\ stay'.at = stay.at
              /\ stay'.rth = stay.rth
              /\ stay.low => stay'.low
              /\ stay.nearHome => stay'.nearHome
         /\ ~(fcStatus.armed /\ prevMode = m) =>
              /\ stay'.entered = (m # prevMode) /\ stay'.at = gps.at
              /\ stay'.rth = (m # prevMode /\ home' # NoHome /\ gps.fix)
         /\ alt = 0 => stay'.low
         /\ (gps.fix /\ gps.at = home') => stay'.nearHome
  BY DEF Armed, Read, Staying, PrevIsCurrent

(* No iteration and no passing of time leaves the declared shape.          *)
LEMMA FcTypeStep == FcTypeOK /\ [FcNext]_fcVars => FcTypeOK'
<1> SUFFICES ASSUME FcTypeOK, [FcNext]_fcVars PROVE FcTypeOK'
  OBVIOUS
<1>1. ASSUME NEW st \in Status, NEW gps \in Gps, NEW alt \in Altitudes,
             NEW items \in BOOLEAN, FcIteration(st, gps, alt, items)
      PROVE  FcTypeOK'
  <2>1. Read(st, gps, alt) /\ prevMode' = st.mode
    BY <1>1 DEF FcIteration, Disarmed, Sticks, Loiter, RthHold, RthReturn, Land,
                MissionHold, MissionFly, Armed
  <2>2. prevMode' \in FcModes \cup {"MANUAL"}
    BY <2>1 DEF Status
  <2>3. /\ fcStatus' \in Status
        /\ home' \in Place \cup {NoHome}
        /\ homeAlt' \in Altitudes
        /\ home' = NoHome => homeAlt' = 0
        /\ stay' \in [entered : BOOLEAN, at : Place, rth : BOOLEAN,
                      low : BOOLEAN, nearHome : BOOLEAN]
    <3>1. CASE st.armed
      <4>1. Staying(st, gps, alt)
        BY <1>1, <3>1 DEF FcIteration, Disarmed, Sticks, Loiter, RthHold,
                          RthReturn, Land, MissionHold, MissionFly, Armed
      <4>2. QED
        BY <2>1, <4>1, ReadStayTyped
    <3>2. CASE ~st.armed
      <4>1. stay' = NoStay
        BY <1>1, <3>2 DEF FcIteration, Disarmed, Sticks, Loiter, RthHold,
                          RthReturn, Land, MissionHold, MissionFly, Armed
      <4>2. fcStatus' = st /\ home' = home /\ homeAlt' = homeAlt
        BY <2>1, <3>2 DEF Read, Capturing
      <4>3. QED
        BY <4>1, <4>2, FlightCtrlAssumption DEF NoStay, FcTypeOK
    <3>3. QED
      BY <3>1, <3>2
  <2>4. loiter' \in Place
    BY <1>1 DEF FcIteration, Disarmed, Sticks, Loiter, RthHold, RthReturn, Land,
                MissionHold, MissionFly, FcTypeOK, Gps
  <2>5. rthPhase' \in Phases
    BY <1>1 DEF FcIteration, Disarmed, Sticks, Loiter, RthHold, RthReturn, Land,
                MissionHold, MissionFly, FcTypeOK, NextPhase, Phases
  <2>6. landSince' \in 0 .. LandDetect + 2
    <3>1. CASE Land(st, gps, alt)
      BY <3>1, FlightCtrlAssumption DEF Land, FcTypeOK
    <3>2. CASE ~Land(st, gps, alt)
      <4>1. landSince' = landSince
        BY <1>1, <3>2, Zenon DEF FcIteration, Disarmed, Sticks, Loiter, RthHold,
                                 RthReturn, MissionHold, MissionFly
      <4>2. QED
        BY <4>1 DEF FcTypeOK
    <3>3. QED
      BY <3>1, <3>2
  <2>7. landDet' \in BOOLEAN /\ controls' \in Controls
    <3>1. CASE Land(st, gps, alt)
      <4>1. landDet' \in BOOLEAN
        BY <3>1, Zenon DEF Land, FcTypeOK
      <4>2. controls' = [coll |-> controls'.coll, landed |-> landDet']
            /\ controls'.coll \in Collectives
        BY <3>1 DEF Land, Send, Collectives
      <4>3. QED
        BY <4>1, <4>2 DEF Controls
    <3>2. CASE RthReturn(st, gps, alt)
      <4>1. PICK ph \in Phases : controls' = [coll |-> Intent[ph], landed |-> FALSE]
        BY <3>2 DEF RthReturn, Send, Phases, FcTypeOK
      <4>2. Intent[ph] \in Collectives
        BY <4>1 DEF Intent, Phases, Collectives
      <4>3. landDet' \in BOOLEAN
        BY <3>2, Zenon DEF RthReturn, FcTypeOK
      <4>4. QED
        BY <4>1, <4>2, <4>3 DEF Controls
    <3>3. CASE ~Land(st, gps, alt) /\ ~RthReturn(st, gps, alt)
      <4>1. CASE Disarmed(st, gps, alt)
        BY <4>1 DEF Disarmed, Send, Controls, Collectives
      <4>2. CASE ~Disarmed(st, gps, alt)
        <5>1. UNCHANGED landDet
          BY <1>1, <3>3, <4>2, Zenon DEF FcIteration, Sticks, Loiter, RthHold,
                                 MissionHold, MissionFly
        <5>2. \E c \in {"stick", "hold", "mission"} : Send(c, FALSE)
          BY <1>1, <3>3, <4>2 DEF FcIteration, Sticks, Loiter, RthHold,
                                  MissionHold, MissionFly
        <5>3. controls' \in Controls
          BY <5>2 DEF Send, Controls, Collectives
        <5>4. QED
          BY <5>1, <5>3, Zenon DEF FcTypeOK
      <4>3. QED
        BY <4>1, <4>2
    <3>4. QED
      BY <3>1, <3>2, <3>3
  <2>8. QED
    BY <2>2, <2>3, <2>4, <2>5, <2>6, <2>7 DEF FcTypeOK
<1>2. ASSUME FcClock PROVE FcTypeOK'
  <2>1. landSince' \in 0 .. LandDetect + 2
    BY <1>2, FlightCtrlAssumption DEF FcClock, FcTypeOK
  <2>2. QED
    BY <1>2, <2>1, Zenon DEF FcClock, FcTypeOK
<1>3. CASE UNCHANGED fcVars
  BY <1>3, Zenon DEF fcVars, FcTypeOK
<1>4. QED
  BY <1>1, <1>2, <1>3 DEF FcNext

(* Each branch of the loop keeps what is said of the current stay.         *)
LEMMA FcInvStep == FcInv /\ [FcNext]_fcVars => FcInv'
<1> SUFFICES ASSUME FcInv, [FcNext]_fcVars PROVE FcInv'
  OBVIOUS
<1> USE DEF FcInv
<1>t. FcTypeOK'
  BY FcTypeStep
<1>1. ASSUME NEW st \in Status, NEW gps \in Gps, NEW alt \in Altitudes,
             NEW items \in BOOLEAN, FcIteration(st, gps, alt, items)
      PROVE  FcInv'
  <2>1. CASE Disarmed(st, gps, alt)
    <3>1. ~fcStatus'.armed /\ prevMode' = fcStatus'.mode /\ ~landDet' /\ ~controls'.landed
      BY <2>1 DEF Disarmed, Read, Send
    <3>2. QED
      BY <1>t, <3>1 DEF PrevIsCurrent, LatchTouched, HoldsWhereEntered,
                        ReturnDescendsAtHome
  <2>2. ASSUME NEW m, Armed(m, st, gps, alt), m # "LAND", ~controls'.landed,
               UNCHANGED landDet
        PROVE  LatchTouched'
    <3>1. fcStatus' = st /\ st.armed /\ st.mode = m
      BY <2>2, StayGoesOn
    <3>2. QED
      BY <2>2, <3>1 DEF LatchTouched
  <2>3. CASE Sticks(st, gps, alt)
    <3>1. PICK m \in {"MANUAL", "ACRO", "STABILIZE", "ALT_HOLD"} : Armed(m, st, gps, alt)
      BY <2>3 DEF Sticks
    <3>2. ~controls'.landed /\ UNCHANGED landDet
      BY <2>3 DEF Sticks, Send
    <3>3. LatchTouched'
      BY <2>2, <3>1, <3>2
    <3>4. PrevIsCurrent' /\ fcStatus'.mode = m
      BY <3>1, StayGoesOn
    <3>5. QED
      BY <1>t, <3>3, <3>4 DEF HoldsWhereEntered, ReturnDescendsAtHome
  <2>4. CASE Loiter(st, gps, alt)
    <3>1. Armed("LOITER", st, gps, alt) /\ ~controls'.landed /\ UNCHANGED landDet
      BY <2>4 DEF Loiter, Send
    <3>2. LatchTouched'
      BY <2>2, <3>1
    <3>3. HoldsWhereEntered'
      BY <2>4, <3>1, StayGoesOn DEF Loiter, HoldsWhereEntered, PrevIsCurrent
    <3>4. PrevIsCurrent' /\ ReturnDescendsAtHome'
      BY <3>1, StayGoesOn DEF ReturnDescendsAtHome
    <3>5. QED
      BY <1>t, <3>2, <3>3, <3>4
  <2>5. CASE RthHold(st, gps, alt)
    <3>1. Armed("RTH", st, gps, alt) /\ ~controls'.landed /\ UNCHANGED landDet
      BY <2>5 DEF RthHold, Send
    <3>2. LatchTouched'
      BY <2>2, <3>1
    <3>3. PrevIsCurrent' /\ HoldsWhereEntered'
      BY <3>1, StayGoesOn DEF HoldsWhereEntered
    <3>4. ReturnDescendsAtHome'
      BY <2>5, <3>1, StayGoesOn DEF RthHold, ReturnDescendsAtHome, PrevIsCurrent
    <3>5. QED
      BY <1>t, <3>2, <3>3, <3>4
  <2>6. CASE RthReturn(st, gps, alt)
    <3>1. Armed("RTH", st, gps, alt) /\ ~controls'.landed /\ UNCHANGED landDet
      BY <2>6 DEF RthReturn, Send
    <3>2. LatchTouched'
      BY <2>2, <3>1
    <3>3. PrevIsCurrent' /\ HoldsWhereEntered'
      BY <3>1, StayGoesOn DEF HoldsWhereEntered
    <3>4. ReturnDescendsAtHome'
      <4>1. CASE fcStatus.armed /\ prevMode = "RTH"
        <5>1. rthPhase' = NextPhase(rthPhase, gps, alt) /\ gps.fix
          BY <2>6, <4>1 DEF RthReturn
        <5>2. CASE rthPhase \in {"DESCEND", "LAND"}
          BY <3>1, <4>1, <5>2, StayGoesOn DEF ReturnDescendsAtHome, PrevIsCurrent
        <5>3. CASE rthPhase \notin {"DESCEND", "LAND"}
          <6>1. rthPhase' \in {"DESCEND", "LAND"} => gps.at = home'
            BY <5>1, <5>3 DEF NextPhase
          <6>2. QED
            BY <3>1, <5>1, <6>1, StayGoesOn DEF ReturnDescendsAtHome
        <5>4. QED
          BY <5>2, <5>3
      <4>2. CASE ~(fcStatus.armed /\ prevMode = "RTH")
        <5>1. stay'.rth => prevMode # "RTH"
          BY <3>1, <4>2, StayGoesOn
        <5>2. prevMode # "RTH" => rthPhase' \notin {"DESCEND", "LAND"}
          BY <2>6 DEF RthReturn, NextPhase
        <5>3. QED
          BY <5>1, <5>2 DEF ReturnDescendsAtHome
      <4>3. QED
        BY <4>1, <4>2
    <3>5. QED
      BY <1>t, <3>2, <3>3, <3>4
  <2>7. CASE Land(st, gps, alt)
    <3>1. Armed("LAND", st, gps, alt)
      BY <2>7 DEF Land
    <3>2. landDet' => alt = 0 \/ (prevMode = "LAND" /\ landDet)
      BY <2>7, Zenon DEF Land
    <3>3. controls'.landed = landDet'
      BY <2>7 DEF Land, Send
    <3>4. fcStatus'.armed /\ fcStatus'.mode = "LAND" /\ PrevIsCurrent'
      BY <3>1, StayGoesOn
    <3>5. (prevMode = "LAND" /\ landDet) => stay'.low
      BY <3>1, StayGoesOn DEF LatchTouched, PrevIsCurrent
    <3>6. landDet' => stay'.low
      BY <3>1, <3>2, <3>5, StayGoesOn
    <3>7. LatchTouched'
      BY <3>3, <3>4, <3>6 DEF LatchTouched
    <3>8. QED
      BY <1>t, <3>4, <3>7 DEF HoldsWhereEntered, ReturnDescendsAtHome
  <2>8. CASE MissionHold(st, gps, alt, items) \/ MissionFly(st, gps, alt, items)
    <3>1. Armed("MISSION", st, gps, alt) /\ ~controls'.landed /\ UNCHANGED landDet
      BY <2>8 DEF MissionHold, MissionFly, Send
    <3>2. LatchTouched'
      BY <2>2, <3>1
    <3>3. PrevIsCurrent' /\ fcStatus'.mode = "MISSION"
      BY <3>1, StayGoesOn
    <3>4. QED
      BY <1>t, <3>2, <3>3 DEF HoldsWhereEntered, ReturnDescendsAtHome
  <2>9. QED
    BY <1>1, <2>1, <2>3, <2>4, <2>5, <2>6, <2>7, <2>8 DEF FcIteration
<1>2. ASSUME FcClock PROVE FcInv'
  BY <1>t, <1>2 DEF FcClock, PrevIsCurrent, LatchTouched, HoldsWhereEntered,
                    ReturnDescendsAtHome
<1>3. CASE UNCHANGED fcVars
  BY <1>t, <1>3 DEF fcVars, PrevIsCurrent, LatchTouched, HoldsWhereEntered,
                    ReturnDescendsAtHome
<1>4. QED
  BY <1>1, <1>2, <1>3 DEF FcNext

-----------------------------------------------------------------------------
(* The invariant of flight_ctrl_task's loop. *)
LEMMA FcInvariant == FcSpec => []FcInv
<1>1. QED
  BY FcInitInv, FcInvStep, PTL DEF FcSpec

(* The variables of flight_ctrl_task keep their types; the touchdown timer *)
(* never needs more than one step beyond LAND_DETECT_TIME_MS.              *)
THEOREM FcTypeCorrect == FcSpec => []FcTypeOK
  BY FcInvariant, PTL DEF FcInv

(* What is published is the latch. *)
LEMMA LatchImpliesTouched == FcInv => LandedMeansTouched
  BY DEF FcInv, LatchTouched, LandedMeansTouched

(* land_detected is published in the LAND branch only, whose latch is      *)
(* reset on entry.                                                         *)
THEOREM TouchdownIsReal == FcSpec => []LandedMeansTouched
  BY FcInvariant, LatchImpliesTouched, PTL

(* loiter_lat and loiter_lon, shared with MISSION, are captured by every   *)
(* LOITER that sees itself entered.                                        *)
THEOREM LoiterHolds == FcSpec => []HoldsWhereEntered
  BY FcInvariant, PTL DEF FcInv

(* rth_phase restarts with a return that has a home and a fix, and reaches *)
(* RTH_DESCEND only through the approach radius.                           *)
THEOREM ReturnIsHome == FcSpec => []ReturnDescendsAtHome
  BY FcInvariant, PTL DEF FcInv
=============================================================================
