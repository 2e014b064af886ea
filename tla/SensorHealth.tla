---------------------------- MODULE SensorHealth ----------------------------
(***************************************************************************)
(* How the monitor learns that a sensor or the pilot's link is gone.       *)
(* Four tasks meet here, by rising priority:                               *)
(*                                                                         *)
(*   the monitor      reads its clock, then copies the IMU and RC topics,  *)
(*                    and calls a source healthy when the newest message   *)
(*                    it has seen is younger than the source's timeout     *)
(*                    (agents/sysmon_agent.c); it also publishes on the    *)
(*                    RC topic what the ground station sends as override   *)
(*   the SBUS reader  decodes the receiver's frames into one shared        *)
(*                    structure and raises a flag (drivers/sbus.c)         *)
(*   the sensor agent reads its clock, then the IMU, over a bus on which   *)
(*                    it waits, and now and then the receiver's structure, *)
(*                    and publishes (agents/sensor_agent.c)                *)
(*                                                                         *)
(* All run on core 0.  A task of higher priority runs between any two      *)
(* statements of a lower one; a lower one runs when the sensor agent       *)
(* waits, for the bus or its next period, and the monitor only when the    *)
(* reader waits for bytes too.                                             *)
(*                                                                         *)
(* Time is counted in readings of the monitor's clock, one in 100 ms.  A   *)
(* time stamp is represented by its age, the number of readings since it   *)
(* was taken: age 0 means that it is later than the last reading, so that  *)
(* the unsigned difference of the code wraps.  The vehicle has no GPS and  *)
(* no barometer, a good battery, and does not land.  It obeys the ground   *)
(* station but for REBOOT, which starts the behaviour anew.                *)
(*                                                                         *)
(* The paths of the two sources meet only in the monitor's decisions, so a *)
(* behaviour follows the messages of the sources in "followed" and leaves  *)
(* the monitor free to find the other one healthy or not.                  *)
(***************************************************************************)
EXTENDS Sysmon, Sequences

CONSTANTS
  ImuTimeout,  (* PARAM_SENSOR_TIMEOUT_MS in readings                       *)
  RcTimeout,   (* RC_TIMEOUT_US in readings                                 *)
  Followed,    (* the sets of sources a behaviour can follow                *)
  MaxErrors,   (* SENSOR_MAX_CONSECUTIVE_ERRORS                             *)
  Sent,        (* the frames the receiver can send                          *)
  Overrides,   (* the RC overrides the ground station can send              *)
  MaxPoll      (* bound: readings between two polls of the receiver, which  *)
               (* every tenth iteration of the sensor agent does            *)

ASSUME SensorHealthAssumption ==
  /\ ImuTimeout \in Nat \ {0}
  /\ RcTimeout \in Nat \ {0}
  /\ MaxErrors \in Nat \ {0}
  /\ Followed \subseteq SUBSET {"imu", "rc"}
  /\ Sent \subseteq [sw : Frames, failsafe : BOOLEAN]
  /\ Overrides \subseteq AllFrames
  /\ MaxPoll \in Nat \ {0}

VARIABLES
  followed,  (* the sources followed, chosen at the start                   *)
  rdPc,      (* how far the monitor is in section 2 of its cycle            *)
  imuLast,   (* age of last_imu_ts                                          *)
  rcLast,    (* age of last_rc_ts                                           *)
  imuQ,      (* the monitor's queue of SENSOR_IMU: ages, at most one        *)
  rcQ,       (* the monitor's queue of RC_CHANNELS: messages, at most one   *)
  snPc,      (* the sensor agent sleeps or is inside an iteration           *)
  stamp,     (* age of the now_us of its iteration, 0 between iterations    *)
  imuOn,     (* its imu_ok                                                  *)
  errors,    (* imu_consecutive_errors                                      *)
  rxPc,      (* the SBUS reader waits for bytes or is storing a frame       *)
  incoming,  (* the frame it stores                                         *)
  data,      (* s_data                                                      *)
  newData,   (* s_new_data                                                  *)
  torn,      (* history: the last frame sbus_read returned was half stored  *)
  sampleAge, (* history: age of the newest sample published                 *)
  heardAge,  (* history: readings since the receiver last delivered a frame *)
             (* without failsafe, or an override was obeyed                 *)
  pollAge    (* readings since the receiver was last polled                 *)

monVars == <<followed, rdPc, imuLast, rcLast>>
topicVars == <<imuQ, rcQ>>
agentVars == <<snPc, stamp, imuOn, errors, torn, sampleAge, pollAge>>
sbusVars == <<rxPc, incoming, data, heardAge>>
shVars == <<sysVars, monVars, topicVars, agentVars, sbusVars, newData>>

(* An age that no timeout distinguishes from an older one; also that of a  *)
(* time stamp that was never taken, which the code tells by its being 0.   *)
OldImu == ImuTimeout + 1
OldRc == RcTimeout + 1
OldHeard == RcTimeout + MaxPoll + 1

NoFrame == [sw |-> ZeroFrame, failsafe |-> FALSE]

ShInit ==
  /\ SysmonInit
  /\ followed \in Followed
  /\ rdPc = "clock" /\ imuLast = OldImu /\ rcLast = OldRc
  /\ imuQ = <<>> /\ rcQ = <<>>
  /\ snPc = "asleep" /\ stamp = 0 /\ errors = 0
  /\ imuOn \in IF "imu" \in followed THEN BOOLEAN ELSE {TRUE}
  /\ torn = FALSE /\ sampleAge = OldImu /\ pollAge = 0
  /\ rxPc = "waiting" /\ incoming = NoFrame /\ data = NoFrame /\ newData = FALSE
  /\ heardAge = OldHeard

-----------------------------------------------------------------------------
(* The SBUS reader.  The framer passes on what has a header and a footer;  *)
(* a frame it rejects leaves no trace.  The flag goes up after the store.  *)
FlagAfter_Early(step) == IF step = "begin" THEN TRUE ELSE newData

FlagAfter(step) == IF step = "end" THEN TRUE ELSE newData

BeginStore(frame) ==
  /\ "rc" \in followed
  /\ rxPc = "waiting"
  /\ rxPc' = "storing"
  /\ incoming' = frame
  /\ heardAge' = IF frame.failsafe THEN heardAge ELSE 0
  /\ newData' = FlagAfter("begin")
  /\ UNCHANGED <<sysVars, monVars, topicVars, agentVars, data>>

EndStore ==
  /\ rxPc = "storing"
  /\ rxPc' = "waiting"
  /\ data' = incoming
  /\ newData' = FlagAfter("end")
  /\ UNCHANGED <<sysVars, monVars, topicVars, agentVars, incoming, heardAge>>

(* What sbus_read finds in s_data: while a frame is being stored, any      *)
(* mixture of it and the one before, field by field.                       *)
Mixtures(f, g) ==
  [sw : [arm : {f.sw.arm, g.sw.arm}, mode : {f.sw.mode, g.sw.mode},
         collLow : {f.sw.collLow, g.sw.collLow}],
   failsafe : {f.failsafe, g.failsafe}]

Readable == IF rxPc = "storing" THEN Mixtures(data, incoming) ELSE {data}

(* The poll of the receiver, in an iteration that does it: a frame is      *)
(* taken once, and published unless the receiver marks it as failsafe.     *)
PollReceiver_AnyFrame ==
  /\ pollAge' = 0
  /\ newData' = FALSE
  /\ IF ~newData THEN UNCHANGED <<rcQ, torn>>
     ELSE \E f \in Readable :
            /\ torn' = (rxPc = "storing")
            /\ rcQ' = <<[age |-> stamp, sw |-> f.sw]>>

PollReceiver ==
  /\ pollAge' = 0
  /\ newData' = FALSE
  /\ IF ~newData THEN UNCHANGED <<rcQ, torn>>
     ELSE \E f \in Readable :
            /\ torn' = (rxPc = "storing")
            /\ rcQ' = IF f.failsafe THEN rcQ ELSE <<[age |-> stamp, sw |-> f.sw]>>

(* The IMU part of an iteration.  A spike is read without error but not    *)
(* published; so many errors in a row give the IMU up for good.            *)
ReadImu_NeverGivesUp(result) ==
  IF ~imuOn \/ "imu" \notin followed THEN UNCHANGED <<imuOn, errors, imuQ, sampleAge>>
  ELSE /\ errors' = IF result = "error" THEN errors + 1 ELSE 0
       /\ IF result = "sample" THEN imuQ' = <<stamp>> /\ sampleAge' = stamp
          ELSE UNCHANGED <<imuQ, sampleAge>>
       /\ UNCHANGED imuOn

ReadImu(result) ==
  IF ~imuOn \/ "imu" \notin followed THEN UNCHANGED <<imuOn, errors, imuQ, sampleAge>>
  ELSE /\ errors' = IF result = "error" THEN errors + 1 ELSE 0
       /\ imuOn' = (errors' # MaxErrors)
       /\ IF result = "sample" THEN imuQ' = <<stamp>> /\ sampleAge' = stamp
          ELSE UNCHANGED <<imuQ, sampleAge>>

(* An iteration reads the clock, waits for the bus, and does the rest      *)
(* without giving way to the reader or the monitor.                        *)
BeginIteration ==
  /\ snPc = "asleep"
  /\ snPc' = "reading"
  /\ UNCHANGED <<sysVars, monVars, topicVars, stamp, imuOn, errors, torn,
                 sampleAge, pollAge, sbusVars, newData>>

EndIteration(result, poll) ==
  /\ poll => "rc" \in followed
  /\ snPc = "reading"
  /\ snPc' = "asleep" /\ stamp' = 0
  /\ ReadImu(result)
  /\ IF poll THEN PollReceiver ELSE UNCHANGED <<pollAge, newData, rcQ, torn>>
  /\ UNCHANGED <<sysVars, monVars, sbusVars>>

-----------------------------------------------------------------------------
Older(age, old) == IF age < old THEN age + 1 ELSE age

(* The monitor, which runs when the reader waits.  now_us is read first;   *)
(* everything stamped before is a reading older.  An iteration of the      *)
(* sensor agent is shorter than a period, since the bus gives up a device  *)
(* after half of one.                                                      *)
ReadClock ==
  /\ sysPc = "sense" /\ rdPc = "clock" /\ rxPc = "waiting"
  /\ pollAge < MaxPoll \/ "rc" \notin followed
  /\ snPc = "reading" => stamp = 0
  /\ rdPc' = "imu"
  /\ imuLast' = Older(imuLast, OldImu)
  /\ rcLast' = Older(rcLast, OldRc)
  /\ imuQ' = [i \in DOMAIN imuQ |-> Older(imuQ[i], OldImu)]
  /\ rcQ' = [i \in DOMAIN rcQ |-> [rcQ[i] EXCEPT !.age = Older(@, OldRc)]]
  /\ stamp' = IF snPc = "reading" THEN 1 ELSE 0
  /\ sampleAge' = Older(sampleAge, OldImu)
  /\ heardAge' = Older(heardAge, OldHeard)
  /\ pollAge' = Older(pollAge, MaxPoll)
  /\ UNCHANGED <<sysVars, followed, snPc, imuOn, errors, torn, rxPc, incoming, data, newData>>

CopyImu_Again ==
  /\ rdPc = "imu" /\ rxPc = "waiting"
  /\ rdPc' = "rc"
  /\ imuQ' = <<>>
  /\ UNCHANGED <<sysVars, followed, imuLast, rcLast, rcQ, agentVars, sbusVars, newData>>

CopyImu_StampedNow ==
  /\ rdPc = "imu" /\ rxPc = "waiting"
  /\ rdPc' = "rc"
  /\ imuLast' = IF imuQ = <<>> THEN imuLast ELSE 1
  /\ imuQ' = <<>>
  /\ UNCHANGED <<sysVars, followed, rcLast, rcQ, agentVars, sbusVars, newData>>

CopyImu ==
  /\ rdPc = "imu" /\ rxPc = "waiting"
  /\ rdPc' = "rc"
  /\ imuLast' = IF imuQ = <<>> THEN imuLast ELSE imuQ[1]
  /\ imuQ' = <<>>
  /\ UNCHANGED <<sysVars, followed, rcLast, rcQ, agentVars, sbusVars, newData>>

(* (now_us - last_ts) < timeout, unsigned.  A stamp of age n was taken     *)
(* between n - 1 and n periods before the reading, give or take a delay of *)
(* the monitor.                                                            *)
Young(age, timeout) ==
  IF age = timeout THEN BOOLEAN ELSE {age > 0 /\ age < timeout}

(* The copy of RC_CHANNELS, the health flags, and sections 3 to 4b.        *)
Verdict(source, age, timeout) ==
  IF source \in followed THEN Young(age, timeout) ELSE BOOLEAN

Received ==
  IF "rc" \notin followed THEN [age : {rcLast}, sw : Frames]
  ELSE IF rcQ = <<>> THEN {[age |-> rcLast, sw |-> rc]}
  ELSE {rcQ[1]}

CopyRcAndSense ==
  /\ rdPc = "rc" /\ rxPc = "waiting"
  /\ rdPc' = "clock"
  /\ rcQ' = <<>>
  /\ \E m \in Received :
       /\ rcLast' = m.age
       /\ \E imu \in Verdict("imu", imuLast, ImuTimeout),
             link \in Verdict("rc", m.age, RcTimeout) :
            Sense("good", {s \in {"imu", "rc"} : IF s = "imu" THEN imu ELSE link},
                  m.sw, FALSE)
  /\ UNCHANGED <<followed, imuLast, imuQ, agentVars, sbusVars, newData>>

(* RPC_CMD_RC_OVERRIDE: an ordinary RC_CHANNELS message with the now_us of *)
(* the cycle and whatever channels the ground station sent: the handler    *)
(* does not limit them, and they count as the receiver's do.               *)
OverrideCommand(sw) ==
  /\ OtherCommand
  /\ rcQ' = <<[age |-> 0, sw |-> sw]>>
  /\ heardAge' = 0

MonitorOverrides ==
  /\ rxPc = "waiting" /\ "rc" \in followed
  /\ \E sw \in Overrides : OverrideCommand(sw)
  /\ UNCHANGED <<monVars, imuQ, agentVars, rxPc, incoming, data, newData>>

(* Sections 4c to 6b, and VEHICLE_STATUS. *)
MonitorDecides ==
  /\ rxPc = "waiting"
  /\ Switches(FALSE) \/ Publish
  /\ UNCHANGED <<monVars, topicVars, agentVars, sbusVars, newData>>

(* Any other command of the cycle. *)
MonitorObeys ==
  /\ rxPc = "waiting"
  /\ Obey
  /\ UNCHANGED <<monVars, topicVars, agentVars, sbusVars, newData>>

-----------------------------------------------------------------------------
ShNext ==
  \/ \E frame \in Sent : BeginStore(frame)
  \/ EndStore
  \/ BeginIteration
  \/ \E result \in {"sample", "spike", "error"}, poll \in BOOLEAN :
       EndIteration(result, poll)
  \/ ReadClock \/ CopyImu \/ CopyRcAndSense
  \/ MonitorDecides \/ MonitorObeys \/ MonitorOverrides

ShSpec == ShInit /\ [][ShNext]_shVars

-----------------------------------------------------------------------------
(* The shape of the state. *)
ShTypeOK ==
  /\ SysmonTypeOK
  /\ followed \in Followed
  /\ rdPc \in {"clock", "imu", "rc"}
  /\ imuLast \in 0 .. OldImu
  /\ rcLast \in 0 .. OldRc
  /\ imuQ = <<>> \/ \E a \in 0 .. OldImu : imuQ = <<a>>
  /\ \/ rcQ = <<>>
     \/ \E m \in [age : 0 .. OldRc, sw : AllFrames] : rcQ = <<m>>
  /\ snPc \in {"asleep", "reading"}
  /\ stamp \in 0 .. 1
  /\ imuOn \in BOOLEAN
  /\ errors \in 0 .. MaxErrors
  /\ rxPc \in {"waiting", "storing"}
  /\ incoming \in [sw : AllFrames, failsafe : BOOLEAN]
  /\ data \in [sw : AllFrames, failsafe : BOOLEAN]
  /\ newData \in BOOLEAN
  /\ torn \in BOOLEAN
  /\ sampleAge \in 0 .. OldImu
  /\ heardAge \in 0 .. OldHeard
  /\ pollAge \in 0 .. MaxPoll

(* sbus_read and the reader share s_data and a flag without a lock, and    *)
(* the sensor agent may come in the middle of the store: it can take half  *)
(* a frame for a whole one.  It never stays with it: the rest of the store *)
(* is still to come, or its flag is up and the next poll takes the whole.  *)
TornFrameReplaced == torn => (rxPc = "storing" \/ newData)

(* The link counts as healthy only if a frame without failsafe or an       *)
(* override came in within the timeout and the time between two polls: no  *)
(* frame waiting in s_data or in the topic's queue, none half overwritten  *)
(* by a failsafe frame, and no failsafe frame itself keeps it alive any    *)
(* longer.  The code stamps a frame when it is polled, not when it came.   *)
LinkLossNoticed ==
  ("rc" \in followed /\ sysPc # "sense" /\ "rc" \in ok) => heardAge <= RcTimeout + MaxPoll

(* Whether the IMU is out of order, returns nothing but spikes or has been *)
(* given up: when no sample has been published for longer than the         *)
(* timeout, the status of an armed vehicle goes out with LAND, unless a    *)
(* SET_MODE of this very cycle took it out.  No command arms it meanwhile. *)
SilentImuLands ==
  (/\ "imu" \in followed /\ sysPc = "commands" /\ ~modeCmd
   /\ armed /\ sampleAge > ImuTimeout) => mode = "LAND"

(* The IMU is never called healthy later than that; and it is called dead  *)
(* only if it was silent up to the timeout, or if a sample was stamped     *)
(* after the monitor read its clock, in the same cycle (the unsigned age   *)
(* wraps), or reached the topic after the monitor had copied it.           *)
ImuJudgedRight ==
  [][("imu" \in followed /\ sysPc = "sense" /\ sysPc' = "switches") =>
       IF "imu" \in ok' THEN sampleAge <= ImuTimeout
       ELSE sampleAge \in {0, ImuTimeout, OldImu} \/ imuQ # <<>>]_shVars
=============================================================================
