------------------------- MODULE SensorHealthProofs -------------------------
(***************************************************************************)
(* For any timeouts, error limit, frames and overrides: what the monitor   *)
(* makes of the IMU and of the pilot's link is right up to the delays of   *)
(* the path between them.                                                  *)
(*                                                                         *)
(* The inductive invariant says for each of the two paths where its newest *)
(* message is: in the topic's queue or already in the monitor, and how old *)
(* what it carries may be.  What was found at the failsafe step then lasts *)
(* to the end of the cycle, since no message gets older before the monitor *)
(* reads its clock again.                                                  *)
(***************************************************************************)
EXTENDS SensorHealth, SysmonProofs

(* The newest sample is in the monitor's queue or the monitor has seen it; *)
(* and no iteration that goes on was stamped before it.                    *)
ImuPath ==
  /\ imuLast \in 0 .. OldImu /\ sampleAge \in 0 .. OldImu
  /\ stamp \in 0 .. 1
  /\ stamp <= sampleAge /\ sampleAge <= imuLast
  /\ \/ imuQ = <<>> /\ imuLast = sampleAge
     \/ imuQ = <<sampleAge>>

(* A message on its way was stamped no more than one polling interval      *)
(* after the link was last heard.                                          *)
InTime(m) ==
  /\ m = [age |-> m.age, sw |-> m.sw]
  /\ m.age \in 0 .. OldRc
  /\ heardAge <= m.age + MaxPoll

RcPath ==
  /\ heardAge \in 0 .. OldHeard /\ pollAge \in 0 .. MaxPoll
  /\ rcLast \in 0 .. OldRc /\ heardAge <= rcLast + MaxPoll
  /\ rxPc \in {"waiting", "storing"}
  /\ rcQ = <<>> \/ \E m : rcQ = <<m>> /\ InTime(m)
  /\ (newData /\ ~data.failsafe) => heardAge <= pollAge
  /\ (rxPc = "storing" /\ ~incoming.failsafe) => heardAge = 0
  /\ "rc" \notin followed => ~newData /\ rxPc = "waiting"

(* What holds from the failsafe step to the publication of the status. *)
Judged ==
  /\ sysPc \in {"sense", "switches", "commands"}
  /\ sysPc # "sense" => ok \subseteq {"imu", "rc"}
  /\ (sysPc # "sense" /\ "imu" \in followed /\ "imu" \in ok) => sampleAge <= ImuTimeout
  /\ (sysPc # "sense" /\ "rc" \in followed /\ "rc" \in ok) => heardAge <= RcTimeout + MaxPoll
  /\ (sysPc = "switches" /\ "imu" \notin ok) =>
        failsafe = "SENSOR_FAILURE" /\ (armed => mode = "LAND")
  /\ (sysPc = "commands" /\ "imu" \notin ok /\ ~modeCmd) => (armed => mode = "LAND")

ShInv == ImuPath /\ RcPath /\ Judged /\ TornFrameReplaced

-----------------------------------------------------------------------------
LEMMA ShInitInv == ShInit => ShInv
<1> SUFFICES ASSUME ShInit PROVE ShInv
  OBVIOUS
<1> USE SensorHealthAssumption DEF ShInit, OldImu, OldRc, OldHeard
<1>1. ImuPath
  BY DEF ImuPath
<1>2. RcPath
  BY DEF RcPath
<1>3. Judged
  BY DEF Judged, SysmonInit
<1>4. TornFrameReplaced
  BY DEF TornFrameReplaced
<1>5. QED
  BY <1>1, <1>2, <1>3, <1>4 DEF ShInv

(* Growing older keeps the order of two ages. *)
LEMMA OlderFacts ==
  ASSUME NEW old \in Nat, NEW a \in 0 .. old, NEW b \in 0 .. old, a <= b
  PROVE  /\ Older(a, old) \in 0 .. old
         /\ Older(a, old) <= Older(b, old)
  BY DEF Older

(* A source found healthy has been heard within its timeout; one found     *)
(* dead has not, or its age has wrapped.                                   *)
LEMMA YoungFact ==
  ASSUME NEW age, NEW timeout, NEW v \in Young(age, timeout)
  PROVE  /\ v => age = timeout \/ (age > 0 /\ age < timeout)
         /\ ~v => age = timeout \/ ~(age > 0 /\ age < timeout)
  BY Zenon DEF Young

(* What was found lasts as long as nothing grows older. *)
LEMMA JudgedLasts ==
  ASSUME ShInv, UNCHANGED sysVars, UNCHANGED followed,
         sampleAge' <= sampleAge, heardAge' <= heardAge,
         sampleAge' \in Nat, heardAge' \in Nat
  PROVE  Judged'
<1> USE SensorHealthAssumption DEF ShInv, ImuPath, RcPath, OldImu, OldHeard
<1>1. UNCHANGED <<sysPc, ok, failsafe, armed, mode, modeCmd>>
  BY DEF sysVars
<1>2. sampleAge \in Nat /\ heardAge \in Nat
  OBVIOUS
<1>3. QED
  BY <1>1, <1>2 DEF Judged

LEMMA StoreKeepsInv ==
  ASSUME ShInv, (\E frame \in Sent : BeginStore(frame)) \/ EndStore
  PROVE  ShInv'
<1> USE SensorHealthAssumption DEF OldImu, OldRc, OldHeard
<1>1. ASSUME NEW frame \in Sent, BeginStore(frame) PROVE ShInv'
  <2> USE <1>1 DEF BeginStore, FlagAfter
  <2>1. ImuPath'
    BY DEF ShInv, ImuPath, monVars, topicVars, agentVars
  <2>2. heardAge' \in 0 .. OldHeard /\ heardAge' <= heardAge
    BY DEF ShInv, RcPath
  <2>3. RcPath'
    <3>1. rcQ' = <<>> \/ \E m : rcQ' = <<m>> /\ InTime(m)'
      BY <2>2 DEF ShInv, RcPath, InTime, topicVars
    <3>2. (newData' /\ ~data.failsafe') => heardAge' <= pollAge'
      BY <2>2 DEF ShInv, RcPath, agentVars
    <3>3. QED
      BY <2>2, <3>1, <3>2 DEF ShInv, RcPath, monVars, agentVars
  <2>4. Judged'
    BY <2>2, JudgedLasts DEF monVars, agentVars, ShInv, ImuPath
  <2>5. TornFrameReplaced'
    BY DEF TornFrameReplaced
  <2>6. QED
    BY <2>1, <2>3, <2>4, <2>5 DEF ShInv
<1>2. ASSUME EndStore PROVE ShInv'
  <2> USE <1>2 DEF EndStore, FlagAfter
  <2>1. ImuPath'
    BY DEF ShInv, ImuPath, monVars, topicVars, agentVars
  <2>2. RcPath'
    BY DEF ShInv, RcPath, InTime, monVars, topicVars, agentVars
  <2>3. Judged'
    BY JudgedLasts DEF monVars, agentVars, ShInv, ImuPath, RcPath
  <2>4. TornFrameReplaced'
    BY DEF TornFrameReplaced
  <2>5. QED
    BY <2>1, <2>2, <2>3, <2>4 DEF ShInv
<1>3. QED
  BY <1>1, <1>2

LEMMA AgentKeepsInv ==
  ASSUME ShInv,
         \/ BeginIteration
         \/ \E result \in {"sample", "spike", "error"}, poll \in BOOLEAN :
              EndIteration(result, poll)
  PROVE  ShInv'
<1> USE SensorHealthAssumption DEF OldImu, OldRc, OldHeard
<1>1. ASSUME BeginIteration PROVE ShInv'
  <2> USE <1>1 DEF BeginIteration
  <2>1. ImuPath'
    BY DEF ShInv, ImuPath, monVars, topicVars
  <2>2. RcPath'
    BY DEF ShInv, RcPath, InTime, monVars, topicVars, sbusVars
  <2>3. Judged'
    BY JudgedLasts DEF monVars, sbusVars, ShInv, ImuPath, RcPath
  <2>4. TornFrameReplaced'
    BY DEF ShInv, TornFrameReplaced, sbusVars
  <2>5. QED
    BY <2>1, <2>2, <2>3, <2>4 DEF ShInv
<1>2. ASSUME NEW result \in {"sample", "spike", "error"}, NEW poll \in BOOLEAN,
             EndIteration(result, poll)
      PROVE  ShInv'
  <2>1. /\ UNCHANGED <<sysVars, monVars, sbusVars>>
        /\ stamp' = 0 /\ ReadImu(result) /\ (poll => "rc" \in followed)
        /\ IF poll THEN PollReceiver ELSE UNCHANGED <<pollAge, newData, rcQ, torn>>
    BY <1>2 DEF EndIteration
  <2>2. UNCHANGED <<imuLast, followed, rcLast, rxPc, incoming, data, heardAge>>
    BY <2>1 DEF monVars, sbusVars
  <2>3. sampleAge' <= sampleAge /\ sampleAge' \in 0 .. OldImu
    BY <2>1 DEF ReadImu, ShInv, ImuPath
  <2>4. ImuPath'
    BY <2>1, <2>2, <2>3 DEF ReadImu, ShInv, ImuPath
  <2>5. CASE ~poll
    <3>1. UNCHANGED <<pollAge, newData, rcQ, torn>>
      BY <2>1, <2>5
    <3>2. RcPath'
      BY <2>2, <3>1 DEF ShInv, RcPath, InTime
    <3>3. Judged'
      BY <2>1, <2>2, <2>3, JudgedLasts DEF ShInv, RcPath
    <3>4. TornFrameReplaced'
      BY <2>2, <3>1 DEF ShInv, TornFrameReplaced
    <3>5. QED
      BY <2>4, <3>2, <3>3, <3>4 DEF ShInv
  <2>6. CASE poll
    <3>1. PollReceiver /\ "rc" \in followed
      BY <2>1, <2>6
    <3>2. pollAge' = 0 /\ newData' = FALSE
      BY <3>1 DEF PollReceiver
    <3>3. \/ UNCHANGED rcQ
          \/ \E m : rcQ' = <<m>> /\ InTime(m)'
      <4>1. CASE ~newData
        BY <3>1, <4>1 DEF PollReceiver
      <4>2. CASE newData
        <5>1. PICK f \in Readable :
                rcQ' = IF f.failsafe THEN rcQ ELSE <<[age |-> stamp, sw |-> f.sw]>>
          BY <3>1, <4>2 DEF PollReceiver
        <5>2. CASE f.failsafe
          BY <5>1, <5>2
        <5>3. CASE ~f.failsafe
          <6>1. \/ ~data.failsafe
                \/ rxPc = "storing" /\ ~incoming.failsafe
            BY <5>3 DEF Readable, Mixtures
          <6>2. heardAge <= MaxPoll
            BY <4>2, <6>1 DEF ShInv, RcPath
          <6>3. stamp \in 0 .. 1 /\ heardAge \in Nat
            BY DEF ShInv, ImuPath, RcPath
          <6>4. PICK m : m = [age |-> stamp, sw |-> f.sw]
            OBVIOUS
          <6>5. rcQ' = <<m>>
            BY <5>1, <5>3, <6>4
          <6>6. m.age = stamp /\ m = [age |-> m.age, sw |-> m.sw]
            BY <6>4
          <6>7. InTime(m)'
            BY <2>2, <6>2, <6>3, <6>6 DEF InTime
          <6>8. QED
            BY <6>5, <6>7
        <5>4. QED
          BY <5>2, <5>3
      <4>3. QED
        BY <4>1, <4>2
    <3>4. rcQ' = <<>> \/ \E m : rcQ' = <<m>> /\ InTime(m)'
      BY <2>2, <3>3 DEF ShInv, RcPath, InTime
    <3>5. RcPath'
      BY <2>2, <3>1, <3>2, <3>4 DEF ShInv, RcPath
    <3>6. Judged'
      BY <2>1, <2>2, <2>3, JudgedLasts DEF ShInv, RcPath
    <3>7. TornFrameReplaced'
      <4>1. torn' => rxPc = "storing"
        BY <3>1 DEF PollReceiver, ShInv, TornFrameReplaced
      <4>2. QED
        BY <2>2, <4>1 DEF TornFrameReplaced
    <3>8. QED
      BY <2>4, <3>5, <3>6, <3>7 DEF ShInv
  <2>7. QED
    BY <2>5, <2>6
<1>3. QED
  BY <1>1, <1>2

-----------------------------------------------------------------------------
LEMMA ClockKeepsInv == ShInv /\ ReadClock => ShInv'
<1> SUFFICES ASSUME ShInv, ReadClock PROVE ShInv'
  OBVIOUS
<1> USE SensorHealthAssumption
<1>1. /\ sysPc = "sense" /\ rxPc = "waiting"
      /\ pollAge < MaxPoll \/ "rc" \notin followed
      /\ imuLast' = Older(imuLast, OldImu)
      /\ rcLast' = Older(rcLast, OldRc)
      /\ imuQ' = [i \in DOMAIN imuQ |-> Older(imuQ[i], OldImu)]
      /\ rcQ' = [i \in DOMAIN rcQ |-> [rcQ[i] EXCEPT !.age = Older(@, OldRc)]]
      /\ stamp' \in 0 .. 1
      /\ sampleAge' = Older(sampleAge, OldImu)
      /\ heardAge' = Older(heardAge, OldHeard)
      /\ pollAge' = Older(pollAge, MaxPoll)
      /\ UNCHANGED <<sysVars, followed, torn, rxPc, incoming, data, newData>>
  BY DEF ReadClock
<1>2. ImuPath'
  <2>1. OldImu \in Nat /\ OldImu >= 2
    BY DEF OldImu
  <2>2. /\ imuLast \in 0 .. OldImu /\ sampleAge \in 0 .. OldImu
        /\ sampleAge <= imuLast
    BY DEF ShInv, ImuPath
  <2>3. /\ imuLast' \in 0 .. OldImu /\ sampleAge' \in 0 .. OldImu
        /\ sampleAge' <= imuLast'
    BY <1>1, <2>1, <2>2, OlderFacts
  <2>4. 1 <= sampleAge'
    BY <1>1, <2>1, <2>2 DEF Older
  <2>5. imuQ = <<sampleAge>> => imuQ' = <<sampleAge'>>
    BY <1>1
  <2>6. imuQ = <<>> => imuQ' = <<>>
    BY <1>1
  <2>7. imuLast = sampleAge => imuLast' = sampleAge'
    BY <1>1
  <2>8. OldImu' = OldImu
    BY DEF OldImu
  <2>9. stamp' <= sampleAge'
    BY <1>1, <2>3, <2>4
  <2>10. QED
    BY <1>1, <2>3, <2>5, <2>6, <2>7, <2>8, <2>9 DEF ShInv, ImuPath
<1>3. RcPath'
  <2> USE DEF OldRc, OldHeard
  <2>1. /\ heardAge' \in 0 .. OldHeard /\ pollAge' \in 0 .. MaxPoll
        /\ rcLast' \in 0 .. OldRc /\ heardAge' <= rcLast' + MaxPoll
    <3>1. /\ heardAge \in 0 .. OldHeard /\ pollAge \in 0 .. MaxPoll
          /\ rcLast \in 0 .. OldRc /\ heardAge <= rcLast + MaxPoll
      BY DEF ShInv, RcPath
    <3>2. OldHeard \in Nat /\ OldRc \in Nat /\ MaxPoll \in Nat
      OBVIOUS
    <3>3. /\ heardAge' \in 0 .. OldHeard
          /\ pollAge' \in 0 .. MaxPoll
          /\ rcLast' \in 0 .. OldRc
      BY <1>1, <3>1, <3>2, OlderFacts
    <3>4. heardAge' <= rcLast' + MaxPoll
      BY <1>1, <3>1 DEF Older
    <3>5. QED
      BY <3>3, <3>4
  <2>2. rcQ' = <<>> \/ \E m : rcQ' = <<m>> /\ InTime(m)'
    <3>1. CASE rcQ = <<>>
      BY <1>1, <3>1
    <3>2. CASE rcQ # <<>>
      <4>1. PICK m : rcQ = <<m>> /\ InTime(m)
        BY <3>2 DEF ShInv, RcPath
      <4>2. PICK k : k = [m EXCEPT !.age = Older(@, OldRc)]
        OBVIOUS
      <4>3. rcQ' = <<k>>
        BY <1>1, <4>1, <4>2
      <4>4. k = [age |-> Older(m.age, OldRc), sw |-> m.sw]
        BY <4>1, <4>2, Zenon DEF InTime
      <4>5. /\ k = [age |-> k.age, sw |-> k.sw]
            /\ k.age = Older(m.age, OldRc)
        BY <4>4
      <4>6. k.age \in 0 .. OldRc /\ heardAge' <= k.age + MaxPoll
        BY <1>1, <4>1, <4>5 DEF InTime, ShInv, RcPath, Older
      <4>7. QED
        BY <4>3, <4>5, <4>6 DEF InTime
    <3>3. QED
      BY <3>1, <3>2
  <2>3. (newData' /\ ~data.failsafe') => heardAge' <= pollAge'
    BY <1>1 DEF ShInv, RcPath, Older
  <2>4. QED
    BY <1>1, <2>1, <2>2, <2>3 DEF ShInv, RcPath
<1>4. Judged'
  BY <1>1 DEF ShInv, Judged, sysVars
<1>5. TornFrameReplaced'
  BY <1>1 DEF ShInv, TornFrameReplaced
<1>6. QED
  BY <1>2, <1>3, <1>4, <1>5 DEF ShInv

LEMMA CopyImuKeepsInv == ShInv /\ CopyImu => ShInv'
<1> SUFFICES ASSUME ShInv, CopyImu PROVE ShInv'
  OBVIOUS
<1>1. /\ imuLast' = IF imuQ = <<>> THEN imuLast ELSE imuQ[1]
      /\ imuQ' = <<>>
      /\ UNCHANGED <<sysVars, followed, rcLast, rcQ, newData>>
      /\ UNCHANGED <<snPc, stamp, imuOn, errors, torn, sampleAge, pollAge>>
      /\ UNCHANGED <<rxPc, incoming, data, heardAge>>
  BY DEF CopyImu, agentVars, sbusVars
<1>2. ImuPath'
  BY <1>1 DEF ShInv, ImuPath, OldImu
<1>3. RcPath'
  BY <1>1 DEF ShInv, RcPath, InTime, OldRc, OldHeard
<1>4. Judged'
  BY <1>1 DEF ShInv, Judged, sysVars
<1>5. TornFrameReplaced'
  BY <1>1 DEF ShInv, TornFrameReplaced
<1>6. QED
  BY <1>2, <1>3, <1>4, <1>5 DEF ShInv

(* The decision about the sources, from what the monitor has copied. *)
LEMMA SenseKeepsInv == ShInv /\ CopyRcAndSense => ShInv'
<1> SUFFICES ASSUME ShInv, CopyRcAndSense PROVE ShInv'
  OBVIOUS
<1> USE SensorHealthAssumption
<1>1. PICK m \in Received :
        /\ rcLast' = m.age
        /\ \E imu \in Verdict("imu", imuLast, ImuTimeout),
              link \in Verdict("rc", m.age, RcTimeout) :
             Sense("good", {s \in {"imu", "rc"} : IF s = "imu" THEN imu ELSE link},
                   m.sw, FALSE)
  BY DEF CopyRcAndSense
<1>2. PICK imu \in Verdict("imu", imuLast, ImuTimeout),
           link \in Verdict("rc", m.age, RcTimeout) :
             Sense("good", {s \in {"imu", "rc"} : IF s = "imu" THEN imu ELSE link},
                   m.sw, FALSE)
  BY <1>1
<1> DEFINE fresh == {s \in {"imu", "rc"} : IF s = "imu" THEN imu ELSE link}
<1>3. /\ rcQ' = <<>>
      /\ UNCHANGED <<followed, imuLast, imuQ, newData>>
      /\ UNCHANGED <<snPc, stamp, imuOn, errors, torn, sampleAge, pollAge>>
      /\ UNCHANGED <<rxPc, incoming, data, heardAge>>
  BY DEF CopyRcAndSense, agentVars, sbusVars
<1>4. /\ sysPc' = "switches" /\ ok' = fresh
      /\ failsafe' = Failsafe("good", fresh)
      /\ mode' = IF armed THEN Fallback(ForcedMode(Failsafe("good", fresh), fresh), fresh)
                 ELSE mode
      /\ UNCHANGED armed
  BY <1>2 DEF Sense
<1>5. m.age \in 0 .. OldRc /\ heardAge <= m.age + MaxPoll
  <2>1. CASE "rc" \notin followed
    BY <2>1 DEF Received, ShInv, RcPath
  <2>2. CASE "rc" \in followed /\ rcQ = <<>>
    BY <2>2 DEF Received, ShInv, RcPath
  <2>3. CASE "rc" \in followed /\ rcQ # <<>>
    <3>1. m = rcQ[1]
      BY <2>3 DEF Received
    <3>2. InTime(m)
      BY <2>3, <3>1 DEF ShInv, RcPath
    <3>3. QED
      BY <3>2 DEF InTime
  <2>4. QED
    BY <2>1, <2>2, <2>3
<1>6. ImuPath'
  BY <1>3 DEF ShInv, ImuPath, OldImu
<1>7. RcPath'
  BY <1>1, <1>3, <1>5 DEF ShInv, RcPath, OldRc, OldHeard
<1>8. Judged'
  <2>1. ("imu" \in followed /\ "imu" \in ok') => sampleAge' <= ImuTimeout
    <3>1. SUFFICES ASSUME "imu" \in followed, "imu" \in ok' PROVE sampleAge' <= ImuTimeout
      OBVIOUS
    <3>2. imu
      BY <1>4, <3>1
    <3>3. imu \in Young(imuLast, ImuTimeout)
      BY <1>2, <3>1, Zenon DEF Verdict
    <3>4. imuLast = ImuTimeout \/ imuLast < ImuTimeout
      BY <3>2, <3>3, YoungFact
    <3>5. QED
      BY <1>3, <3>4 DEF ShInv, ImuPath, OldImu
  <2>2. ("rc" \in followed /\ "rc" \in ok') => heardAge' <= RcTimeout + MaxPoll
    <3>1. SUFFICES ASSUME "rc" \in followed, "rc" \in ok'
                   PROVE  heardAge' <= RcTimeout + MaxPoll
      OBVIOUS
    <3>2. link
      BY <1>4, <3>1
    <3>3. link \in Young(m.age, RcTimeout)
      BY <1>2, <3>1, Zenon DEF Verdict
    <3>4. m.age = RcTimeout \/ m.age < RcTimeout
      BY <3>2, <3>3, YoungFact
    <3>5. QED
      BY <1>3, <1>5, <3>4 DEF ShInv, RcPath, OldRc, OldHeard
  <2>3. "imu" \notin ok' => failsafe' = "SENSOR_FAILURE" /\ (armed' => mode' = "LAND")
    BY <1>4 DEF Failsafe, ForcedMode, Fallback
  <2>4. QED
    BY <1>3, <1>4, <2>1, <2>2, <2>3 DEF Judged
<1>9. TornFrameReplaced'
  BY <1>3 DEF ShInv, TornFrameReplaced
<1>10. QED
  BY <1>6, <1>7, <1>8, <1>9 DEF ShInv

LEMMA OverrideKeepsInv == ShInv /\ MonitorOverrides => ShInv'
<1> SUFFICES ASSUME ShInv, MonitorOverrides PROVE ShInv'
  OBVIOUS
<1> USE SensorHealthAssumption
<1>1. PICK sw \in Overrides : OverrideCommand(sw)
  BY DEF MonitorOverrides
<1>2. PICK m : m = [age |-> 0, sw |-> sw]
  OBVIOUS
<1>3. rcQ' = <<m>> /\ heardAge' = 0 /\ OtherCommand
  BY <1>1, <1>2 DEF OverrideCommand
<1>4. /\ UNCHANGED <<imuQ, rxPc, incoming, data, newData, monVars, agentVars>>
      /\ "rc" \in followed
  BY DEF MonitorOverrides
<1>5. UNCHANGED <<sysPc, ok, failsafe, armed, mode, modeCmd>>
  BY <1>3 DEF OtherCommand, CommandReceived
<1>6. ImuPath'
  BY <1>4 DEF ShInv, ImuPath, OldImu, monVars, agentVars
<1>7. RcPath'
  <2>1. m.age = 0 /\ m = [age |-> m.age, sw |-> m.sw]
    BY <1>2
  <2>2. InTime(m)'
    BY <1>3, <2>1 DEF InTime, OldRc
  <2>3. QED
    BY <1>3, <1>4, <2>2 DEF ShInv, RcPath, OldRc, OldHeard, monVars, agentVars
<1>8. Judged'
  BY <1>3, <1>4, <1>5 DEF ShInv, Judged, monVars, agentVars
<1>9. TornFrameReplaced'
  BY <1>4 DEF ShInv, TornFrameReplaced, agentVars
<1>10. QED
  BY <1>6, <1>7, <1>8, <1>9 DEF ShInv

(* A dead IMU is a failsafe that neither lets the switch arm nor the mode  *)
(* switch change the mode; a command does not arm either, and only a       *)
(* SET_MODE changes the mode.                                              *)
LEMMA DecideKeepsInv == ShInv /\ (MonitorDecides \/ MonitorObeys) => ShInv'
<1> SUFFICES ASSUME ShInv, MonitorDecides \/ MonitorObeys PROVE ShInv'
  OBVIOUS
<1>1. /\ UNCHANGED <<newData, monVars, topicVars, agentVars, sbusVars>>
      /\ Switches(FALSE) \/ Publish \/ Obey
  BY DEF MonitorDecides, MonitorObeys
<1>2. /\ UNCHANGED <<followed, rdPc, imuLast, rcLast, imuQ, rcQ>>
      /\ UNCHANGED <<snPc, stamp, imuOn, errors, torn, sampleAge, pollAge>>
      /\ UNCHANGED <<rxPc, incoming, data, heardAge, newData>>
  BY <1>1 DEF monVars, topicVars, agentVars, sbusVars
<1>3. ImuPath'
  BY <1>2 DEF ShInv, ImuPath, OldImu
<1>4. RcPath'
  BY <1>2 DEF ShInv, RcPath, InTime, OldRc, OldHeard
<1>5. Judged'
  <2>1. CASE Publish
    BY <2>1 DEF Publish, Judged
  <2>2. CASE Switches(FALSE)
    <3>1. /\ sysPc = "switches" /\ sysPc' = "commands"
          /\ UNCHANGED ok
          /\ mode' = SwitchedMode
      BY <2>2 DEF Switches
    <3>2. armed' => armed \/ ArmEdge(armed /\ ~AutoDisarm(FALSE))
      BY <2>2, Zenon DEF Switches
    <3>3. "imu" \notin ok => ~Benign(failsafe)
      BY <3>1 DEF ShInv, Judged, Benign
    <3>4. "imu" \notin ok => (armed' => armed) /\ mode' = mode
      BY <3>1, <3>2, <3>3, Zenon DEF ArmEdge, SwitchedMode
    <3>5. QED
      BY <1>2, <3>1, <3>4 DEF ShInv, Judged
  <2>3. CASE Obey
    <3>1. sysPc = "commands" /\ UNCHANGED <<sysPc, ok, failsafe>>
      BY <2>3 DEF Obey, ArmCommand, DisarmCommand, SetModeCommand, OtherCommand,
                  CommandReceived
    <3>2. (mode' = mode /\ modeCmd' = modeCmd) \/ modeCmd'
      BY <2>3 DEF Obey, ArmCommand, DisarmCommand, SetModeCommand, OtherCommand
    <3>3. ASSUME "imu" \notin ok PROVE armed' => armed
      <4>1. ~({"imu", "rc"} \subseteq ok)
        BY <3>3
      <4>2. QED
        BY <2>3, <4>1, Zenon
        DEF Obey, ArmCommand, DisarmCommand, SetModeCommand, OtherCommand
    <3>4. QED
      BY <1>2, <3>1, <3>2, <3>3 DEF ShInv, Judged
  <2>4. QED
    BY <1>1, <2>1, <2>2, <2>3
<1>6. TornFrameReplaced'
  BY <1>2 DEF ShInv, TornFrameReplaced
<1>7. QED
  BY <1>3, <1>4, <1>5, <1>6 DEF ShInv

LEMMA ShInvStep == ShInv /\ [ShNext]_shVars => ShInv'
<1> SUFFICES ASSUME ShInv, [ShNext]_shVars PROVE ShInv'
  OBVIOUS
<1>1. CASE ShNext
  BY <1>1, StoreKeepsInv, AgentKeepsInv, ClockKeepsInv, CopyImuKeepsInv,
     SenseKeepsInv, OverrideKeepsInv, DecideKeepsInv, Zenon DEF ShNext
<1>2. CASE UNCHANGED shVars
  <2>1. /\ UNCHANGED <<sysVars, followed, imuLast, rcLast, imuQ, rcQ, newData>>
        /\ UNCHANGED <<stamp, torn, sampleAge, pollAge, rxPc, incoming, data, heardAge>>
    BY <1>2 DEF shVars, monVars, topicVars, agentVars, sbusVars
  <2>2. ImuPath'
    BY <2>1 DEF ShInv, ImuPath, OldImu
  <2>3. RcPath'
    BY <2>1 DEF ShInv, RcPath, InTime, OldRc, OldHeard
  <2>4. Judged'
    BY <2>1 DEF ShInv, Judged, sysVars
  <2>5. TornFrameReplaced'
    BY <2>1 DEF ShInv, TornFrameReplaced
  <2>6. QED
    BY <2>2, <2>3, <2>4, <2>5 DEF ShInv
<1>3. QED
  BY <1>1, <1>2

LEMMA ShAlways == ShSpec => []ShInv
  BY ShInitInv, ShInvStep, PTL DEF ShSpec

-----------------------------------------------------------------------------
(* sbus_read may take half a frame for a whole one, whatever the frames,   *)
(* but the whole of it is then still to come.                              *)
THEOREM TornFrame == ShSpec => []TornFrameReplaced
<1>1. ShInv => TornFrameReplaced
  BY DEF ShInv
<1>2. QED
  BY <1>1, ShAlways, PTL

(* For any timeout and number of errors, a silent IMU makes an armed       *)
(* vehicle land; of the ground station's commands only a SET_MODE of the   *)
(* same cycle stands against it.                                           *)
THEOREM SilentImu == ShSpec => []SilentImuLands
<1>1. ShInv => SilentImuLands
  <2> SUFFICES ASSUME ShInv, "imu" \in followed, sysPc = "commands", ~modeCmd,
                      armed, sampleAge > ImuTimeout
               PROVE  mode = "LAND"
    BY DEF SilentImuLands
  <2>1. "imu" \notin ok
    BY SensorHealthAssumption DEF ShInv, Judged, ImuPath, OldImu
  <2>2. QED
    BY <2>1 DEF ShInv, Judged
<1>2. QED
  BY <1>1, ShAlways, PTL

(* For any timeout and any time between two polls, the link is healthy     *)
(* only if it was heard within the sum of the two.                         *)
THEOREM LinkLoss == ShSpec => []LinkLossNoticed
<1>1. ShInv => LinkLossNoticed
  BY DEF ShInv, Judged, LinkLossNoticed
<1>2. QED
  BY <1>1, ShAlways, PTL

(* For any timeout, the IMU is called dead without reason only in the two  *)
(* races with the monitor's clock and its copy of the topic.               *)
THEOREM ImuJudged == ShSpec => ImuJudgedRight
<1>1. ShInv /\ [ShNext]_shVars =>
        [("imu" \in followed /\ sysPc = "sense" /\ sysPc' = "switches") =>
           IF "imu" \in ok' THEN sampleAge <= ImuTimeout
           ELSE sampleAge \in {0, ImuTimeout, OldImu} \/ imuQ # <<>>]_shVars
  <2> SUFFICES ASSUME ShInv, ShNext, "imu" \in followed, sysPc = "sense",
                      sysPc' = "switches"
               PROVE  IF "imu" \in ok' THEN sampleAge <= ImuTimeout
                      ELSE sampleAge \in {0, ImuTimeout, OldImu} \/ imuQ # <<>>
    BY DEF shVars, sysVars
  <2>1. CopyRcAndSense
    BY Zenon DEF ShNext, BeginStore, EndStore, BeginIteration, EndIteration, ReadClock,
           CopyImu, MonitorDecides, Switches, Publish, MonitorObeys, Obey, ArmCommand,
           DisarmCommand, SetModeCommand, MonitorOverrides, OverrideCommand,
           OtherCommand, CommandReceived, sysVars
  <2>2. PICK m \in Received : \E imu \in Verdict("imu", imuLast, ImuTimeout),
              link \in Verdict("rc", m.age, RcTimeout) :
             Sense("good", {s \in {"imu", "rc"} : IF s = "imu" THEN imu ELSE link},
                   m.sw, FALSE)
    BY <2>1 DEF CopyRcAndSense
  <2>3. PICK imu \in Verdict("imu", imuLast, ImuTimeout),
              link \in Verdict("rc", m.age, RcTimeout) :
             Sense("good", {s \in {"imu", "rc"} : IF s = "imu" THEN imu ELSE link},
                   m.sw, FALSE)
    BY <2>2
  <2>4. "imu" \in ok' <=> imu
    BY <2>3 DEF Sense
  <2>5. imu \in Young(imuLast, ImuTimeout)
    BY <2>3, Zenon DEF Verdict
  <2>6. /\ imu => imuLast = ImuTimeout \/ (imuLast > 0 /\ imuLast < ImuTimeout)
        /\ ~imu => imuLast = ImuTimeout \/ ~(imuLast > 0 /\ imuLast < ImuTimeout)
    BY <2>5, YoungFact
  <2>7. QED
    BY <2>4, <2>6, SensorHealthAssumption DEF ShInv, ImuPath, OldImu
<1>2. QED
  BY <1>1, ShAlways, PTL DEF ShSpec, ImuJudgedRight

-----------------------------------------------------------------------------
(* The types of what travels: a frame of the receiver, half of two frames  *)
(* or an override is still a frame, so the monitor sees no other.          *)
ReceiverFrames == [sw : AllFrames, failsafe : BOOLEAN]

RcMessages == [age : 0 .. OldRc, sw : AllFrames]

FrameTypes ==
  /\ incoming \in ReceiverFrames /\ data \in ReceiverFrames
  /\ rcQ = <<>> \/ \E m \in RcMessages : rcQ = <<m>>

(* An IMU that is read has not failed MaxErrors times in a row.            *)
AgentTypes ==
  /\ followed \in Followed
  /\ rdPc \in {"clock", "imu", "rc"} /\ snPc \in {"asleep", "reading"}
  /\ imuOn \in BOOLEAN /\ errors \in 0 .. MaxErrors
  /\ imuOn => errors < MaxErrors
  /\ newData \in BOOLEAN /\ torn \in BOOLEAN

LEMMA ShInitTypes == ShInit => FrameTypes /\ AgentTypes
<1> SUFFICES ASSUME ShInit PROVE FrameTypes /\ AgentTypes
  OBVIOUS
<1>1. FrameTypes
  BY DEF ShInit, FrameTypes, ReceiverFrames, NoFrame, ZeroFrame, AllFrames, SwitchModes
<1>2. AgentTypes
  <2>1. imuOn \in BOOLEAN
    BY DEF ShInit
  <2>2. errors \in 0 .. MaxErrors /\ errors < MaxErrors
    BY SensorHealthAssumption DEF ShInit
  <2>3. QED
    BY <2>1, <2>2, Zenon DEF ShInit, AgentTypes
<1>3. QED
  BY <1>1, <1>2

(* Whatever sbus_read finds in s_data is a frame.                          *)
LEMMA ReadableTyped ==
  ASSUME FrameTypes, NEW f \in Readable
  PROVE  f \in ReceiverFrames
<1>1. CASE rxPc = "storing"
  BY <1>1 DEF FrameTypes, Readable, Mixtures, ReceiverFrames, AllFrames
<1>2. CASE rxPc # "storing"
  BY <1>2 DEF FrameTypes, Readable
<1>3. QED
  BY <1>1, <1>2

LEMMA FrameTypesStep ==
  ShInv /\ SysmonTypeOK /\ FrameTypes /\ [ShNext]_shVars => FrameTypes'
<1> SUFFICES ASSUME ShInv, SysmonTypeOK, FrameTypes, [ShNext]_shVars PROVE FrameTypes'
  OBVIOUS
<1> USE SensorHealthAssumption
<1>1. CASE UNCHANGED <<incoming, data, rcQ>>
  BY <1>1 DEF FrameTypes
<1>2. ASSUME NEW frame \in Sent, BeginStore(frame) PROVE FrameTypes'
  <2>1. frame \in ReceiverFrames
    BY SysmonAssumption DEF ReceiverFrames
  <2>2. incoming' = frame /\ data' = data /\ rcQ' = rcQ
    BY <1>2 DEF BeginStore, topicVars
  <2>3. QED
    BY <2>1, <2>2 DEF FrameTypes
<1>3. CASE EndStore
  BY <1>3 DEF EndStore, topicVars, FrameTypes
<1>4. ASSUME NEW result, NEW poll, EndIteration(result, poll) PROVE FrameTypes'
  <2>1. UNCHANGED <<incoming, data>> /\ ((poll /\ PollReceiver) \/ UNCHANGED rcQ)
    BY <1>4 DEF EndIteration, sbusVars
  <2>2. ASSUME NEW f \in Readable, rcQ' = <<[age |-> stamp, sw |-> f.sw]>>
        PROVE  FrameTypes'
    <3>1. f.sw \in AllFrames
      BY <2>2, ReadableTyped DEF ReceiverFrames
    <3>2. stamp \in 0 .. OldRc
      BY DEF ShInv, ImuPath, OldRc
    <3>3. [age |-> stamp, sw |-> f.sw] \in RcMessages
      BY <2>2, <3>1, <3>2 DEF RcMessages
    <3>4. QED
      BY <2>1, <2>2, <3>3 DEF FrameTypes, RcMessages, OldRc
  <2>3. CASE UNCHANGED rcQ
    BY <1>1, <2>1, <2>3
  <2>4. CASE PollReceiver
    <3>1. \/ UNCHANGED rcQ
          \/ \E f \in Readable : rcQ' = <<[age |-> stamp, sw |-> f.sw]>>
      BY <2>4 DEF PollReceiver
    <3>2. QED
      BY <2>2, <2>3, <3>1
  <2>5. QED
    BY <2>1, <2>3, <2>4
<1>5. CASE ReadClock
  <2>1. UNCHANGED <<incoming, data>>
        /\ rcQ' = [i \in DOMAIN rcQ |-> [rcQ[i] EXCEPT !.age = Older(@, OldRc)]]
    BY <1>5 DEF ReadClock
  <2>2. ASSUME NEW m \in RcMessages, rcQ = <<m>> PROVE FrameTypes'
    <3>1. rcQ' = <<[m EXCEPT !.age = Older(@, OldRc)]>>
      BY <2>1, <2>2
    <3>2. [m EXCEPT !.age = Older(@, OldRc)] \in RcMessages
      BY <2>2 DEF RcMessages, Older, OldRc
    <3>3. QED
      BY <2>1, <3>1, <3>2 DEF FrameTypes, RcMessages, OldRc
  <2>3. CASE rcQ = <<>>
    BY <2>1, <2>3 DEF FrameTypes
  <2>4. QED
    BY <2>2, <2>3 DEF FrameTypes
<1>6. CASE CopyRcAndSense
  BY <1>6 DEF CopyRcAndSense, sbusVars, FrameTypes
<1>7. CASE MonitorOverrides
  <2>1. PICK sw \in Overrides : OverrideCommand(sw)
    BY <1>7 DEF MonitorOverrides
  <2>2. [age |-> 0, sw |-> sw] \in RcMessages
    BY <2>1 DEF RcMessages, OldRc
  <2>3. QED
    BY <1>7, <2>1, <2>2 DEF MonitorOverrides, OverrideCommand, FrameTypes, RcMessages, OldRc
<1>8. CASE \/ BeginIteration \/ CopyImu \/ MonitorDecides \/ MonitorObeys
           \/ UNCHANGED shVars
  BY <1>1, <1>8
  DEF BeginIteration, CopyImu, MonitorDecides, MonitorObeys, topicVars, sbusVars, shVars
<1>9. QED
  BY <1>2, <1>3, <1>4, <1>5, <1>6, <1>7, <1>8 DEF ShNext

LEMMA AgentTypesStep == AgentTypes /\ [ShNext]_shVars => AgentTypes'
<1> SUFFICES ASSUME AgentTypes, [ShNext]_shVars PROVE AgentTypes'
  OBVIOUS
<1> USE SensorHealthAssumption DEF AgentTypes
<1>1. CASE (\E frame \in Sent : BeginStore(frame)) \/ EndStore
  <2>1. newData' \in BOOLEAN
    BY <1>1, Zenon DEF BeginStore, EndStore, FlagAfter
  <2>2. UNCHANGED <<monVars, agentVars>>
    BY <1>1 DEF BeginStore, EndStore
  <2>3. QED
    BY <2>1, <2>2, Zenon DEF monVars, agentVars
<1>2. CASE BeginIteration
  BY <1>2, Zenon DEF BeginIteration, monVars
<1>3. ASSUME NEW result, NEW poll, EndIteration(result, poll) PROVE AgentTypes'
  <2>1. imuOn' \in BOOLEAN
    BY <1>3, Zenon DEF EndIteration, ReadImu
  <2>2. errors' \in 0 .. MaxErrors /\ (imuOn' => errors' < MaxErrors)
    <3>1. CASE imuOn /\ "imu" \in followed
      <4>1. errors' = errors + 1 \/ errors' = 0
        BY <1>3, <3>1 DEF EndIteration, ReadImu
      <4>2. errors' \in 0 .. MaxErrors
        BY <3>1, <4>1
      <4>3. imuOn' => errors' # MaxErrors
        BY <1>3, <3>1, Zenon DEF EndIteration, ReadImu
      <4>4. QED
        BY <4>2, <4>3
    <3>2. CASE ~(imuOn /\ "imu" \in followed)
      <4>1. UNCHANGED <<imuOn, errors>>
        BY <1>3, <3>2 DEF EndIteration, ReadImu
      <4>2. QED
        BY <4>1
    <3>3. QED
      BY <3>1, <3>2
  <2>3. newData' \in BOOLEAN /\ torn' \in BOOLEAN
    BY <1>3, Zenon DEF EndIteration, PollReceiver
  <2>4. snPc' = "asleep" /\ UNCHANGED monVars
    BY <1>3 DEF EndIteration
  <2>5. QED
    BY <2>1, <2>2, <2>3, <2>4, Zenon DEF monVars
<1>4. CASE ReadClock \/ CopyImu \/ CopyRcAndSense
  <2>1. UNCHANGED <<followed, snPc, imuOn, errors, torn, newData>>
    BY <1>4 DEF ReadClock, CopyImu, CopyRcAndSense, agentVars
  <2>2. rdPc' \in {"clock", "imu", "rc"}
    BY <1>4 DEF ReadClock, CopyImu, CopyRcAndSense
  <2>3. QED
    BY <2>1, <2>2, Zenon
<1>5. CASE MonitorDecides \/ MonitorObeys \/ MonitorOverrides \/ UNCHANGED shVars
  <2>1. UNCHANGED <<monVars, agentVars, newData>>
    BY <1>5 DEF MonitorDecides, MonitorObeys, MonitorOverrides, shVars
  <2>2. QED
    BY <2>1, Zenon DEF monVars, agentVars
<1>6. QED
  BY <1>1, <1>2, <1>3, <1>4, <1>5 DEF ShNext

(* The monitor behind these tasks keeps its own invariant, although the    *)
(* frames it finds may be mixtures or overrides.                           *)
LEMMA ShSysmonStep == SysmonInv /\ FrameTypes /\ [ShNext]_shVars => SysmonInv'
<1> SUFFICES ASSUME SysmonInv, FrameTypes, [ShNext]_shVars PROVE SysmonInv'
  OBVIOUS
<1>1. CASE CopyRcAndSense
  <2>1. PICK m \in Received : \E imu \in Verdict("imu", imuLast, ImuTimeout),
              link \in Verdict("rc", m.age, RcTimeout) :
             Sense("good", {s \in {"imu", "rc"} : IF s = "imu" THEN imu ELSE link},
                   m.sw, FALSE)
    BY <1>1 DEF CopyRcAndSense
  <2>2. PICK fresh \in SUBSET {"imu", "rc"} : Sense("good", fresh, m.sw, FALSE)
    BY <2>1
  <2>3. m.sw \in AllFrames
    BY SysmonAssumption DEF Received, SysmonInv, SysmonTypeOK, FrameTypes, RcMessages
  <2>4. fresh \in SUBSET Sources /\ "good" \in Batteries /\ FALSE \in BOOLEAN
    BY DEF Sources, Batteries
  <2>5. QED
    BY <2>2, <2>3, <2>4, SenseDecides
<1>2. CASE MonitorDecides \/ MonitorObeys \/ MonitorOverrides
  <2>1. FALSE \in BOOLEAN
    OBVIOUS
  <2>2. SysmonNext
    BY <1>2, <2>1 DEF MonitorDecides, MonitorObeys, MonitorOverrides, OverrideCommand,
                      SysmonNext, Command, Obey
  <2>3. QED
    BY <2>2, SysmonInvStep
<1>3. CASE UNCHANGED sysVars
  BY <1>3, SysmonInvStep
<1>4. QED
  BY <1>1, <1>2, <1>3 DEF ShNext, BeginStore, EndStore, BeginIteration, EndIteration,
     ReadClock, CopyImu, shVars

LEMMA ShTypes == ShSpec => [](ShInv /\ SysmonInv /\ FrameTypes /\ AgentTypes)
<1>1. ShInit => ShInv /\ SysmonInv /\ FrameTypes /\ AgentTypes
  BY ShInitInv, ShInitTypes, SysmonInitInv DEF ShInit
<1>2. ShInv /\ SysmonInv /\ FrameTypes /\ AgentTypes /\ [ShNext]_shVars =>
        ShInv' /\ SysmonInv' /\ FrameTypes' /\ AgentTypes'
  BY ShInvStep, ShSysmonStep, FrameTypesStep, AgentTypesStep DEF SysmonInv
<1>3. QED
  BY <1>1, <1>2, PTL DEF ShSpec

(* Every variable of the path keeps its type: the queues hold one message, *)
(* the error counter stops at the limit at which the IMU is given up, and  *)
(* whatever frame reaches the monitor is one it can read.                  *)
THEOREM ShTypeCorrect == ShSpec => []ShTypeOK
<1>1. ShInv /\ SysmonInv /\ FrameTypes /\ AgentTypes => ShTypeOK
  BY DEF ShInv, ImuPath, RcPath, SysmonInv, FrameTypes, ReceiverFrames,
     RcMessages, AgentTypes, ShTypeOK
<1>2. QED
  BY <1>1, ShTypes, PTL

(* And behind torn frames, overrides and verdicts that race with the       *)
(* clock, the monitor's failsafes and the pilot's switches hold all the    *)
(* same.                                                                   *)
THEOREM ShMonitorSafe ==
  ShSpec => [](LostImuLands /\ LostRcReturns /\ PilotKeepsMode /\ SwitchTakesBack)
  BY ShTypes, PTL DEF SysmonInv
=============================================================================
