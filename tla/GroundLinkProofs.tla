-------------------------- MODULE GroundLinkProofs --------------------------
(***************************************************************************)
(* For any depths of the queues, stations, requests and parameter tables:  *)
(* what the telemetry queue promises with two producers that discard and   *)
(* retry without a lock, that a list is complete, and that the parameter   *)
(* store that answers the stations and the one the vehicle flies with      *)
(* agree as soon as no change of the parameter is on its way.              *)
(*                                                                         *)
(* Each result has an inductive invariant of its own.  The ones about the  *)
(* telemetry queue are preserved by the seven kinds of step that touch it, *)
(* whatever else the step does.  StoresAgree is not inductive: while       *)
(* changes are on their way, what matters is that the last of them carries *)
(* the value of core 1.                                                    *)
(***************************************************************************)
EXTENDS GroundLink, TLAPS

USE RpcAssumption, GroundLinkAssumption

-----------------------------------------------------------------------------
(* The steps of the system, as the telemetry queue sees them. *)
TelemReset ==
  /\ telemQ' = <<>>
  /\ txPc' = [p \in Producers |-> "idle"]
  /\ txMsg' = [p \in Producers |-> NoMsg]
  /\ stolen' = FALSE
  /\ UNCHANGED <<offered, got>>

LEMMA TelemSteps ==
  ASSUME [GlNext]_glVars
  PROVE  \/ \E p \in Producers, what \in {"param", "other"} : SendTelemetry(p, what)
         \/ \E p \in Producers : TelemetryStep(p)
         \/ TakeTelemetry
         \/ TelemReset
         \/ UNCHANGED telemVars
<1>1. CASE Handler
  BY <1>1 DEF Handler, Drain, Turn, TooEarly, SendNext, EndPass, SendAnswers,
     NoPacket, Forward, AskList, AskValue, AskSet, AskReboot, Packet
<1>2. CASE Monitor
  <2>1. "monitor" \in Producers
    BY DEF Producers
  <2>2. QED
    BY <1>2, <2>1 DEF Monitor, ObeySet, ObeyReboot, Restart, RpcReset, TelemReset
<1>3. CASE \E p \in Producers : SendOther(p) \/ SendStep(p)
  BY <1>3 DEF SendOther, SendStep
<1>4. CASE UNCHANGED glVars
  BY <1>4 DEF glVars
<1>5. QED
  BY <1>1, <1>2, <1>3, <1>4 DEF GlNext

(* What every invariant of the queue rests on. *)
QueueShape ==
  /\ telemQ \in Seq(Messages)
  /\ Len(telemQ) <= TelemDepth
  /\ txPc \in [Producers -> {"idle", "waiting", "discard", "retry"}]
  /\ txMsg \in [Producers -> Messages \cup {NoMsg}]
  /\ \A p \in Producers : txPc[p] # "idle" => txMsg[p] # NoMsg
  /\ offered \in [Producers -> Nat]
  /\ got \in [Producers -> Nat]

LEMMA QueueEntries ==
  ASSUME QueueShape
  PROVE  \A i \in 1 .. Len(telemQ) :
           /\ telemQ[i] \in Messages
           /\ telemQ[i].by \in Producers /\ telemQ[i].n \in Nat
<1> SUFFICES ASSUME NEW i \in 1 .. Len(telemQ)
             PROVE  /\ telemQ[i] \in Messages
                    /\ telemQ[i].by \in Producers /\ telemQ[i].n \in Nat
  OBVIOUS
<1>1. telemQ[i] \in Messages
  BY DEF QueueShape
<1>2. \A m \in Messages :
        m.by \in Producers /\ m.n \in Nat
  BY DEF Messages
<1>3. QED
  BY <1>1, <1>2, Zenon

LEMMA NoMsgIsNone ==
  NoMsg \notin Messages
  BY DEF NoMsg, Producers, Messages

(* The slot made by a discard is still there, unless it was stolen. *)
SlotKept ==
  /\ txPc["actuator"] = "retry" => Len(telemQ) < TelemDepth
  /\ (txPc["monitor"] = "retry" /\ ~stolen) => Len(telemQ) < TelemDepth

(* The messages in the queue are in order, later than those received, and  *)
(* earlier than the one being sent.                                        *)
InOrder ==
  /\ \A p \in Producers : got[p] <= offered[p]
  /\ \A i \in 1 .. Len(telemQ) :
       /\ got[telemQ[i].by] < telemQ[i].n
       /\ telemQ[i].n <= offered[telemQ[i].by]
  /\ \A i, j \in 1 .. Len(telemQ) :
       (i < j /\ telemQ[i].by = telemQ[j].by) => telemQ[i].n < telemQ[j].n
  /\ \A p \in Producers : txPc[p] # "idle" =>
       /\ txMsg[p].by = p
       /\ txMsg[p].n = offered[p]
       /\ got[p] < offered[p]
       /\ \A i \in 1 .. Len(telemQ) : telemQ[i].by = p => telemQ[i].n < offered[p]

QueueInv == QueueShape /\ SlotKept /\ InOrder

LEMMA QueueInit == GlInit => QueueInv
  BY DEF GlInit, RpcInit, QueueInv, QueueShape, SlotKept, InOrder, Producers

-----------------------------------------------------------------------------
LEMMA SendKeepsQueue ==
  ASSUME QueueInv, NEW p \in Producers, NEW what \in {"param", "other"},
         SendTelemetry(p, what)
  PROVE  QueueInv'
<1> USE DEF QueueInv
<1>1. /\ txPc[p] = "idle" /\ (p = "monitor" => txPc["actuator"] \in {"idle", "waiting"})
      /\ txPc' = [txPc EXCEPT ![p] = "waiting"]
      /\ txMsg' = [txMsg EXCEPT ![p] = [by |-> p, n |-> offered[p] + 1, what |-> what]]
      /\ offered' = [offered EXCEPT ![p] = @ + 1]
      /\ UNCHANGED <<telemQ, got, stolen>>
  BY DEF SendTelemetry, Idle, Runs
<1>2. QueueShape'
  <2>1. [by |-> p, n |-> offered[p] + 1, what |-> what] \in Messages
    BY DEF Messages, QueueShape
  <2>2. QED
    BY <1>1, <2>1, NoMsgIsNone DEF QueueShape
<1>3. SlotKept'
  BY <1>1 DEF QueueShape, SlotKept, Producers
<1>4. InOrder'
  <2>1. /\ offered' \in [Producers -> Nat] /\ offered'[p] = offered[p] + 1
        /\ \A q \in Producers : offered[q] <= offered'[q]
        /\ \A q \in Producers \ {p} : /\ offered'[q] = offered[q]
                                      /\ txPc'[q] = txPc[q] /\ txMsg'[q] = txMsg[q]
        /\ txMsg'[p] = [by |-> p, n |-> offered[p] + 1, what |-> what]
    BY <1>1 DEF QueueShape
  <2>2. \A i \in 1 .. Len(telemQ) : telemQ[i].by \in Producers /\ telemQ[i].n \in Nat
    BY QueueEntries DEF QueueShape
  <2>3. ASSUME NEW i \in 1 .. Len(telemQ)
        PROVE  /\ got[telemQ[i].by] < telemQ[i].n
               /\ telemQ[i].n <= offered'[telemQ[i].by]
    <3>1. telemQ[i].by \in Producers /\ telemQ[i].n \in Nat
      BY <2>2
    <3>2. /\ got[telemQ[i].by] < telemQ[i].n
          /\ telemQ[i].n <= offered[telemQ[i].by]
      BY DEF InOrder
    <3>3. /\ offered[telemQ[i].by] \in Nat /\ offered'[telemQ[i].by] \in Nat
          /\ offered[telemQ[i].by] <= offered'[telemQ[i].by]
      BY <2>1, <3>1 DEF QueueShape
    <3>4. QED
      BY <3>1, <3>2, <3>3
  <2>4. ASSUME NEW q \in Producers, txPc'[q] # "idle"
        PROVE  /\ txMsg'[q].by = q
               /\ txMsg'[q].n = offered'[q]
               /\ got[q] < offered'[q]
               /\ \A i \in 1 .. Len(telemQ) : telemQ[i].by = q => telemQ[i].n < offered'[q]
    <3>1. CASE q = p
      <4>1. got[p] <= offered[p] /\ got[p] \in Nat /\ offered[p] \in Nat
        BY DEF InOrder, QueueShape
      <4>2. ASSUME NEW i \in 1 .. Len(telemQ), telemQ[i].by = p
            PROVE  telemQ[i].n < offered'[p]
        <5>1. telemQ[i].n <= offered[p]
          BY <4>2 DEF InOrder
        <5>2. QED
          BY <2>1, <2>2, <4>1, <5>1
      <4>3. /\ txMsg'[p].by = p /\ txMsg'[p].n = offered'[p]
            /\ got[p] < offered'[p]
        BY <2>1, <4>1
      <4>4. QED
        BY <3>1, <4>2, <4>3
    <3>2. CASE q # p
      BY <2>1, <2>4, <3>2 DEF InOrder
    <3>3. QED
      BY <3>1, <3>2
  <2>5. \A q \in Producers : got[q] <= offered'[q]
    BY <2>1 DEF InOrder, QueueShape
  <2>6. \A i, j \in 1 .. Len(telemQ) :
          (i < j /\ telemQ[i].by = telemQ[j].by) => telemQ[i].n < telemQ[j].n
    BY DEF InOrder
  <2>7. telemQ' = telemQ /\ got' = got
    BY <1>1
  <2>8. QED
    BY <2>3, <2>4, <2>5, <2>6, <2>7 DEF InOrder
<1>5. QED
  BY <1>2, <1>3, <1>4

(* The message put at the end is the last its producer has sent. *)
LEMMA PutKeepsQueue ==
  ASSUME QueueInv, NEW p \in Producers, PutTelemetry(p)
  PROVE  QueueInv'
<1> USE DEF QueueInv
<1>1. /\ txPc[p] \in {"waiting", "retry"} /\ Len(telemQ) < TelemDepth
      /\ p = "monitor" => txPc["actuator"] \in {"idle", "waiting"}
      /\ telemQ' = Append(telemQ, txMsg[p])
      /\ txPc' = [txPc EXCEPT ![p] = "idle"]
      /\ txMsg' = [txMsg EXCEPT ![p] = NoMsg]
      /\ stolen' = IF p = "monitor" THEN FALSE ELSE stolen \/ txPc["monitor"] = "retry"
      /\ UNCHANGED <<offered, got>>
  BY DEF PutTelemetry, Done, Runs, Room
<1> DEFINE m == txMsg[p]
<1>2. m \in Messages /\ m.by = p /\ m.n = offered[p] /\ got[p] < offered[p]
  BY <1>1 DEF QueueShape, InOrder
<1>3. /\ Len(telemQ') = Len(telemQ) + 1
      /\ \A i \in 1 .. Len(telemQ) : telemQ'[i] = telemQ[i]
      /\ telemQ'[Len(telemQ) + 1] = m
      /\ telemQ' \in Seq(Messages)
  BY <1>1, <1>2 DEF QueueShape
<1>4. QueueShape'
  BY <1>1, <1>2, <1>3 DEF QueueShape
<1>5. SlotKept'
  BY <1>1 DEF QueueShape, SlotKept, Producers
<1>6. InOrder'
  <2>1. Len(telemQ) \in Nat
    BY DEF QueueShape
  <2>2. \A i \in 1 .. Len(telemQ') : i \in 1 .. Len(telemQ) \/ i = Len(telemQ) + 1
    BY <1>3, <2>1
  <2>3. ASSUME NEW i \in 1 .. Len(telemQ')
        PROVE  /\ got'[telemQ'[i].by] < telemQ'[i].n
               /\ telemQ'[i].n <= offered'[telemQ'[i].by]
    <3>1. CASE i \in 1 .. Len(telemQ)
      BY <1>1, <1>3, <3>1 DEF InOrder
    <3>2. CASE i = Len(telemQ) + 1
      BY <1>1, <1>2, <1>3, <3>2 DEF QueueShape
    <3>3. QED
      BY <2>2, <3>1, <3>2
  <2>4. ASSUME NEW i \in 1 .. Len(telemQ'), NEW j \in 1 .. Len(telemQ'),
               i < j, telemQ'[i].by = telemQ'[j].by
        PROVE  telemQ'[i].n < telemQ'[j].n
    <3>1. i \in 1 .. Len(telemQ)
      BY <2>1, <2>2, <2>4
    <3>2. CASE j \in 1 .. Len(telemQ)
      BY <1>3, <2>4, <3>1, <3>2 DEF InOrder
    <3>3. CASE j = Len(telemQ) + 1
      <4>1. telemQ[i].by = p
        BY <1>2, <1>3, <2>4, <3>1, <3>3
      <4>2. telemQ[i].n < offered[p]
        BY <1>1, <3>1, <4>1 DEF InOrder
      <4>3. QED
        BY <1>2, <1>3, <3>1, <3>3, <4>2
    <3>4. QED
      BY <2>2, <3>2, <3>3
  <2>5. ASSUME NEW q \in Producers, txPc'[q] # "idle"
        PROVE  /\ txMsg'[q].by = q
               /\ txMsg'[q].n = offered'[q]
               /\ got'[q] < offered'[q]
               /\ \A i \in 1 .. Len(telemQ') : telemQ'[i].by = q => telemQ'[i].n < offered'[q]
    <3>1. q # p /\ txPc[q] = txPc'[q] /\ txMsg'[q] = txMsg[q]
      BY <1>1, <2>5 DEF QueueShape
    <3>2. ASSUME NEW i \in 1 .. Len(telemQ'), telemQ'[i].by = q
          PROVE  telemQ'[i].n < offered'[q]
      <4>1. i \in 1 .. Len(telemQ)
        BY <1>2, <1>3, <2>2, <3>1, <3>2
      <4>2. QED
        BY <1>1, <1>3, <2>5, <3>1, <3>2, <4>1 DEF InOrder
    <3>3. QED
      BY <1>1, <2>5, <3>1, <3>2 DEF InOrder
  <2>6. \A q \in Producers : got'[q] <= offered'[q]
    BY <1>1 DEF InOrder
  <2>7. QED
    BY <2>3, <2>4, <2>5, <2>6 DEF InOrder
<1>7. QED
  BY <1>4, <1>5, <1>6

(* Without its first message the queue is in order still. *)
LEMMA TailInOrder ==
  ASSUME QueueInv, telemQ # <<>>
  PROVE  /\ Tail(telemQ) \in Seq(Messages)
         /\ Len(Tail(telemQ)) = Len(telemQ) - 1
         /\ \A i \in 1 .. Len(Tail(telemQ)) : /\ i + 1 \in 1 .. Len(telemQ)
                                             /\ Tail(telemQ)[i] = telemQ[i + 1]
         /\ 1 \in 1 .. Len(telemQ) /\ Head(telemQ) = telemQ[1]
         /\ Len(telemQ) \in Nat
  BY DEF QueueInv, QueueShape

LEMMA TryKeepsQueue ==
  ASSUME QueueInv, NEW p \in Producers,
         TelemetryFull(p) \/ DiscardOldest(p) \/ RefuseTelemetry(p)
  PROVE  QueueInv'
<1> USE DEF QueueInv
<1>1. CASE TelemetryFull(p)
  <2>1. /\ txPc[p] = "waiting" /\ txPc' = [txPc EXCEPT ![p] = "discard"]
        /\ UNCHANGED <<telemQ, txMsg, offered, got, stolen>>
    BY <1>1 DEF TelemetryFull
  <2>2. QueueShape'
    BY <2>1 DEF QueueShape
  <2>3. SlotKept'
    BY <2>1 DEF QueueShape, SlotKept, Producers
  <2>4. \A q \in Producers : txPc'[q] # "idle" => txPc[q] # "idle"
    BY <2>1 DEF QueueShape
  <2>5. InOrder'
    BY <2>1, <2>4 DEF InOrder
  <2>6. QED
    BY <2>2, <2>3, <2>5
<1>2. CASE RefuseTelemetry(p)
  <2>1. /\ txPc[p] = "retry" /\ txPc' = [txPc EXCEPT ![p] = "idle"]
        /\ txMsg' = [txMsg EXCEPT ![p] = NoMsg]
        /\ stolen' = IF p = "monitor" THEN FALSE ELSE stolen
        /\ UNCHANGED <<telemQ, offered, got>>
    BY <1>2 DEF RefuseTelemetry, Done
  <2>2. QueueShape'
    BY <2>1 DEF QueueShape
  <2>3. SlotKept'
    BY <2>1 DEF QueueShape, SlotKept, Producers
  <2>4. \A q \in Producers : txPc'[q] # "idle" =>
          txPc[q] # "idle" /\ txMsg'[q] = txMsg[q]
    BY <2>1 DEF QueueShape
  <2>5. InOrder'
    BY <2>1, <2>4 DEF InOrder
  <2>6. QED
    BY <2>2, <2>3, <2>5
<1>3. CASE DiscardOldest(p)
  <2>1. /\ txPc[p] = "discard" /\ txPc' = [txPc EXCEPT ![p] = "retry"]
        /\ telemQ' = IF telemQ = <<>> THEN telemQ ELSE Tail(telemQ)
        /\ UNCHANGED <<txMsg, offered, got, stolen>>
    BY <1>3 DEF DiscardOldest
  <2>2. \A q \in Producers : txPc'[q] # "idle" => txPc[q] # "idle"
    BY <2>1 DEF QueueShape
  <2>3. CASE telemQ = <<>>
    <3>1. telemQ' = telemQ /\ Len(telemQ) = 0
      BY <2>1, <2>3
    <3>2. QueueShape'
      BY <2>1, <3>1 DEF QueueShape
    <3>3. SlotKept'
      BY <2>1, <3>1 DEF SlotKept
    <3>4. InOrder'
      BY <2>1, <2>2, <3>1 DEF InOrder
    <3>5. QED
      BY <3>2, <3>3, <3>4
  <2>4. CASE telemQ # <<>>
    <3>1. telemQ' = Tail(telemQ)
      BY <2>1, <2>4
    <3>2. QueueShape' /\ Len(telemQ') < TelemDepth
      BY <2>1, <2>4, <3>1, TailInOrder DEF QueueShape
    <3>3. SlotKept'
      BY <3>2 DEF SlotKept
    <3>4. InOrder'
      <4>1. \A i \in 1 .. Len(telemQ') : /\ i + 1 \in 1 .. Len(telemQ)
                                        /\ telemQ'[i] = telemQ[i + 1]
        BY <2>4, <3>1, TailInOrder
      <4>2. \A i \in 1 .. Len(telemQ') :
              /\ got'[telemQ'[i].by] < telemQ'[i].n
              /\ telemQ'[i].n <= offered'[telemQ'[i].by]
        BY <2>1, <4>1 DEF InOrder
      <4>3. ASSUME NEW i \in 1 .. Len(telemQ'), NEW j \in 1 .. Len(telemQ'),
                   i < j, telemQ'[i].by = telemQ'[j].by
            PROVE  telemQ'[i].n < telemQ'[j].n
        <5>1. i + 1 < j + 1
          BY <4>3
        <5>2. QED
          BY <4>1, <4>3, <5>1 DEF InOrder
      <4>4. \A q \in Producers : txPc'[q] # "idle" =>
              /\ txMsg'[q].by = q
              /\ txMsg'[q].n = offered'[q]
              /\ got'[q] < offered'[q]
              /\ \A i \in 1 .. Len(telemQ') : telemQ'[i].by = q => telemQ'[i].n < offered'[q]
        BY <2>1, <2>2, <4>1 DEF InOrder
      <4>5. \A q \in Producers : got'[q] <= offered'[q]
        BY <2>1 DEF InOrder
      <4>6. QED
        BY <4>2, <4>3, <4>4, <4>5 DEF InOrder
    <3>5. QED
      BY <3>2, <3>3, <3>4
  <2>5. QED
    BY <2>3, <2>4
<1>4. QED
  BY <1>1, <1>2, <1>3

(* What is received comes after what was received. *)
LEMMA TakeKeepsQueue ==
  ASSUME QueueInv, TakeTelemetry
  PROVE  QueueInv'
<1> USE DEF QueueInv
<1> DEFINE m == Head(telemQ)
<1>1. /\ telemQ # <<>> /\ telemQ' = Tail(telemQ)
      /\ got' = [got EXCEPT ![m.by] = m.n]
      /\ UNCHANGED <<txPc, txMsg, offered, stolen>>
  BY DEF TakeTelemetry
<1>2. /\ m.by \in Producers /\ m.n \in Nat /\ m = telemQ[1]
      /\ got[m.by] < m.n /\ m.n <= offered[m.by]
  BY <1>1, TailInOrder, QueueEntries DEF InOrder
<1>3. QueueShape'
  BY <1>1, <1>2, TailInOrder DEF QueueShape
<1>4. SlotKept'
  BY <1>1, TailInOrder DEF QueueShape, SlotKept
<1>5. InOrder'
  <2>1. got'[m.by] = m.n /\ \A q \in Producers \ {m.by} : got'[q] = got[q]
    BY <1>1, <1>2 DEF QueueShape
  <2>2. ASSUME NEW i \in 1 .. Len(telemQ')
        PROVE  /\ got'[telemQ'[i].by] < telemQ'[i].n
               /\ telemQ'[i].n <= offered'[telemQ'[i].by]
    <3>1. /\ i + 1 \in 1 .. Len(telemQ) /\ telemQ'[i] = telemQ[i + 1]
          /\ 1 \in 1 .. Len(telemQ) /\ 1 < i + 1
      BY <1>1, TailInOrder
    <3>2. telemQ[i + 1].by \in Producers /\ telemQ[i + 1].n \in Nat
      BY <3>1, QueueEntries
    <3>3. telemQ[i + 1].n <= offered[telemQ[i + 1].by] /\ got[telemQ[i + 1].by] < telemQ[i + 1].n
      BY <3>1 DEF InOrder
    <3>4. telemQ[i + 1].by = m.by => m.n < telemQ[i + 1].n
      BY <1>2, <3>1 DEF InOrder
    <3>5. QED
      BY <1>1, <2>1, <3>1, <3>2, <3>3, <3>4
  <2>3. ASSUME NEW i \in 1 .. Len(telemQ'), NEW j \in 1 .. Len(telemQ'),
               i < j, telemQ'[i].by = telemQ'[j].by
        PROVE  telemQ'[i].n < telemQ'[j].n
    <3>1. /\ i + 1 \in 1 .. Len(telemQ) /\ telemQ'[i] = telemQ[i + 1]
          /\ j + 1 \in 1 .. Len(telemQ) /\ telemQ'[j] = telemQ[j + 1]
          /\ i + 1 < j + 1
      BY <1>1, <2>3, TailInOrder
    <3>2. QED
      BY <2>3, <3>1 DEF InOrder
  <2>4. ASSUME NEW q \in Producers, txPc'[q] # "idle"
        PROVE  /\ txMsg'[q].by = q
               /\ txMsg'[q].n = offered'[q]
               /\ got'[q] < offered'[q]
               /\ \A i \in 1 .. Len(telemQ') : telemQ'[i].by = q => telemQ'[i].n < offered'[q]
    <3>1. /\ txMsg[q].by = q /\ txMsg[q].n = offered[q] /\ got[q] < offered[q]
          /\ \A i \in 1 .. Len(telemQ) : telemQ[i].by = q => telemQ[i].n < offered[q]
      BY <1>1, <2>4 DEF InOrder
    <3>2. got'[q] < offered[q]
      BY <1>1, <1>2, <2>1, <3>1, TailInOrder
    <3>3. QED
      BY <1>1, <3>1, <3>2, TailInOrder
  <2>5. \A q \in Producers : got'[q] <= offered'[q]
    BY <1>1, <1>2, <2>1 DEF InOrder
  <2>6. QED
    BY <2>2, <2>3, <2>4, <2>5 DEF InOrder
<1>6. QED
  BY <1>3, <1>4, <1>5

LEMMA QueueStep == QueueInv /\ [GlNext]_glVars => QueueInv'
<1> SUFFICES ASSUME QueueInv, [GlNext]_glVars PROVE QueueInv'
  OBVIOUS
<1>1. CASE \E p \in Producers, what \in {"param", "other"} : SendTelemetry(p, what)
  BY <1>1, SendKeepsQueue
<1>2. CASE \E p \in Producers : TelemetryStep(p)
  BY <1>2, PutKeepsQueue, TryKeepsQueue DEF TelemetryStep
<1>3. CASE TakeTelemetry
  BY <1>3, TakeKeepsQueue
<1>4. ASSUME UNCHANGED telemVars PROVE QueueInv'
  <2>1. UNCHANGED <<telemQ, txPc, txMsg, offered, got, stolen>>
    BY <1>4 DEF telemVars
  <2>2. QED
    BY <2>1 DEF QueueInv, QueueShape, SlotKept, InOrder
<1>5. CASE TelemReset
  <2> USE DEF QueueInv
  <2>1. /\ telemQ' = <<>> /\ txPc' = [p \in Producers |-> "idle"]
        /\ stolen' = FALSE /\ UNCHANGED <<offered, got>>
        /\ txMsg' = [p \in Producers |-> NoMsg]
    BY <1>5 DEF TelemReset
  <2>2. QueueShape'
    BY <2>1 DEF QueueShape
  <2>3. SlotKept'
    BY <2>1 DEF SlotKept, Producers
  <2>4. InOrder'
    BY <2>1 DEF InOrder
  <2>5. QED
    BY <2>2, <2>3, <2>4
<1>6. QED
  BY <1>1, <1>2, <1>3, <1>4, <1>5, TelemSteps

LEMMA QueueAlways == GlSpec => []QueueInv
  BY QueueInit, QueueStep, PTL DEF GlSpec

-----------------------------------------------------------------------------
(* With any number of slots, only the monitor can be refused, and only     *)
(* when the actuator has taken the slot it had made.                       *)
THEOREM RefusedByRace == GlSpec => RefusedOnlyByRace
<1>1. QueueInv => [\A p \in Producers : RefuseTelemetry(p) => p = "monitor" /\ stolen]_glVars
  BY DEF QueueInv, SlotKept, RefuseTelemetry, Room, Producers
<1>2. QED
  BY <1>1, QueueAlways, PTL DEF RefusedOnlyByRace

(* With any number of slots and any interleaving, what arrives of a        *)
(* producer's messages arrives in order and once.                          *)
THEOREM FifoRefinement == GlSpec => ImplementsFifo
<1>1. GlInit => Fifo!Init
  BY DEF GlInit, RpcInit, Fifo!Init
<1>2. QueueInv /\ [GlNext]_glVars => [Fifo!Next]_Fifo!vars
  <2> SUFFICES ASSUME QueueInv, [GlNext]_glVars PROVE [Fifo!Next]_Fifo!vars
    OBVIOUS
  <2>1. CASE \E p \in Producers, what \in {"param", "other"} : SendTelemetry(p, what)
    BY <2>1 DEF SendTelemetry, Fifo!Next, Fifo!Offer
  <2>2. CASE \E p \in Producers : TelemetryStep(p)
    BY <2>2 DEF TelemetryStep, PutTelemetry, TelemetryFull, DiscardOldest,
       RefuseTelemetry, Fifo!vars
  <2>3. CASE TakeTelemetry
    <3>1. telemQ # <<>> /\ UNCHANGED offered
          /\ got' = [got EXCEPT ![telemQ[1].by] = telemQ[1].n]
      BY <2>3, TailInOrder DEF TakeTelemetry
    <3>2. /\ telemQ[1].by \in Producers /\ telemQ[1].n \in Nat
          /\ got[telemQ[1].by] < telemQ[1].n
          /\ telemQ[1].n <= offered[telemQ[1].by]
          /\ got[telemQ[1].by] \in Nat /\ offered[telemQ[1].by] \in Nat
      BY <3>1, TailInOrder, QueueEntries DEF QueueInv, QueueShape, InOrder
    <3>3. telemQ[1].n \in got[telemQ[1].by] + 1 .. offered[telemQ[1].by]
      BY <3>2
    <3>4. Fifo!Receive(telemQ[1].by)
      BY <3>1, <3>3 DEF Fifo!Receive
    <3>5. QED
      BY <3>2, <3>4 DEF Fifo!Next
  <2>4. CASE TelemReset \/ UNCHANGED telemVars
    BY <2>4 DEF TelemReset, telemVars, Fifo!vars
  <2>5. QED
    BY <2>1, <2>2, <2>3, <2>4, TelemSteps
<1>3. QED
  BY <1>1, <1>2, QueueAlways, PTL DEF GlSpec, ImplementsFifo, Fifo!Spec

-----------------------------------------------------------------------------
(* While a list goes on and nobody but its asker has spoken since, the     *)
(* asker is the peer and was handed each entry once in every pass so far.  *)
ListInv ==
  /\ idx \in 0 .. Len(Local) /\ pass \in Nat /\ pending \in BOOLEAN
  /\ pending => asker \in Stations /\ asker \in spoke
  /\ (pending /\ spoke = {asker}) =>
       /\ peer = asker
       /\ handed = [i \in DOMAIN Local |-> pass + (IF i <= idx THEN 1 ELSE 0)]
  /\ (pending => pass < Passes)

LEMMA LocalShape ==
  /\ Len(Local) \in Nat /\ DOMAIN Local = 1 .. Len(Local)
  /\ Passes \in Nat \ {0} /\ "nobody" \notin Stations
  BY GroundLinkAssumption

LEMMA ListInit == GlInit => ListInv
<1> SUFFICES ASSUME GlInit PROVE ListInv
  OBVIOUS
<1>1. pending = FALSE /\ idx = 0 /\ pass = 0
  BY DEF GlInit
<1>2. ~pending /\ pending \in BOOLEAN
  BY <1>1, Zenon
<1>3. idx \in 0 .. Len(Local) /\ pass \in Nat
  BY <1>1, LocalShape
<1>4. QED
  BY <1>2, <1>3, Zenon DEF ListInv

LEMMA EndOfList ==
  ASSUME ListInv, EndPass
  PROVE  /\ ListInv'
         /\ (~pending' /\ spoke = {asker}) => \A i \in DOMAIN Local : handed[i] = Passes
<1> USE DEF ListInv
<1>1. /\ pending /\ idx = Len(Local) /\ pass' = pass + 1
      /\ IF pass' < Passes THEN idx' = 0 /\ pending' = pending
         ELSE pending' = FALSE /\ idx' = idx
      /\ UNCHANGED <<asker, handed, peer, spoke>>
  BY DEF EndPass, Turn
<1>2. DOMAIN Local = 1 .. Len(Local) /\ Len(Local) \in Nat /\ Passes \in Nat
  BY LocalShape
<1>3. spoke = {asker} => handed = [i \in DOMAIN Local |-> pass + 1]
  BY <1>1, <1>2
<1>4. pass' \in Nat /\ pass' <= Passes
  BY <1>1
<1>5. spoke = {asker} /\ pending' =>
        handed' = [i \in DOMAIN Local |-> pass' + (IF i <= idx' THEN 1 ELSE 0)]
  BY <1>1, <1>2, <1>3
<1>6. ListInv'
  <2>1. pending' \in BOOLEAN /\ pending
    BY <1>1, Zenon
  <2>2. idx' \in 0 .. Len(Local) /\ pass' \in Nat
    <3>1. idx' = 0 \/ idx' = Len(Local)
      BY <1>1, Zenon
    <3>2. QED
      BY <1>2, <1>4, <3>1
  <2>3. pending' => pass' < Passes
    BY <1>1
  <2>4. asker' \in Stations /\ asker' \in spoke'
    BY <1>1, <2>1
  <2>5. ASSUME pending', spoke' = {asker'}
        PROVE  /\ peer' = asker'
               /\ handed' = [i \in DOMAIN Local |-> pass' + (IF i <= idx' THEN 1 ELSE 0)]
    <3>1. spoke = {asker} /\ peer' = peer /\ asker' = asker
      BY <1>1, <2>5
    <3>2. peer = asker
      BY <2>1, <3>1
    <3>3. QED
      BY <1>5, <2>5, <3>1, <3>2, Zenon
  <2>6. QED
    BY <2>1, <2>2, <2>3, <2>4, <2>5, Zenon
<1>7. ASSUME ~pending', spoke = {asker}, NEW i \in DOMAIN Local
      PROVE  handed[i] = Passes
  <2>1. ~(pass' < Passes)
    BY <1>1, <1>7, Zenon
  <2>2. pass + 1 = Passes
    BY <1>1, <1>2, <1>4, <2>1
  <2>3. QED
    BY <1>3, <1>7, <2>2
<1>8. QED
  BY <1>6, <1>7

LEMMA ListStep == ListInv /\ [GlNext]_glVars => ListInv'
<1> SUFFICES ASSUME ListInv, [GlNext]_glVars PROVE ListInv'
  OBVIOUS
<1> USE DEF ListInv
<1>1. ASSUME UNCHANGED <<pending, idx, pass, asker, handed, peer, spoke>> PROVE ListInv'
  BY <1>1
<1>2. CASE SendNext
  <2>1. /\ pending /\ idx < Len(Local) /\ idx' = idx + 1
        /\ handed' = IF peer = asker THEN [handed EXCEPT ![idx + 1] = @ + 1] ELSE handed
        /\ UNCHANGED <<pending, pass, asker, peer, spoke>>
    BY <1>2 DEF SendNext, Turn
  <2>2. DOMAIN Local = 1 .. Len(Local) /\ Len(Local) \in Nat
    BY LocalShape
  <2>3. ASSUME spoke = {asker}
        PROVE  handed' = [i \in DOMAIN Local |-> pass + (IF i <= idx + 1 THEN 1 ELSE 0)]
    <3>1. /\ handed = [i \in DOMAIN Local |-> pass + (IF i <= idx THEN 1 ELSE 0)]
          /\ handed' = [handed EXCEPT ![idx + 1] = @ + 1]
      BY <2>1, <2>3
    <3>2. \A i \in DOMAIN Local : handed'[i] = pass + (IF i <= idx + 1 THEN 1 ELSE 0)
      BY <2>1, <2>2, <3>1
    <3>3. QED
      BY <3>1, <3>2
  <2>4. QED
    BY <2>1, <2>3
<1>3. CASE EndPass
  BY <1>3, EndOfList
<1>4. ASSUME NEW r \in Requests, AskList(r) PROVE ListInv'
  <2>1. /\ peer' = r.from /\ asker' = r.from /\ spoke' = {r.from}
        /\ pending' = TRUE /\ idx' = 0 /\ pass' = 0
        /\ handed' = [i \in DOMAIN Local |-> 0]
        /\ r.from \in Stations
    BY <1>4 DEF AskList, Packet
  <2>2. \A i \in DOMAIN Local : 0 + (IF i <= 0 THEN 1 ELSE 0) = 0
    OBVIOUS
  <2>3. handed' = [i \in DOMAIN Local |-> 0 + (IF i <= 0 THEN 1 ELSE 0)]
    BY <2>1, <2>2
  <2>4. QED
    BY <2>1, <2>3
<1>5. ASSUME NEW r \in Requests, AskValue(r) \/ AskSet(r) \/ AskReboot(r) PROVE ListInv'
  <2>1. /\ UNCHANGED <<pending, idx, pass, asker, handed>>
        /\ peer' = r.from /\ spoke' = spoke \cup {r.from}
    BY <1>5 DEF AskValue, AskSet, AskReboot, Packet, Heard, listVars
  <2>2. pending /\ spoke' = {asker} => spoke = {asker} /\ r.from = asker
    BY <2>1
  <2>3. QED
    BY <2>1, <2>2
<1>6. CASE Restart
  <2>1. pending' = FALSE /\ idx' = 0 /\ pass' = 0
    BY <1>6 DEF Restart
  <2>2. ~pending' /\ pending' \in BOOLEAN
    BY <2>1, Zenon
  <2>3. idx' \in 0 .. Len(Local) /\ pass' \in Nat
    BY <2>1, LocalShape
  <2>4. QED
    BY <2>2, <2>3, Zenon
<1>7. CASE Handler
  BY <1>1, <1>2, <1>3, <1>4, <1>5, <1>7 DEF Handler, Drain, Turn, TooEarly,
     SendAnswers, NoPacket, Forward, listVars
<1>8. CASE Monitor
  BY <1>1, <1>6, <1>8 DEF Monitor, ObeySet, ObeyReboot, Obey, listVars
<1>9. CASE \E p \in Producers : SendOther(p) \/ SendStep(p)
  BY <1>1, <1>9 DEF SendOther, SendStep, listVars
<1>10. CASE UNCHANGED glVars
  BY <1>1, <1>10 DEF glVars
<1>11. QED
  BY <1>7, <1>8, <1>9, <1>10 DEF GlNext

(* For any number of entries and passes and any requests in between, a     *)
(* list that ends is complete for the one station that spoke.              *)
THEOREM CompleteList == GlSpec => ListComplete
<1>1. ListInv /\ [GlNext]_glVars =>
        [(pending /\ ~pending' /\ asker' = asker /\ spoke = {asker}) =>
           \A i \in DOMAIN Local : handed[i] = Passes]_glVars
  <2> SUFFICES ASSUME ListInv, GlNext, pending, ~pending', asker' = asker, spoke = {asker}
               PROVE  \A i \in DOMAIN Local : handed[i] = Passes
    BY DEF glVars
  <2>1. CASE EndPass
    BY <2>1, EndOfList
  <2>2. CASE Restart
    BY <2>2 DEF Restart, ListInv
  <2>3. CASE Handler
    BY <2>1, <2>3 DEF Handler, Drain, Turn, TooEarly, SendNext, SendAnswers,
       NoPacket, Forward, AskList, AskValue, AskSet, AskReboot, listVars
  <2>4. CASE Monitor
    BY <2>2, <2>4 DEF Monitor, ObeySet, ObeyReboot, Obey, listVars
  <2>5. CASE \E p \in Producers : SendOther(p) \/ SendStep(p)
    BY <2>5 DEF SendOther, SendStep, listVars
  <2>6. QED
    BY <2>3, <2>4, <2>5 DEF GlNext
<1>2. ListInv /\ [GlNext]_glVars => ListInv'
  BY ListStep
<1>3. QED
  BY <1>1, <1>2, ListInit, PTL DEF GlSpec, ListComplete

-----------------------------------------------------------------------------
Sets(c, n) == c.what = "set" /\ c.name = n

Sending(n) == \E c \in Commands : cmdMsg = <<c>> /\ Sets(c, n)

LastSet(i, n) ==
  Sets(cmdQ[i], n) /\ \A j \in 1 .. Len(cmdQ) : Sets(cmdQ[j], n) => j <= i

(* The queue leads to the value of core 1: through its last change of n,   *)
(* or because core 0 has that value already.                               *)
Settled(n) ==
  /\ \A i \in 1 .. Len(cmdQ) : LastSet(i, n) => cmdQ[i].value = local[n]
  /\ (\A i \in 1 .. Len(cmdQ) : ~Sets(cmdQ[i], n)) => main[n] = Clamp(local[n])

StoreShape ==
  /\ cmdQ \in Seq(Commands)
  /\ cmdMsg = <<>> \/ \E c \in Commands : cmdMsg = <<c>>
  /\ local \in [Known -> Int]
  /\ main \in [Main -> Int]
  /\ apart \subseteq Shared

StoreInv ==
  /\ StoreShape
  /\ \A c \in Commands, n \in Shared : (cmdMsg = <<c>> /\ Sets(c, n)) => local[n] = c.value
  /\ \A n \in Shared \ apart : Sending(n) \/ Settled(n)

-----------------------------------------------------------------------------
LEMMA ValuesAreInt == Values \subseteq Int
  BY DEF Values

LEMMA CommandParts ==
  ASSUME NEW c \in Commands
  PROVE  c.what \in {"set", "reboot"} /\ c.name \in Names /\ c.value \in Int
  BY ValuesAreInt DEF Commands

LEMMA ClampIsInt == ASSUME NEW v \in Int PROVE Clamp(v) \in Int
  BY DEF Clamp

LEMMA SharedIsBoth == Shared \subseteq Known /\ Shared \subseteq Main
  BY DEF Shared

LEMMA AskedCommand ==
  ASSUME NEW r \in Requests, NEW w \in {"set", "reboot"}
  PROVE  /\ [what |-> w, name |-> r.name, value |-> r.value] \in Commands
         /\ r.value \in Int
  BY DEF Commands, Names, Values

LEMMA TailShape ==
  ASSUME NEW q \in Seq(Commands), q # <<>>
  PROVE  /\ Tail(q) \in Seq(Commands) /\ Len(q) \in Nat \ {0}
         /\ Len(Tail(q)) = Len(q) - 1
         /\ \A i \in 1 .. Len(q) - 1 : Tail(q)[i] = q[i + 1]
         /\ \A i \in 1 .. Len(q) : q[i] \in Commands
  OBVIOUS

LEMMA PutShape ==
  ASSUME NEW q \in Seq(Commands), NEW c \in Commands
  PROVE  /\ q \o <<c>> \in Seq(Commands) /\ Len(q) \in Nat
         /\ Len(q \o <<c>>) = Len(q) + 1
         /\ \A i \in 1 .. Len(q) : (q \o <<c>>)[i] = q[i]
         /\ (q \o <<c>>)[Len(q) + 1] = c
  OBVIOUS

-----------------------------------------------------------------------------
(* The steps of the system, as the stores and the commands see them. *)
StoreSteps ==
  \/ \E r \in Requests : AskSet(r) \/ AskReboot(r)
  \/ Forward
  \/ ObeySet
  \/ \E armed \in BOOLEAN : ObeyReboot(armed)
  \/ Restart
  \/ UNCHANGED <<cmdQ, cmdMsg, local, main, apart>>

LEMMA StepsOfStores == [GlNext]_glVars => StoreSteps
<1> SUFFICES ASSUME [GlNext]_glVars PROVE StoreSteps
  OBVIOUS
<1> USE DEF StoreSteps, storeVars, cmdVars
<1>1. CASE Handler
  BY <1>1 DEF Handler, Drain, Turn, TooEarly, SendNext, EndPass, SendAnswers,
     NoPacket, AskList, AskValue, Packet
<1>2. CASE Monitor
  BY <1>2 DEF Monitor
<1>3. CASE \E p \in Producers : SendOther(p) \/ SendStep(p)
  BY <1>3 DEF SendOther, SendStep
<1>4. CASE UNCHANGED glVars
  BY <1>4 DEF glVars
<1>5. QED
  BY <1>1, <1>2, <1>3, <1>4 DEF GlNext

LEMMA StoreInit == GlInit => StoreInv
<1> SUFFICES ASSUME GlInit PROVE StoreInv
  OBVIOUS
<1>1. /\ cmdQ = <<>> /\ cmdMsg = <<>> /\ apart = Shared
      /\ main = [n \in Main |-> MainDefault]
      /\ local = [n \in Known |-> LocalDefault]
  BY DEF GlInit, RpcInit, BootState
<1>2. StoreShape
  BY <1>1 DEF StoreShape
<1>3. \A c \in Commands : cmdMsg # <<c>>
  BY <1>1
<1>4. QED
  BY <1>1, <1>2, <1>3 DEF StoreInv

(* A restart parts all stores again. *)
LEMMA RestartKeepsStores == StoreInv /\ Restart => StoreInv'
<1> SUFFICES ASSUME StoreInv, Restart PROVE StoreInv'
  OBVIOUS
<1>1. /\ cmdQ' = <<>> /\ cmdMsg' = <<>> /\ apart' = Shared
      /\ main' = [n \in Main |-> MainDefault]
      /\ local' = [n \in Known |-> LocalDefault]
  BY DEF Restart, RpcReset, BootState
<1>2. StoreShape'
  BY <1>1 DEF StoreShape
<1>3. \A c \in Commands : cmdMsg' # <<c>>
  BY <1>1
<1>4. QED
  BY <1>1, <1>2, <1>3 DEF StoreInv

(* A new command waits to be sent; a set parameter has its value on core 1 *)
(* already, and the other parameters are as they were.                     *)
LEMMA AskKeepsStores ==
  ASSUME StoreInv, NEW r \in Requests, AskSet(r) \/ AskReboot(r)
  PROVE  StoreInv'
<1>1. PICK c0 \in Commands :
        /\ cmdMsg = <<>> /\ cmdMsg' = <<c0>> /\ UNCHANGED <<cmdQ, main, apart>>
        /\ \/ /\ c0.what = "set" /\ c0.name = r.name /\ c0.value = r.value
              /\ local' = IF r.name \in Known THEN [local EXCEPT ![r.name] = r.value] ELSE local
           \/ c0.what = "reboot" /\ local' = local
  <2>1. CASE AskSet(r)
    <3> DEFINE c == [what |-> "set", name |-> r.name, value |-> r.value]
    <3>1. c \in Commands
      BY AskedCommand
    <3>2. cmdMsg = <<>> /\ cmdMsg' = <<c>> /\ UNCHANGED <<cmdQ, main, apart>>
          /\ local' = IF r.name \in Known THEN [local EXCEPT ![r.name] = r.value] ELSE local
      BY <2>1 DEF AskSet, Packet
    <3>3. c.what = "set" /\ c.name = r.name /\ c.value = r.value
      OBVIOUS
    <3>4. QED
      BY <3>1, <3>2, <3>3
  <2>2. CASE AskReboot(r)
    <3> DEFINE c == [what |-> "reboot", name |-> r.name, value |-> r.value]
    <3>1. c \in Commands
      BY AskedCommand
    <3>2. cmdMsg = <<>> /\ cmdMsg' = <<c>> /\ UNCHANGED <<cmdQ, main, local, apart>>
      BY <2>2 DEF AskReboot, Packet, storeVars
    <3>3. c.what = "reboot"
      OBVIOUS
    <3>4. QED
      BY <3>1, <3>2, <3>3
  <2>3. QED
    BY <2>1, <2>2
<1>2. r.value \in Int
  BY AskedCommand
<1>3. \A n : Sets(c0, n) => n = r.name /\ c0.value = r.value
  BY <1>1 DEF Sets
<1>4. ASSUME NEW n \in Shared
      PROVE  /\ Sets(c0, n) => local'[n] = c0.value
             /\ ~Sets(c0, n) => local'[n] = local[n]
  BY <1>1, <1>3, SharedIsBoth DEF StoreInv, StoreShape, Sets
<1>5. StoreShape'
  BY <1>1, <1>2 DEF StoreInv, StoreShape
<1>6. ASSUME NEW c \in Commands, NEW n \in Shared, cmdMsg' = <<c>>, Sets(c, n)
      PROVE  local'[n] = c.value
  <2>1. c = c0
    BY <1>1, <1>6
  <2>2. QED
    BY <1>4, <1>6, <2>1
<1>7. ASSUME NEW n \in Shared \ apart'
      PROVE  Sending(n)' \/ Settled(n)'
  <2>1. CASE Sets(c0, n)
    BY <1>1, <2>1 DEF Sending
  <2>2. CASE ~Sets(c0, n)
    <3>1. ~Sending(n)
      BY <1>1 DEF Sending
    <3>2. Settled(n) /\ local'[n] = local[n] /\ UNCHANGED <<cmdQ, main>>
      BY <1>1, <1>4, <1>7, <2>2, <3>1 DEF StoreInv
    <3>3. QED
      BY <3>2 DEF Settled, LastSet
  <2>3. QED
    BY <2>1, <2>2
<1>8. QED
  BY <1>5, <1>6, <1>7 DEF StoreInv

(* The change becomes the last one in the queue, or core 0 never gets it.  *)
LEMMA ForwardKeepsStores == StoreInv /\ Forward => StoreInv'
<1> SUFFICES ASSUME StoreInv, Forward PROVE StoreInv'
  OBVIOUS
<1>1. PICK c0 \in Commands : cmdMsg = <<c0>>
  BY DEF StoreInv, StoreShape, Forward, PutCommand, DropCommand
<1>2. SetSent = {c \in {c0} : c.what = "set"}
  BY <1>1 DEF SetSent
<1>3. cmdMsg' = <<>> /\ UNCHANGED <<local, main>>
  BY DEF Forward, PutCommand, DropCommand
<1>4. \A c \in Commands : cmdMsg' # <<c>>
  BY <1>3
<1>5. ASSUME NEW n, ~Sets(c0, n) PROVE ~Sending(n)
  BY <1>1, <1>5 DEF Sending
<1>6. CASE PutCommand /\ apart' = apart \ {c.name : c \in SetSent}
  <2>1. cmdQ' = cmdQ \o <<c0>> /\ cmdQ \in Seq(Commands)
    BY <1>1, <1>6 DEF PutCommand, StoreInv, StoreShape
  <2>2. /\ cmdQ' \in Seq(Commands) /\ Len(cmdQ) \in Nat
        /\ Len(cmdQ') = Len(cmdQ) + 1
        /\ \A i \in 1 .. Len(cmdQ) : cmdQ'[i] = cmdQ[i]
        /\ cmdQ'[Len(cmdQ) + 1] = c0
    BY <2>1, PutShape
  <2>3. StoreShape'
    BY <1>3, <1>6, <2>2 DEF StoreInv, StoreShape
  <2>4. ASSUME NEW n \in Shared \ apart' PROVE Settled(n)'
    <3>1. CASE Sets(c0, n)
      <4>1. c0.value = local[n]
        BY <1>1, <3>1, <2>4 DEF StoreInv
      <4>2. ASSUME NEW i \in 1 .. Len(cmdQ'), LastSet(i, n)' PROVE i = Len(cmdQ) + 1
        BY <2>2, <3>1, <4>2 DEF LastSet
      <4>3. QED
        BY <1>3, <2>2, <3>1, <4>1, <4>2 DEF Settled
    <3>2. CASE ~Sets(c0, n)
      <4>1. n \notin apart
        BY <1>2, <1>6, <2>4, <3>2 DEF Sets
      <4>2. Settled(n)
        BY <1>5, <2>4, <3>2, <4>1 DEF StoreInv
      <4>3. ASSUME NEW i \in 1 .. Len(cmdQ'), LastSet(i, n)'
            PROVE  i \in 1 .. Len(cmdQ) /\ LastSet(i, n)
        BY <2>2, <3>2, <4>3 DEF LastSet
      <4>4. QED
        BY <1>3, <2>2, <4>2, <4>3 DEF Settled
    <3>3. QED
      BY <3>1, <3>2
  <2>5. QED
    BY <1>4, <2>3, <2>4 DEF StoreInv
<1>7. CASE DropCommand /\ apart' = apart \cup ({c.name : c \in SetSent} \cap Shared)
  <2>1. cmdQ' = cmdQ
    BY <1>7 DEF DropCommand
  <2>2. StoreShape'
    BY <1>3, <1>7, <2>1 DEF StoreInv, StoreShape
  <2>3. ASSUME NEW n \in Shared \ apart' PROVE Settled(n)'
    <3>1. n \notin apart /\ ~Sets(c0, n)
      BY <1>2, <1>7, <2>3 DEF Sets
    <3>2. Settled(n)
      BY <1>5, <2>3, <3>1 DEF StoreInv
    <3>3. QED
      BY <1>3, <2>1, <3>2 DEF Settled, LastSet
  <2>4. QED
    BY <1>4, <2>2, <2>3 DEF StoreInv
<1>8. QED
  BY <1>6, <1>7 DEF Forward

(* The oldest command is gone and, if it set a parameter of core 0, obeyed. *)
LEMMA ObeyKeepsStores ==
  ASSUME StoreInv, ObeySet \/ \E armed \in BOOLEAN : ObeyReboot(armed)
  PROVE  StoreInv'
<1>1. /\ cmdQ # <<>> /\ cmdQ' = Tail(cmdQ) /\ UNCHANGED <<cmdMsg, local, apart>>
  BY DEF ObeySet, ObeyReboot, Obey, TakeCommand, storeVars
<1>2. cmdQ \in Seq(Commands)
  BY DEF StoreInv, StoreShape
<1>3. /\ cmdQ' \in Seq(Commands) /\ Len(cmdQ) \in Nat \ {0}
      /\ Len(cmdQ') = Len(cmdQ) - 1
      /\ \A i \in 1 .. Len(cmdQ) - 1 : cmdQ'[i] = cmdQ[i + 1]
      /\ cmdQ[1] \in Commands
  BY <1>1, <1>2, TailShape
<1>4. main' = IF cmdQ[1].what = "set" /\ cmdQ[1].name \in Main
              THEN [main EXCEPT ![cmdQ[1].name] = Clamp(cmdQ[1].value)] ELSE main
  BY DEF ObeySet, ObeyReboot, ParamSet
<1>5. Clamp(cmdQ[1].value) \in Int
  BY <1>3, CommandParts, ClampIsInt
<1>6. StoreShape'
  BY <1>1, <1>3, <1>4, <1>5 DEF StoreInv, StoreShape
<1>7. ASSUME NEW n \in Shared
      PROVE  /\ Sets(cmdQ[1], n) => main'[n] = Clamp(cmdQ[1].value)
             /\ ~Sets(cmdQ[1], n) => main'[n] = main[n]
  BY <1>4, SharedIsBoth DEF StoreInv, StoreShape, Sets
<1>8. ASSUME NEW n \in Shared, Settled(n) PROVE Settled(n)'
  <2>1. ASSUME NEW i \in 1 .. Len(cmdQ'), LastSet(i, n)'
        PROVE  i + 1 \in 1 .. Len(cmdQ) /\ LastSet(i + 1, n)
    <3>1. i + 1 \in 1 .. Len(cmdQ) /\ Sets(cmdQ[i + 1], n)
      BY <1>3, <2>1 DEF LastSet
    <3>2. ASSUME NEW j \in 1 .. Len(cmdQ), Sets(cmdQ[j], n) PROVE j <= i + 1
      <4>1. CASE j = 1
        BY <4>1, <1>3
      <4>2. CASE j # 1
        <5>1. j - 1 \in 1 .. Len(cmdQ') /\ cmdQ'[j - 1] = cmdQ[j]
          BY <1>3, <3>2, <4>2
        <5>2. j - 1 <= i
          BY <2>1, <3>2, <5>1 DEF LastSet
        <5>3. QED
          BY <5>2
      <4>3. QED
        BY <4>1, <4>2
    <3>3. QED
      BY <3>1, <3>2 DEF LastSet
  <2>2. ASSUME NEW i \in 1 .. Len(cmdQ'), LastSet(i, n)'
        PROVE  cmdQ'[i].value = local'[n]
    BY <1>1, <1>3, <1>8, <2>1, <2>2 DEF Settled
  <2>3. ASSUME \A i \in 1 .. Len(cmdQ') : ~Sets(cmdQ'[i], n)
        PROVE  main'[n] = Clamp(local[n])
    <3>1. ASSUME NEW j \in 1 .. Len(cmdQ), j # 1 PROVE ~Sets(cmdQ[j], n)
      <4>1. j - 1 \in 1 .. Len(cmdQ') /\ cmdQ'[j - 1] = cmdQ[j]
        BY <1>3, <3>1
      <4>2. QED
        BY <2>3, <4>1
    <3>2. CASE Sets(cmdQ[1], n)
      <4>1. 1 \in 1 .. Len(cmdQ) /\ LastSet(1, n)
        BY <1>3, <3>1, <3>2 DEF LastSet
      <4>2. QED
        BY <1>7, <1>8, <3>2, <4>1 DEF Settled
    <3>3. CASE ~Sets(cmdQ[1], n)
      BY <1>7, <1>8, <3>1, <3>3 DEF Settled
    <3>4. QED
      BY <3>2, <3>3
  <2>4. QED
    BY <1>1, <2>2, <2>3 DEF Settled
<1>9. ASSUME NEW n \in Shared \ apart' PROVE Sending(n)' \/ Settled(n)'
  BY <1>1, <1>8, <1>9 DEF StoreInv, Sending
<1>10. QED
  BY <1>1, <1>6, <1>9 DEF StoreInv

LEMMA StoreStep == StoreInv /\ [GlNext]_glVars => StoreInv'
<1> SUFFICES ASSUME StoreInv, [GlNext]_glVars PROVE StoreInv'
  OBVIOUS
<1>1. CASE UNCHANGED <<cmdQ, cmdMsg, local, main, apart>>
  BY <1>1 DEF StoreInv, StoreShape, Sending, Settled, LastSet
<1>2. QED
  BY <1>1, StepsOfStores, AskKeepsStores, ForwardKeepsStores, ObeyKeepsStores,
     RestartKeepsStores DEF StoreSteps

-----------------------------------------------------------------------------
(* With any tables, requests and any number of changes on their way, the   *)
(* vehicle ends up flying with the values the stations are told.           *)
THEOREM StoresOfCores == GlSpec => []StoresAgree
<1>1. StoreInv => StoresAgree
  <2> SUFFICES ASSUME StoreInv, NEW n \in Shared \ apart, ~UnderWay(n)
               PROVE  main[n] = Clamp(local[n])
    BY DEF StoresAgree
  <2>1. ~Sending(n)
    <3>1. ASSUME NEW c \in Commands, cmdMsg = <<c>>, Sets(c, n) PROVE FALSE
      <4>1. cmdQ \in Seq(Commands)
        BY DEF StoreInv, StoreShape
      <4>2. /\ Len(cmdQ) + 1 \in 1 .. Len(cmdQ \o cmdMsg)
            /\ (cmdQ \o cmdMsg)[Len(cmdQ) + 1] = c
            /\ DOMAIN (cmdQ \o cmdMsg) = 1 .. Len(cmdQ \o cmdMsg)
        <5>1. cmdQ \o cmdMsg = cmdQ \o <<c>>
          BY <3>1
        <5>2. cmdQ \o <<c>> \in Seq(Commands)
          BY <4>1, PutShape
        <5>3. DOMAIN (cmdQ \o <<c>>) = 1 .. Len(cmdQ \o <<c>>)
          BY <5>2
        <5>4. QED
          BY <4>1, <5>1, <5>3, PutShape
      <4>3. QED
        BY <3>1, <4>2 DEF UnderWay, Sets
    <3>2. QED
      BY <3>1 DEF Sending
  <2>2. ASSUME NEW i \in 1 .. Len(cmdQ) PROVE ~Sets(cmdQ[i], n)
    <3>1. cmdQ \in Seq(Commands)
      BY DEF StoreInv, StoreShape
    <3>2. i \in DOMAIN (cmdQ \o cmdMsg) /\ (cmdQ \o cmdMsg)[i] = cmdQ[i]
      BY <3>1 DEF StoreInv, StoreShape
    <3>3. QED
      BY <3>2 DEF UnderWay, Sets
  <2>3. QED
    BY <2>1, <2>2 DEF StoreInv, Settled
<1>2. QED
  BY <1>1, StoreInit, StoreStep, PTL DEF GlSpec

-----------------------------------------------------------------------------
(* What the invariants above leave of the shape of the state.              *)
HandlerShape ==
  /\ mvPc \in {"drain", "receive"}
  /\ cmdMsg # <<>> => mvPc = "receive"
  /\ Len(cmdQ) <= CmdDepth
  /\ peer \in Stations \cup {"nobody"} /\ asker \in Stations \cup {"nobody"}
  /\ pv \in 0 .. PvDepth
  /\ packets \in 0 .. MaxPackets
  /\ spoke \subseteq Stations

FlagShape == restarting \in BOOLEAN /\ stolen \in BOOLEAN

ValueShape ==
  /\ local \in [Known -> Values \cup {LocalDefault}]
  /\ main \in [Main -> LowVal .. HighVal]

(* Nobody is handed an entry twice in a pass, whoever is asker or peer. *)
HandedShape ==
  /\ pass <= Passes
  /\ handed \in [DOMAIN Local -> Nat]
  /\ \A i \in DOMAIN Local :
       /\ handed[i] <= Passes
       /\ pending => handed[i] <= pass + (IF i <= idx THEN 1 ELSE 0)

GlInv ==
  /\ QueueInv /\ ListInv /\ StoreInv
  /\ HandlerShape /\ FlagShape /\ ValueShape /\ HandedShape

LEMMA GlInitInv == GlInit => GlInv
<1> SUFFICES ASSUME GlInit PROVE GlInv
  OBVIOUS
<1>1. HandlerShape
  BY DEF GlInit, RpcInit, HandlerShape
<1>2. FlagShape
  BY DEF GlInit, RpcInit, FlagShape
<1>3. ValueShape
  BY DEF GlInit, BootState, ValueShape
<1>4. HandedShape
  <2>1. pass = 0 /\ handed = [i \in DOMAIN Local |-> 0] /\ pending = FALSE
    BY DEF GlInit
  <2>2. QED
    BY <2>1, LocalShape DEF HandedShape
<1>5. QED
  BY <1>1, <1>2, <1>3, <1>4, QueueInit, ListInit, StoreInit DEF GlInv

(* The steps of the handler, and what the other tasks do to its state. *)
LEMMA HandlerShapeStep == StoreShape /\ HandlerShape /\ [GlNext]_glVars => HandlerShape'
<1> SUFFICES ASSUME StoreShape, HandlerShape, [GlNext]_glVars PROVE HandlerShape'
  OBVIOUS
<1> USE DEF HandlerShape
<1>1. CASE Drain
  BY <1>1 DEF Drain, Kept, cmdVars, listVars
<1>2. CASE TooEarly \/ SendNext \/ EndPass \/ SendAnswers
  BY <1>2 DEF TooEarly, SendNext, EndPass, SendAnswers, Turn, cmdVars, listVars
<1>3. CASE NoPacket
  BY <1>3 DEF NoPacket, cmdVars, listVars
<1>4. CASE Forward
  <2>1. /\ mvPc' = "drain" /\ cmdMsg' = <<>>
        /\ UNCHANGED <<peer, asker, pv, packets, spoke>>
    BY <1>4 DEF Forward, PutCommand, DropCommand, listVars
  <2>2. Len(cmdQ') <= CmdDepth
    <3>1. CASE PutCommand
      <4>1. PICK c \in Commands : cmdMsg = <<c>>
        BY <3>1 DEF PutCommand, StoreShape
      <4>2. cmdQ' = cmdQ \o <<c>> /\ Len(cmdQ) < CmdDepth /\ cmdQ \in Seq(Commands)
        BY <3>1, <4>1 DEF PutCommand, StoreShape
      <4>3. QED
        BY <4>2, PutShape
    <3>2. CASE DropCommand
      BY <3>2 DEF DropCommand
    <3>3. QED
      BY <1>4, <3>1, <3>2 DEF Forward
  <2>3. QED
    BY <2>1, <2>2
<1>5. ASSUME NEW r \in Requests, AskList(r) \/ AskValue(r) \/ AskSet(r) \/ AskReboot(r)
      PROVE  HandlerShape'
  <2>1. r.from \in Stations
    BY <1>5
  <2>2. /\ mvPc = "receive" /\ packets < MaxPackets /\ packets' = packets + 1
        /\ peer' = r.from /\ UNCHANGED <<cmdQ, pv>>
    BY <1>5 DEF AskList, AskValue, AskSet, AskReboot, Packet
  <2>3. /\ asker' = asker \/ asker' = r.from
        /\ spoke' = spoke \cup {r.from} \/ spoke' = {r.from}
        /\ (mvPc' = "drain" /\ cmdMsg' = <<>>) \/ mvPc' = mvPc
    BY <1>5 DEF AskList, AskValue, AskSet, AskReboot, Packet, Heard, listVars
  <2>4. QED
    BY <2>1, <2>2, <2>3
<1>6. CASE ObeySet \/ \E armed \in BOOLEAN : ObeyReboot(armed)
  <2>1. /\ cmdQ # <<>> /\ cmdQ' = Tail(cmdQ) /\ cmdMsg' = cmdMsg
        /\ UNCHANGED <<mvPc, peer, asker, pv, packets, spoke>>
    BY <1>6 DEF ObeySet, ObeyReboot, Obey, TakeCommand, listVars
  <2>2. cmdQ \in Seq(Commands)
    BY DEF StoreShape
  <2>3. Len(cmdQ') <= CmdDepth
    BY <2>1, <2>2, TailShape
  <2>4. QED
    BY <2>1, <2>3
<1>7. CASE Restart
  BY <1>7 DEF Restart, RpcReset
<1>8. CASE \E p \in Producers : SendOther(p) \/ SendStep(p)
  BY <1>8 DEF SendOther, SendStep, cmdVars, listVars
<1>9. CASE UNCHANGED glVars
  BY <1>9 DEF glVars, cmdVars
<1>10. QED
  BY <1>1, <1>2, <1>3, <1>4, <1>5, <1>6, <1>7, <1>8, <1>9 DEF GlNext, Handler, Monitor


LEMMA FlagShapeStep == QueueShape /\ FlagShape /\ [GlNext]_glVars => FlagShape'
<1> SUFFICES ASSUME QueueShape, FlagShape, [GlNext]_glVars PROVE FlagShape'
  OBVIOUS
<1>1. restarting' \in BOOLEAN
  <2>1. CASE Handler
    BY <2>1 DEF FlagShape, Handler, Drain, TooEarly, SendNext, EndPass, SendAnswers, Turn,
       NoPacket, Forward, AskList, AskValue, AskSet, AskReboot, Packet
  <2>2. CASE ObeySet \/ Restart \/ \E p \in Producers : SendOther(p) \/ SendStep(p)
    BY <2>2 DEF FlagShape, ObeySet, Restart, SendOther, SendStep
  <2>3. ASSUME NEW armed \in BOOLEAN, ObeyReboot(armed) PROVE restarting' \in BOOLEAN
    BY <2>3 DEF ObeyReboot
  <2>4. CASE UNCHANGED glVars
    BY <2>4 DEF FlagShape, glVars
  <2>5. QED
    BY <2>1, <2>2, <2>3, <2>4 DEF GlNext, Monitor
<1>2. stolen' \in BOOLEAN
  <2>1. ASSUME NEW p \in Producers, TelemetryStep(p) PROVE stolen' \in BOOLEAN
    <3>1. stolen' \in {FALSE, stolen, stolen \/ txPc["monitor"] = "retry"}
      BY <2>1 DEF TelemetryStep, PutTelemetry, TelemetryFull, DiscardOldest, RefuseTelemetry
    <3>2. QED
      BY <3>1 DEF FlagShape
  <2>2. CASE TelemReset \/ TakeTelemetry \/ UNCHANGED telemVars
             \/ \E p \in Producers, what \in {"param", "other"} : SendTelemetry(p, what)
    BY <2>2 DEF FlagShape, TelemReset, TakeTelemetry, SendTelemetry, telemVars
  <2>3. QED
    BY <2>1, <2>2, TelemSteps
<1>3. QED
  BY <1>1, <1>2 DEF FlagShape

(* Core 1 stores values as they come, core 0 brings them into range. *)
LEMMA ClampInRange == ASSUME NEW v \in Int PROVE Clamp(v) \in LowVal .. HighVal
  BY DEF Clamp

LEMMA ValueShapeStep == StoreShape /\ ValueShape /\ [GlNext]_glVars => ValueShape'
<1> SUFFICES ASSUME StoreShape, ValueShape, [GlNext]_glVars PROVE ValueShape'
  OBVIOUS
<1> USE DEF ValueShape
<1>1. ASSUME NEW r \in Requests, AskSet(r) \/ AskReboot(r) PROVE ValueShape'
  <2>1. r.value \in Values
    BY DEF Values
  <2>2. /\ main' = main
        /\ local' = local \/ local' = [local EXCEPT ![r.name] = r.value]
    BY <1>1 DEF AskSet, AskReboot, Packet, storeVars
  <2>3. QED
    BY <2>1, <2>2
<1>2. CASE Forward
  BY <1>2 DEF Forward
<1>3. CASE ObeySet
  <2>1. cmdQ # <<>> /\ local' = local
    BY <1>3 DEF ObeySet, Obey, TakeCommand, storeVars
  <2>2. cmdQ[1] \in Commands
    BY <2>1 DEF StoreShape
  <2>3. Clamp(cmdQ[1].value) \in LowVal .. HighVal
    BY <2>2, CommandParts, ClampInRange
  <2>4. main' = main \/ main' = [main EXCEPT ![cmdQ[1].name] = Clamp(cmdQ[1].value)]
    BY <1>3 DEF ObeySet, ParamSet
  <2>5. QED
    BY <2>1, <2>3, <2>4
<1>4. CASE \E armed \in BOOLEAN : ObeyReboot(armed)
  BY <1>4 DEF ObeyReboot, Obey, storeVars
<1>5. CASE Restart
  BY <1>5 DEF Restart, BootState
<1>6. CASE UNCHANGED <<cmdQ, cmdMsg, local, main, apart>>
  BY <1>6
<1>7. QED
  BY <1>1, <1>2, <1>3, <1>4, <1>5, <1>6, StepsOfStores DEF StoreSteps

(* The list, as HandedShape sees it: only five steps concern it. *)
LEMMA HandedShapeStep == ListInv /\ HandedShape /\ [GlNext]_glVars => HandedShape'
<1> SUFFICES ASSUME ListInv, HandedShape, [GlNext]_glVars PROVE HandedShape'
  OBVIOUS
<1> DEFINE Bound(i) == pass + (IF i <= idx THEN 1 ELSE 0)
<1>1. ASSUME UNCHANGED <<pending, idx, pass, handed>> PROVE HandedShape'
  BY <1>1 DEF HandedShape
<1>2. /\ idx \in 0 .. Len(Local) /\ pass \in Nat /\ pass <= Passes
      /\ handed \in [DOMAIN Local -> Nat]
      /\ pending => pass < Passes
      /\ \A i \in DOMAIN Local : handed[i] <= Passes
      /\ \A i \in DOMAIN Local : pending => handed[i] <= Bound(i)
  BY DEF ListInv, HandedShape
<1>3. CASE SendNext
  <2>1. /\ pending /\ pending' = pending /\ idx < Len(Local) /\ idx' = idx + 1
        /\ pass' = pass
        /\ handed' = [handed EXCEPT ![idx + 1] = @ + 1] \/ handed' = handed
    BY <1>3 DEF SendNext, Turn
  <2>2. ASSUME NEW i \in DOMAIN Local
        PROVE  handed'[i] \in Nat /\ handed'[i] <= pass + (IF i <= idx + 1 THEN 1 ELSE 0)
    <3>1. i \in Int /\ handed[i] \in Nat /\ handed[i] <= Bound(i)
      BY <1>2, <2>1, LocalShape
    <3>2. CASE i = idx + 1
      BY <1>2, <2>1, <3>1, <3>2
    <3>3. CASE i # idx + 1
      BY <1>2, <2>1, <3>1, <3>3
    <3>4. QED
      BY <3>2, <3>3
  <2>3. handed' \in [DOMAIN Local -> Nat]
    BY <1>2, <2>1, LocalShape
  <2>4. \A i \in DOMAIN Local :
          handed'[i] <= Passes /\ handed'[i] <= pass' + (IF i <= idx' THEN 1 ELSE 0)
    BY <1>2, <2>1, <2>2, LocalShape
  <2>5. QED
    BY <1>2, <2>1, <2>3, <2>4 DEF HandedShape
<1>4. CASE EndPass
  <2>1. /\ pending /\ idx = Len(Local) /\ pass' = pass + 1 /\ handed' = handed
    BY <1>4 DEF EndPass, Turn
  <2>2. \A i \in DOMAIN Local : handed'[i] <= pass' /\ handed'[i] <= Passes
    BY <1>2, <2>1, LocalShape
  <2>3. pass' <= Passes /\ idx' \in 0 .. Len(Local)
    <3>1. idx' = 0 \/ idx' = idx
      BY <1>4 DEF EndPass
    <3>2. QED
      BY <1>2, <2>1, <3>1, LocalShape
  <2>4. \A i \in DOMAIN Local : handed'[i] <= pass' + (IF i <= idx' THEN 1 ELSE 0)
    BY <1>2, <2>1, <2>2, <2>3, LocalShape
  <2>5. QED
    BY <1>2, <2>1, <2>2, <2>3, <2>4 DEF HandedShape
<1>5. CASE Restart \/ \E r \in Requests : AskList(r)
  <2>1. pass' = 0 /\ handed' = [i \in DOMAIN Local |-> 0] /\ idx' = 0
    BY <1>5 DEF Restart, AskList
  <2>2. QED
    BY <2>1, LocalShape DEF HandedShape
<1>6. CASE Drain \/ TooEarly \/ SendAnswers \/ NoPacket \/ Forward
  BY <1>1, <1>6 DEF Drain, TooEarly, SendAnswers, NoPacket, Forward, listVars
<1>7. CASE \E r \in Requests : AskValue(r) \/ AskSet(r) \/ AskReboot(r)
  BY <1>1, <1>7 DEF AskValue, AskSet, AskReboot, listVars
<1>8. CASE ObeySet \/ \E armed \in BOOLEAN : ObeyReboot(armed)
  BY <1>1, <1>8 DEF ObeySet, ObeyReboot, Obey, listVars
<1>9. CASE \E p \in Producers : SendOther(p) \/ SendStep(p)
  BY <1>1, <1>9 DEF SendOther, SendStep, listVars
<1>10. CASE UNCHANGED glVars
  BY <1>1, <1>10 DEF glVars
<1>11. QED
  BY <1>3, <1>4, <1>5, <1>6, <1>7, <1>8, <1>9, <1>10 DEF GlNext, Handler, Monitor

LEMMA GlInvStep == GlInv /\ [GlNext]_glVars => GlInv'
<1> SUFFICES ASSUME GlInv, [GlNext]_glVars PROVE GlInv'
  OBVIOUS
<1>1. QueueShape /\ StoreShape
  BY DEF GlInv, QueueInv, StoreInv
<1>2. QueueInv' /\ ListInv' /\ StoreInv'
  BY QueueStep, ListStep, StoreStep DEF GlInv
<1>3. HandlerShape' /\ FlagShape' /\ ValueShape' /\ HandedShape'
  BY <1>1, HandlerShapeStep, FlagShapeStep, ValueShapeStep, HandedShapeStep DEF GlInv
<1>4. QED
  BY <1>2, <1>3 DEF GlInv

(* No command, answer, list or restart takes the protocol out of its       *)
(* shape: whatever the stations set, core 0 keeps to the range of a        *)
(* parameter, no queue or table outgrows its depth, and nobody is handed   *)
(* an entry more often than there are passes.                              *)
THEOREM GlTypeCorrect == GlSpec => []GlTypeOK
<1>1. GlInv => GlTypeOK
  <2> SUFFICES ASSUME GlInv PROVE GlTypeOK
    OBVIOUS
  <2>1. RpcTypeOK
    BY DEF GlInv, QueueInv, QueueShape, FlagShape, RpcTypeOK
  <2>2. /\ cmdQ \in Seq(Commands) /\ apart \subseteq Shared
        /\ cmdMsg = <<>> \/ \E c \in Commands : cmdMsg = <<c>>
    BY DEF GlInv, StoreInv, StoreShape
  <2>3. idx \in 0 .. Len(Local) /\ pending \in BOOLEAN /\ (pending => pass < Passes)
    BY DEF GlInv, ListInv
  <2>4. pass \in 0 .. Passes
    BY LocalShape DEF GlInv, ListInv, HandedShape
  <2>5. handed \in [DOMAIN Local -> 0 .. Passes]
    <3>1. handed \in [DOMAIN Local -> Nat] /\ \A i \in DOMAIN Local : handed[i] <= Passes
      BY DEF GlInv, HandedShape
    <3>2. \A i \in DOMAIN Local : handed[i] \in 0 .. Passes
      BY <3>1, LocalShape
    <3>3. QED
      BY <3>1, <3>2
  <2>6. HandlerShape /\ FlagShape /\ ValueShape
    BY DEF GlInv
  <2>7. QED
    BY <2>1, <2>2, <2>3, <2>4, <2>5, <2>6 DEF GlTypeOK, HandlerShape, FlagShape, ValueShape
<1>2. QED
  BY <1>1, GlInitInv, GlInvStep, PTL DEF GlSpec
=============================================================================
