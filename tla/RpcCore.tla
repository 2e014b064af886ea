------------------------------ MODULE RpcCore -------------------------------
(***************************************************************************)
(* The two queues between the cores (rpc/rpc_core.c).  Telemetry goes from *)
(* core 0 to core 1: the actuator and the monitor send, and the actuator,  *)
(* of much higher priority, can come between any two steps of the monitor; *)
(* the MAVLink handler takes, on the other core, at any time.  Commands go *)
(* the other way, from the handler to the monitor.                         *)
(*                                                                         *)
(* A call of rpc_send_telemetry waits for room; when it has waited in vain *)
(* it takes the oldest message out and tries once more:                    *)
(*                                                                         *)
(*   "idle" -> "waiting" -> "discard" -> "retry" -> "idle"                 *)
(*                                                                         *)
(* These are calls of a queue that is safe by itself, but nothing holds    *)
(* the queue between them.  rpc_send_command gives up after its wait.      *)
(***************************************************************************)
EXTENDS Naturals, Sequences

CONSTANTS
  TelemDepth,  (* RPC_TELEM_QUEUE_DEPTH                                     *)
  CmdDepth     (* RPC_CMD_QUEUE_DEPTH                                       *)

ASSUME RpcAssumption ==
  /\ TelemDepth \in Nat \ {0}
  /\ CmdDepth \in Nat \ {0}

Producers == {"monitor", "actuator"}

VARIABLES
  telemQ,   (* telem_queue, the oldest message first                        *)
  txPc,     (* how far each producer is in rpc_send_telemetry               *)
  txMsg,    (* the message it sends                                         *)
  offered,  (* history: how many messages each producer has sent            *)
  got,      (* history: the number of its last message that was received    *)
  stolen,   (* history: the actuator has filled the slot that the monitor   *)
            (* had freed and not yet used                                   *)
  cmdQ,     (* cmd_queue                                                    *)
  cmdMsg    (* the command the handler is sending, at most one              *)

telemVars == <<telemQ, txPc, txMsg, offered, got, stolen>>
cmdVars == <<cmdQ, cmdMsg>>

NoMsg == [by |-> "nobody", n |-> 0, what |-> "other"]

RpcInit ==
  /\ telemQ = <<>>
  /\ txPc = [p \in Producers |-> "idle"]
  /\ txMsg = [p \in Producers |-> NoMsg]
  /\ offered = [p \in Producers |-> 0]
  /\ got = [p \in Producers |-> 0]
  /\ stolen = FALSE
  /\ cmdQ = <<>> /\ cmdMsg = <<>>

-----------------------------------------------------------------------------
(* The monitor has the core when the actuator sleeps or waits for room. *)
Runs(p) == p = "monitor" => txPc["actuator"] \in {"idle", "waiting"}

Idle(p) == txPc[p] = "idle" /\ Runs(p)

(* rpc_send_telemetry is called with a message. *)
SendTelemetry(p, what) ==
  /\ Idle(p)
  /\ txPc' = [txPc EXCEPT ![p] = "waiting"]
  /\ txMsg' = [txMsg EXCEPT ![p] = [by |-> p, n |-> offered[p] + 1, what |-> what]]
  /\ offered' = [offered EXCEPT ![p] = @ + 1]
  /\ UNCHANGED <<telemQ, got, stolen>>

Done(p) ==
  /\ txPc' = [txPc EXCEPT ![p] = "idle"]
  /\ txMsg' = [txMsg EXCEPT ![p] = NoMsg]

Room == Len(telemQ) < TelemDepth

(* xQueueSend finds room, at once or while it waits, or after the discard. *)
PutTelemetry_Front(p) ==
  /\ Runs(p) /\ txPc[p] \in {"waiting", "retry"} /\ Room
  /\ telemQ' = IF txPc[p] = "retry" THEN <<txMsg[p]>> \o telemQ
               ELSE Append(telemQ, txMsg[p])
  /\ Done(p)
  /\ stolen' = IF p = "monitor" THEN FALSE
               ELSE stolen \/ txPc["monitor"] = "retry"
  /\ UNCHANGED <<offered, got>>

PutTelemetry(p) ==
  /\ Runs(p) /\ txPc[p] \in {"waiting", "retry"} /\ Room
  /\ telemQ' = Append(telemQ, txMsg[p])
  /\ Done(p)
  /\ stolen' = IF p = "monitor" THEN FALSE
               ELSE stolen \/ txPc["monitor"] = "retry"
  /\ UNCHANGED <<offered, got>>

(* Five milliseconds without room. *)
TelemetryFull(p) ==
  /\ Runs(p) /\ txPc[p] = "waiting" /\ ~Room
  /\ txPc' = [txPc EXCEPT ![p] = "discard"]
  /\ UNCHANGED <<telemQ, txMsg, offered, got, stolen>>

(* The oldest message goes, whatever it is and whether or not the queue is *)
(* still full.                                                             *)
DiscardOldest_Nothing(p) ==
  /\ Runs(p) /\ txPc[p] = "discard"
  /\ txPc' = [txPc EXCEPT ![p] = "retry"]
  /\ UNCHANGED <<telemQ, txMsg, offered, got, stolen>>

DiscardOldest(p) ==
  /\ Runs(p) /\ txPc[p] = "discard"
  /\ txPc' = [txPc EXCEPT ![p] = "retry"]
  /\ telemQ' = IF telemQ = <<>> THEN telemQ ELSE Tail(telemQ)
  /\ UNCHANGED <<txMsg, offered, got, stolen>>

(* The second xQueueSend fails: telem_dropped. *)
RefuseTelemetry(p) ==
  /\ Runs(p) /\ txPc[p] = "retry" /\ ~Room
  /\ Done(p)
  /\ stolen' = IF p = "monitor" THEN FALSE ELSE stolen
  /\ UNCHANGED <<telemQ, offered, got>>

TelemetryStep(p) ==
  PutTelemetry(p) \/ TelemetryFull(p) \/ DiscardOldest(p) \/ RefuseTelemetry(p)

(* rpc_receive_telemetry with a message waiting. *)
TakeTelemetry ==
  /\ telemQ # <<>>
  /\ telemQ' = Tail(telemQ)
  /\ got' = [got EXCEPT ![Head(telemQ).by] = Head(telemQ).n]
  /\ UNCHANGED <<txPc, txMsg, offered, stolen>>

-----------------------------------------------------------------------------
(* rpc_send_command by the handler, which it keeps busy: the command goes  *)
(* into the queue when there is room, or is dropped after 100 ms.          *)
PutCommand ==
  /\ cmdMsg # <<>> /\ Len(cmdQ) < CmdDepth
  /\ cmdQ' = cmdQ \o cmdMsg
  /\ cmdMsg' = <<>>

DropCommand ==
  /\ cmdMsg # <<>> /\ Len(cmdQ) = CmdDepth
  /\ cmdMsg' = <<>>
  /\ UNCHANGED cmdQ

(* rpc_receive_command with a command waiting. *)
TakeCommand ==
  /\ cmdQ # <<>>
  /\ cmdQ' = Tail(cmdQ)
  /\ UNCHANGED cmdMsg

(* A restart of the chip empties both queues; the histories go on. *)
RpcReset ==
  /\ telemQ' = <<>>
  /\ txPc' = [p \in Producers |-> "idle"]
  /\ txMsg' = [p \in Producers |-> NoMsg]
  /\ stolen' = FALSE
  /\ cmdQ' = <<>> /\ cmdMsg' = <<>>
  /\ UNCHANGED <<offered, got>>

(* The shape of the state. *)
Messages == [by : Producers, n : Nat, what : {"param", "other"}]

RpcTypeOK ==
  /\ telemQ \in Seq(Messages) /\ Len(telemQ) <= TelemDepth
  /\ txPc \in [Producers -> {"idle", "waiting", "discard", "retry"}]
  /\ txMsg \in [Producers -> Messages \cup {NoMsg}]
  /\ \A p \in Producers : txPc[p] # "idle" => txMsg[p] \in Messages
  /\ offered \in [Producers -> Nat]
  /\ got \in [Producers -> Nat]
  /\ stolen \in BOOLEAN

(* The queue keeps what LossyFifo promises. *)
Fifo == INSTANCE LossyFifo
=============================================================================
