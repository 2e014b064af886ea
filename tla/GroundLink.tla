---------------------------- MODULE GroundLink ------------------------------
(***************************************************************************)
(* The parameter protocol, from the ground stations to the store that the  *)
(* controllers read, over the queues of RpcCore.  Three tasks:             *)
(*                                                                         *)
(*   the MAVLink handler (comm/mavlink_handler.c), alone on core 1, goes   *)
(*                    round "drain" -> "receive": it empties the telemetry *)
(*                    queue, sends one value of a list or the answers of   *)
(*                    core 0, and takes one packet.  It answers from a     *)
(*                    store of its own and forwards what is set.           *)
(*   the monitor      (agents/sysmon_agent.c) obeys commands on core 0,    *)
(*                    sets the parameter there and sends it back           *)
(*   the actuator     sends its servo outputs through the same queue       *)
(*                                                                         *)
(* The bridge (comm/gcs_bridge.c) sends to whoever spoke last.             *)
(*                                                                         *)
(* A parameter value is a small number, an answer of core 0 is only        *)
(* counted, and all other telemetry is "other".  The radio loses what it   *)
(* likes: the module follows a message up to sendto.                       *)
(***************************************************************************)
EXTENDS RpcCore, Integers

CONSTANTS
  Stations,    (* the ground stations                                       *)
  Local,       (* the names in s_param_store on core 1, in its order        *)
  Main,        (* the names in s_param_table on core 0                      *)
  Requests,    (* what the stations can ask                                 *)
  LowVal,      (* min_val of the parameters of core 0                       *)
  HighVal,     (* max_val                                                   *)
  MainDefault, (* default_val                                               *)
  LocalDefault,(* the values param_store_init gives the store of core 1     *)
  PvDepth,     (* PARAM_VALUE_QUEUE_DEPTH                                   *)
  Passes,      (* PARAM_SEND_PASSES                                         *)
  MaxPackets,  (* bound: packets that the stations send                     *)
  MaxOffered   (* bound: a producer sends "other" only up to this number    *)

ASSUME GroundLinkAssumption ==
  /\ Stations # {} /\ "nobody" \notin Stations
  /\ Local \in Seq(STRING) /\ Main \subseteq STRING
  /\ Requests \subseteq [from : Stations, ask : {"list", "read", "set", "reboot"},
                          name : STRING, value : Int]
  /\ LowVal \in Int /\ HighVal \in Int
  /\ LowVal <= HighVal
  /\ MainDefault \in LowVal .. HighVal
  /\ LocalDefault \in Int
  /\ PvDepth \in Nat \ {0} /\ Passes \in Nat \ {0}
  /\ MaxPackets \in Nat /\ MaxOffered \in Nat

VARIABLES
  mvPc,       (* where the handler is in its loop                           *)
  peer,       (* s_gcs_addr, or nobody                                      *)
  local,      (* the values in s_param_store                                *)
  pending,    (* s_param_list_pending                                       *)
  idx,        (* s_param_value_send_idx                                     *)
  pass,       (* s_param_send_pass                                          *)
  pv,         (* s_param_value_count: answers of core 0 still to be sent    *)
  main,       (* the values in s_values on core 0                           *)
  restarting, (* the monitor waits before esp_restart                       *)
  packets,    (* how many packets have been received                        *)
  asker,      (* history: the station that last asked for the list          *)
  spoke,      (* history: the stations heard since                          *)
  handed,     (* history: how often each entry went to the asker since      *)
  apart       (* history: the names core 0 was not given the last value of  *)

listVars == <<pending, idx, pass, asker, handed>>
storeVars == <<local, apart>>
glVars == <<telemVars, cmdVars, mvPc, peer, local, pending, idx, pass, pv,
            main, restarting, packets, asker, spoke, handed, apart>>

Known == {Local[i] : i \in DOMAIN Local}
Shared == Known \cap Main

Values == {r.value : r \in Requests}
Names == {r.name : r \in Requests}
Commands == [what : {"set", "reboot"}, name : Names, value : Values]

(* What the cores start with, and start again with after a restart: values *)
(* in flash would be loaded, but nothing ever asks for them to be saved.   *)
BootState(c0, c1, apartNames) ==
  /\ c0 = [n \in Main |-> MainDefault]
  /\ c1 = [n \in Known |-> LocalDefault]
  /\ apartNames = Shared

GlInit ==
  /\ RpcInit
  /\ BootState(main, local, apart)
  /\ mvPc = "drain" /\ peer = "nobody" /\ pv = 0
  /\ pending = FALSE /\ idx = 0 /\ pass = 0
  /\ restarting = FALSE /\ packets = 0
  /\ asker = "nobody" /\ spoke = {} /\ handed = [i \in DOMAIN Local |-> 0]

-----------------------------------------------------------------------------
(* drain_rpc_telemetry: an answer of core 0 that finds no room is dropped; *)
(* whatever else comes in replaces what was known.                         *)
Kept_NoLimit(m) == IF m.what = "param" THEN pv + 1 ELSE pv

Kept(m) == IF m.what = "param" /\ pv < PvDepth THEN pv + 1 ELSE pv

Drain ==
  /\ mvPc = "drain"
  /\ TakeTelemetry
  /\ pv' = Kept(Head(telemQ))
  /\ UNCHANGED <<cmdVars, mvPc, peer, listVars, storeVars, main, restarting, packets, spoke>>

(* send_param_values.  PARAM_VALUE is one of the messages that neither the *)
(* transmit budget nor congestion holds back, and what the socket makes of *)
(* it is not looked at.  Values are 20 ms apart: in a turn that comes too  *)
(* early nothing is sent.  What it sends from is the handler's alone, so   *)
(* the turn may be taken to come as soon as the queue is seen empty.       *)
Turn ==
  /\ mvPc = "drain" /\ telemQ = <<>>
  /\ mvPc' = "receive"
  /\ UNCHANGED <<telemVars, cmdVars, peer, storeVars, main, restarting, packets, spoke>>

TooEarly ==
  /\ pending /\ Turn
  /\ UNCHANGED <<listVars, pv>>

SendNext ==
  /\ pending /\ idx < Len(Local) /\ Turn
  /\ idx' = idx + 1
  /\ handed' = IF peer = asker THEN [handed EXCEPT ![idx + 1] = @ + 1] ELSE handed
  /\ UNCHANGED <<pending, pass, asker, pv>>

EndPass_NotCounted ==
  /\ pending /\ idx = Len(Local) /\ Turn
  /\ IF pass + 1 < Passes THEN idx' = 0 /\ UNCHANGED pending
     ELSE pending' = FALSE /\ UNCHANGED idx
  /\ UNCHANGED <<pass, asker, handed, pv>>

EndPass ==
  /\ pending /\ idx = Len(Local) /\ Turn
  /\ pass' = pass + 1
  /\ IF pass' < Passes THEN idx' = 0 /\ UNCHANGED pending
     ELSE pending' = FALSE /\ UNCHANGED idx
  /\ UNCHANGED <<asker, handed, pv>>

(* The answers of core 0 wait while a list is being sent. *)
SendAnswers ==
  /\ ~pending /\ Turn
  /\ pv' = 0
  /\ UNCHANGED listVars

-----------------------------------------------------------------------------
(* process_incoming_mavlink. *)
NoPacket ==
  /\ mvPc = "receive" /\ cmdMsg = <<>>
  /\ mvPc' = "drain"
  /\ UNCHANGED <<telemVars, cmdVars, peer, listVars, storeVars, pv, main,
                 restarting, packets, spoke>>

Packet(r, ask) ==
  /\ mvPc = "receive" /\ cmdMsg = <<>> /\ packets < MaxPackets
  /\ r.ask = ask
  /\ packets' = packets + 1
  /\ peer' = r.from
  /\ UNCHANGED <<telemVars, cmdQ, pv, main, restarting>>

Heard(s) == spoke' = spoke \cup {s}

(* PARAM_REQUEST_LIST begins the list anew, from whatever point. *)
AskList_KeepsPass(r) ==
  /\ Packet(r, "list")
  /\ mvPc' = "drain"
  /\ asker' = r.from /\ spoke' = {r.from}
  /\ pending' = TRUE /\ idx' = 0
  /\ pass' = IF pending THEN pass ELSE 0
  /\ handed' = [i \in DOMAIN Local |-> 0]
  /\ UNCHANGED <<cmdMsg, storeVars>>

AskList(r) ==
  /\ Packet(r, "list")
  /\ mvPc' = "drain"
  /\ asker' = r.from /\ spoke' = {r.from}
  /\ pending' = TRUE /\ idx' = 0 /\ pass' = 0
  /\ handed' = [i \in DOMAIN Local |-> 0]
  /\ UNCHANGED <<cmdMsg, storeVars>>

(* PARAM_REQUEST_READ is answered at once, from the store of core 1. *)
AskValue(r) ==
  /\ Packet(r, "read") /\ Heard(r.from)
  /\ mvPc' = "drain"
  /\ UNCHANGED <<cmdMsg, listVars, storeVars>>

(* PARAM_SET is stored as it comes, confirmed, and forwarded whether or    *)
(* not the name is known; the handler waits for room in the queue.         *)
AskSet(r) ==
  /\ Packet(r, "set") /\ Heard(r.from)
  /\ local' = IF r.name \in Known THEN [local EXCEPT ![r.name] = r.value] ELSE local
  /\ cmdMsg' = <<[what |-> "set", name |-> r.name, value |-> r.value]>>
  /\ UNCHANGED <<mvPc, listVars, apart>>

(* COMMAND_LONG PREFLIGHT_REBOOT_SHUTDOWN. *)
AskReboot(r) ==
  /\ Packet(r, "reboot") /\ Heard(r.from)
  /\ cmdMsg' = <<[what |-> "reboot", name |-> r.name, value |-> r.value]>>
  /\ UNCHANGED <<mvPc, listVars, storeVars>>

SetSent == {c \in Commands : cmdMsg = <<c>> /\ c.what = "set"}

Forward ==
  /\ mvPc' = "drain"
  /\ \/ PutCommand /\ apart' = apart \ {c.name : c \in SetSent}
     \/ DropCommand /\ apart' = apart \cup ({c.name : c \in SetSent} \cap Shared)
  /\ UNCHANGED <<telemVars, peer, listVars, local, pv, main, restarting, packets, spoke>>

-----------------------------------------------------------------------------
(* Core 0. *)
SendOther(p) ==
  /\ offered[p] < MaxOffered
  /\ p = "monitor" => ~restarting
  /\ SendTelemetry(p, "other")
  /\ UNCHANGED <<cmdVars, mvPc, peer, listVars, storeVars, pv, main,
                 restarting, packets, spoke>>

SendStep(p) ==
  /\ TelemetryStep(p)
  /\ UNCHANGED <<cmdVars, mvPc, peer, listVars, storeVars, pv, main,
                 restarting, packets, spoke>>

Obey ==
  /\ Idle("monitor") /\ ~restarting
  /\ TakeCommand
  /\ UNCHANGED <<mvPc, peer, listVars, storeVars, pv, packets, spoke>>

(* param_set. *)
Clamp(v) == IF v < LowVal THEN LowVal ELSE IF v > HighVal THEN HighVal ELSE v

ParamSet_Unclamped(n, v) == [main EXCEPT ![n] = v]

ParamSet(n, v) == [main EXCEPT ![n] = Clamp(v)]

ObeySet ==
  /\ Obey /\ cmdQ[1].what = "set"
  /\ IF cmdQ[1].name \in Main
     THEN /\ main' = ParamSet(cmdQ[1].name, cmdQ[1].value)
          /\ SendTelemetry("monitor", "param")
     ELSE UNCHANGED <<main, telemVars>>
  /\ UNCHANGED restarting

(* A disarmed vehicle says that it reboots and waits half a second. *)
ObeyReboot(armed) ==
  /\ Obey /\ cmdQ[1].what = "reboot"
  /\ IF armed THEN UNCHANGED telemVars ELSE SendTelemetry("monitor", "other")
  /\ restarting' = ~armed
  /\ UNCHANGED main

Restart ==
  /\ restarting /\ Idle("monitor")
  /\ RpcReset
  /\ BootState(main', local', apart')
  /\ restarting' = FALSE
  /\ mvPc' = "drain" /\ peer' = "nobody" /\ pv' = 0
  /\ pending' = FALSE /\ idx' = 0 /\ pass' = 0
  /\ asker' = "nobody" /\ spoke' = {} /\ handed' = [i \in DOMAIN Local |-> 0]
  /\ UNCHANGED packets

-----------------------------------------------------------------------------
Handler ==
  \/ Drain \/ TooEarly \/ SendNext \/ EndPass \/ SendAnswers
  \/ NoPacket \/ Forward
  \/ \E r \in Requests : AskList(r) \/ AskValue(r) \/ AskSet(r) \/ AskReboot(r)

Monitor == ObeySet \/ (\E armed \in BOOLEAN : ObeyReboot(armed)) \/ Restart

GlNext ==
  \/ Handler \/ Monitor
  \/ \E p \in Producers : SendOther(p) \/ SendStep(p)

GlSpec == GlInit /\ [][GlNext]_glVars

(* No task stops for good, and the turns of the handler do not all come    *)
(* too early, since each takes a millisecond or more.                      *)
GlFairSpec ==
  /\ GlSpec
  /\ WF_glVars(Handler) /\ WF_glVars(Monitor)
  /\ \A p \in Producers : WF_glVars(SendStep(p))
  /\ SF_glVars(SendNext \/ EndPass)

-----------------------------------------------------------------------------
(* The shape of the state. *)
GlTypeOK ==
  /\ RpcTypeOK
  /\ cmdQ \in Seq(Commands) /\ Len(cmdQ) <= CmdDepth
  /\ cmdMsg = <<>> \/ \E c \in Commands : cmdMsg = <<c>>
  /\ mvPc \in {"drain", "receive"}
  /\ cmdMsg # <<>> => mvPc = "receive"
  /\ peer \in Stations \cup {"nobody"} /\ asker \in Stations \cup {"nobody"}
  /\ local \in [Known -> Values \cup {LocalDefault}]
  /\ main \in [Main -> LowVal .. HighVal]
  /\ apart \subseteq Shared
  /\ pending \in BOOLEAN /\ restarting \in BOOLEAN
  /\ idx \in 0 .. Len(Local)
  /\ pass \in 0 .. Passes /\ (pending => pass < Passes)
  /\ pv \in 0 .. PvDepth
  /\ packets \in 0 .. MaxPackets
  /\ spoke \subseteq Stations
  /\ handed \in [DOMAIN Local -> 0 .. Passes]

(* A send loses its own message only to a race: the actuator never does,   *)
(* and the monitor only when the actuator has taken the slot that the      *)
(* monitor made by discarding the oldest message.                          *)
RefusedOnlyByRace ==
  [][\A p \in Producers : RefuseTelemetry(p) => p = "monitor" /\ stolen]_glVars

(* Whatever the producers and the queue do to each other, each producer's  *)
(* messages arrive in order, at most once.                                 *)
ImplementsFifo == Fifo!Spec

(* A list ends only when the station that asked last has been sent every   *)
(* entry as often as there are passes, unless another station spoke in the *)
(* meantime and drew the answers to itself.  That other requests came      *)
(* between, another list request among them, makes no difference.          *)
ListComplete ==
  [][(pending /\ ~pending' /\ asker' = asker /\ spoke = {asker}) =>
       \A i \in DOMAIN Local : handed[i] = Passes]_glVars

(* Once the stations fall silent, a list comes to its end, and the answers *)
(* of core 0 that waited for it go out (or the vehicle restarts).          *)
NothingHeldForEver == (pending \/ pv > 0) ~> (~pending /\ pv = 0)

(* The stores begin with defaults of their own.  But once a parameter both *)
(* know has been set and no change of it is on its way, core 0 flies with  *)
(* the value the stations are told, brought into its range; unless the     *)
(* last change was dropped because the command queue stayed full, which    *)
(* the station that was answered with its new value never learns.          *)
UnderWay(n) ==
  \E i \in DOMAIN (cmdQ \o cmdMsg) :
    (cmdQ \o cmdMsg)[i].what = "set" /\ (cmdQ \o cmdMsg)[i].name = n

StoresAgree ==
  \A n \in Shared \ apart : UnderWay(n) \/ main[n] = Clamp(local[n])
=============================================================================
