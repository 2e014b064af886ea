------------------------------ MODULE Mission ------------------------------
(***************************************************************************)
(* A mission on its way from the ground station to the flight controller:  *)
(* the MAVLink handler of core 1 receives it (comm/mavlink_handler.c), the *)
(* command queue carries it to core 0 (rpc/rpc_core.c), the monitor obeys  *)
(* the commands (agents/sysmon_agent.c), the mission manager keeps the     *)
(* items (agents/mission_mgr.c), and the flight controller flies them      *)
(* (agents/flight_ctrl_agent.c).                                           *)
(*                                                                         *)
(* The mission manager has no lock.  The controller, of higher priority,   *)
(* may run between any two statements of the monitor, so the monitor's     *)
(* calls take several steps here and an iteration of the controller one.   *)
(* The steps follow the order of the source: the variables are not         *)
(* volatile, but the build keeps the default optimisation for debugging.   *)
(*                                                                         *)
(* An item is where it comes from and its autocontinue flag.  The ground   *)
(* station follows the protocol: it sends only items it was asked for in   *)
(* this upload, but any of them, repeated or late.  A lost message is one  *)
(* that is not handled.  Left out: fences and rally points, what the       *)
(* handler answers, its own copy of the items, downloads from it, and      *)
(* MISSION_CURRENT.                                                        *)
(*                                                                         *)
(* X_Suffix is operator X with a plausible mistake, for PROJECT.json.      *)
(***************************************************************************)
EXTENDS Naturals, Sequences

CONSTANTS
  MaxItems,    (* MISSION_MAX_ITEMS                                         *)
  CmdDepth,    (* slots of the command queue left to the mission            *)
  MaxUploads   (* bound: the uploads that begin                             *)

ASSUME MissionAssumption ==
  /\ MaxItems \in Nat \ {0} /\ CmdDepth \in Nat \ {0} /\ MaxUploads \in Nat

Index == 0 .. MaxItems - 1

(* An item of the table: cleared memory, one written to the end, or one    *)
(* caught in the middle of a memcpy or memset.                             *)
Items == [src : {"blank", "gcs", "torn"}, auto : BOOLEAN]
Blank == [src |-> "blank", auto |-> FALSE]
Torn(b) == [src |-> "torn", auto |-> b]
NoTarget == [src |-> "none", auto |-> FALSE]

(* Commands of the queue, n being a count or a sequence number. *)
Commands == [cmd : {"count", "item", "clear", "current"}, n : 0 .. MaxItems,
             item : Items]
Cmd(c, n) == [cmd |-> c, n |-> n, item |-> Blank]
ItemCmd(n, b) == [cmd |-> "item", n |-> n, item |-> [src |-> "gcs", auto |-> b]]

VARIABLES
  up,        (* core 1: s_mission_state, _expected, _received, _count       *)
  outbox,    (* core 1: the commands its handler still has to send          *)
  cmdQ,      (* the command queue                                           *)
  ackQ,      (* a RPC_MSG_MISSION_ACK is on its way to core 1               *)
  items,     (* s_items                                                     *)
  count,     (* s_count                                                     *)
  current,   (* s_current                                                   *)
  doing,     (* the monitor's place in a call of the mission manager        *)
  inMission, (* prev_mode = FLIGHT_MODE_MISSION                             *)
  wpSeq,     (* mission_wp_seq                                              *)
  target,    (* history: the item the controller flew to in its last        *)
             (* iteration, or NoTarget                                      *)
  dropped,   (* history: a command found the queue full                     *)
  uploads    (* history: the uploads that began                             *)

core1Vars == <<up, outbox, uploads>>
managerVars == <<items, count, current>>
fcmVars == <<inMission, wpSeq, target>>
missionVars == <<core1Vars, cmdQ, ackQ, managerVars, doing, fcmVars, dropped>>

Idle == [at |-> "idle", n |-> 0, item |-> Blank]

MissionInit ==
  /\ up = [state |-> "idle", expected |-> 0, received |-> 0, count |-> 0]
  /\ outbox = <<>> /\ cmdQ = <<>> /\ ackQ = FALSE
  /\ items = [i \in Index |-> Blank] /\ count = 0 /\ current = 0
  /\ doing = Idle
  /\ inMission = FALSE /\ wpSeq = 0 /\ target = NoTarget
  /\ dropped = FALSE /\ uploads = 0

-----------------------------------------------------------------------------
(* Core 1: one task handles messages and answers one after the other, and  *)
(* waits while it sends a command.                                         *)
Core1Ready == outbox = <<>> /\ UNCHANGED <<cmdQ, managerVars, doing, fcmVars, dropped>>

(* MISSION_COUNT.  Nothing is sent to core 0, not even for an empty        *)
(* mission.                                                                *)
MissionCount(n) ==
  /\ Core1Ready
  /\ uploads < MaxUploads
  /\ uploads' = uploads + 1
  /\ up' = [state |-> IF n > 0 THEN "uploading" ELSE "idle", expected |-> n,
            received |-> 0, count |-> 0]
  /\ UNCHANGED <<outbox, ackQ>>

MissionItem_OneMore(seq, b) ==
  LET received == up.received + 1
      last == received > up.expected
  IN
  /\ Core1Ready
  /\ up.state = "uploading" /\ seq \in Index
  /\ up' = [up EXCEPT !.received = received,
                      !.state = IF last THEN "idle" ELSE @,
                      !.count = IF last THEN up.expected ELSE @]
  /\ outbox' = <<ItemCmd(seq, b)>> \o (IF last THEN <<Cmd("count", up.expected)>> ELSE <<>>)
  /\ UNCHANGED <<ackQ, uploads>>

(* MISSION_ITEM_INT: items are counted, whichever they are; the count      *)
(* follows the last one.                                                   *)
MissionItem(seq, b) ==
  LET received == up.received + 1
      last == received >= up.expected
  IN
  /\ Core1Ready
  /\ up.state = "uploading" /\ seq \in Index
  /\ up' = [up EXCEPT !.received = received,
                      !.state = IF last THEN "idle" ELSE @,
                      !.count = IF last THEN up.expected ELSE @]
  /\ outbox' = <<ItemCmd(seq, b)>> \o (IF last THEN <<Cmd("count", up.expected)>> ELSE <<>>)
  /\ UNCHANGED <<ackQ, uploads>>

MissionClear_KeepCount ==
  /\ Core1Ready
  /\ up' = [up EXCEPT !.state = "idle"]
  /\ outbox' = <<Cmd("clear", 0)>>
  /\ UNCHANGED <<ackQ, uploads>>

(* MISSION_CLEAR_ALL *)
MissionClear ==
  /\ Core1Ready
  /\ up' = [up EXCEPT !.state = "idle", !.count = 0]
  /\ outbox' = <<Cmd("clear", 0)>>
  /\ UNCHANGED <<ackQ, uploads>>

(* MISSION_SET_CURRENT, unchecked *)
MissionSetCurrent(seq) ==
  /\ Core1Ready
  /\ outbox' = <<Cmd("current", seq)>>
  /\ UNCHANGED <<up, ackQ, uploads>>

(* MISSION_REQUEST_LIST: a download begins, whatever went on. *)
MissionRequestList ==
  /\ Core1Ready
  /\ up' = [up EXCEPT !.state = "downloading"]
  /\ UNCHANGED <<outbox, ackQ, uploads>>

(* MISSION_ACK of the ground station *)
MissionAck ==
  /\ Core1Ready
  /\ up' = [up EXCEPT !.state = "idle"]
  /\ UNCHANGED <<outbox, ackQ, uploads>>

(* RPC_MSG_MISSION_ACK of core 0 ends whatever went on, too. *)
DrainAck ==
  /\ Core1Ready
  /\ ackQ /\ ackQ' = FALSE
  /\ up' = [up EXCEPT !.state = "idle"]
  /\ UNCHANGED <<outbox, uploads>>

(* rpc_send_command: a full queue may stay so for 100 ms, and the command  *)
(* is dropped; the handler does not look.                                  *)
SendCommand ==
  /\ outbox # <<>>
  /\ outbox' = Tail(outbox)
  /\ \/ /\ Len(cmdQ) < CmdDepth
        /\ cmdQ' = Append(cmdQ, Head(outbox))
        /\ UNCHANGED dropped
     \/ /\ Len(cmdQ) >= CmdDepth
        /\ dropped' = TRUE
        /\ UNCHANGED cmdQ
  /\ UNCHANGED <<up, uploads, ackQ, managerVars, doing, fcmVars>>

(* rpc_send_telemetry drops the oldest message of a full queue. *)
LoseAck ==
  /\ ackQ /\ ackQ' = FALSE
  /\ UNCHANGED <<core1Vars, cmdQ, managerVars, doing, fcmVars, dropped>>

Core1 ==
  \/ \E n \in 0 .. MaxItems : MissionCount(n)
  \/ \E seq \in 0 .. up.received, b \in BOOLEAN : MissionItem(seq, b)
  \/ MissionClear
  \/ \E seq \in Index : MissionSetCurrent(seq)
  \/ MissionRequestList \/ MissionAck
  \/ DrainAck \/ SendCommand \/ LoseAck

-----------------------------------------------------------------------------
(* The monitor obeys a command: rpc_receive_command and the case of its    *)
(* type, up to the first statement that the controller can see half done.  *)
NextCommand(c) == cmdQ # <<>> /\ doing = Idle /\ Head(cmdQ) = c /\ cmdQ' = Tail(cmdQ)

(* memset of the table, in mission_mgr_set_count and mission_mgr_clear *)
BeginResize(c) ==
  /\ c.cmd \in {"count", "clear"}
  /\ doing' = [at |-> "wipe", n |-> c.n, item |-> Blank]
  /\ items' = [i \in Index |-> IF items[i] = Blank THEN Blank ELSE Torn(items[i].auto)]
  /\ UNCHANGED <<current, ackQ>>

(* memcpy of an item, in mission_mgr_store_item; the sequence number must  *)
(* be below the count, and the acknowledgement does not depend on it.      *)
BeginStore(c) ==
  /\ c.cmd = "item"
  /\ IF c.n < count
     THEN /\ doing' = [at |-> "copy", n |-> c.n, item |-> c.item]
          /\ \E b \in {items[c.n].auto, c.item.auto} :
               items' = [items EXCEPT ![c.n] = Torn(b)]
          /\ UNCHANGED ackQ
     ELSE /\ ackQ' = TRUE
          /\ UNCHANGED <<doing, items>>
  /\ UNCHANGED current

(* mission_mgr_set_current *)
SetCurrent(c) ==
  /\ c.cmd = "current"
  /\ current' = IF c.n < count THEN c.n ELSE current
  /\ UNCHANGED <<doing, items, ackQ>>

Obey ==
  /\ \E c \in Commands :
       NextCommand(c) /\ (BeginResize(c) \/ BeginStore(c) \/ SetCurrent(c))
  /\ UNCHANGED <<core1Vars, count, fcmVars, dropped>>

At(place) ==
  /\ doing.at = place
  /\ UNCHANGED <<core1Vars, cmdQ, fcmVars, dropped>>

Wipe_Nothing ==
  /\ At("wipe")
  /\ doing' = [doing EXCEPT !.at = "resize"]
  /\ items' = [i \in Index |-> IF items[i].src = "torn"
                               THEN [src |-> "gcs", auto |-> items[i].auto] ELSE items[i]]
  /\ UNCHANGED <<count, current, ackQ>>

Wipe ==
  /\ At("wipe")
  /\ doing' = [doing EXCEPT !.at = "resize"]
  /\ items' = [i \in Index |-> Blank]
  /\ UNCHANGED <<count, current, ackQ>>

Resize ==
  /\ At("resize")
  /\ doing' = [doing EXCEPT !.at = "rewind"]
  /\ count' = doing.n
  /\ UNCHANGED <<items, current, ackQ>>

Rewind_NotAll ==
  /\ At("rewind")
  /\ doing' = Idle
  /\ current' = IF doing.n = 0 THEN 0 ELSE current
  /\ ackQ' = TRUE
  /\ UNCHANGED <<items, count>>

Rewind ==
  /\ At("rewind")
  /\ doing' = Idle
  /\ current' = 0
  /\ ackQ' = TRUE
  /\ UNCHANGED <<items, count>>

Copy ==
  /\ At("copy")
  /\ doing' = Idle
  /\ items' = [items EXCEPT ![doing.n] = doing.item]
  /\ ackQ' = TRUE
  /\ UNCHANGED <<count, current>>

MissionMonitor == Obey \/ Wipe \/ Resize \/ Rewind \/ Copy

-----------------------------------------------------------------------------
(* An iteration of the flight controller: what it flies to, and whether it *)
(* goes on.                                                                *)
FcmOnly == UNCHANGED <<core1Vars, cmdQ, ackQ, items, count, doing, dropped>>

(* mission_mgr_advance, and mission_wp_seq read back *)
NextWaypoint ==
  /\ current' = IF current < count THEN current + 1 ELSE current
  /\ wpSeq' = current'

OtherMode ==
  /\ FcmOnly
  /\ inMission' = FALSE
  /\ target' = NoTarget
  /\ UNCHANGED <<current, wpSeq>>

(* No items or no fix: mission_wp_seq is left alone. *)
Hold ==
  /\ FcmOnly
  /\ inMission' = TRUE
  /\ target' = NoTarget
  /\ UNCHANGED <<current, wpSeq>>

(* mission_wp_seq is read from the mission manager on entry only. *)
EntryWp == IF inMission THEN wpSeq ELSE current

Complete ==
  /\ FcmOnly
  /\ count > 0 /\ current >= count
  /\ inMission' = TRUE
  /\ target' = NoTarget
  /\ wpSeq' = EntryWp
  /\ UNCHANGED current

(* The item asked for is out of range: go on to the next one. *)
SkipMissing ==
  /\ FcmOnly
  /\ current < count /\ EntryWp >= count
  /\ inMission' = TRUE
  /\ target' = NoTarget
  /\ NextWaypoint

Navigate ==
  /\ FcmOnly
  /\ current < count /\ EntryWp < count
  /\ inMission' = TRUE
  /\ target' = items[EntryWp]
  /\ \/ wpSeq' = EntryWp /\ UNCHANGED current
     \/ items[EntryWp].auto /\ NextWaypoint

MissionController == OtherMode \/ Hold \/ Complete \/ SkipMissing \/ Navigate

MissionNext == Core1 \/ MissionMonitor \/ MissionController

MissionSpec == MissionInit /\ [][MissionNext]_missionVars

-----------------------------------------------------------------------------
(* The shape of the state; an upload goes on only while items are missing, *)
(* and the monitor writes only inside the table.                           *)
MissionTypeOK ==
  /\ up \in [state : {"idle", "uploading", "downloading"}, expected : 0 .. MaxItems,
             received : 0 .. MaxItems, count : 0 .. MaxItems]
  /\ up.state = "uploading" => up.received < up.expected
  /\ outbox \in Seq(Commands) /\ Len(outbox) <= 2
  /\ cmdQ \in Seq(Commands) /\ Len(cmdQ) <= CmdDepth
  /\ ackQ \in BOOLEAN
  /\ items \in [Index -> Items]
  /\ count \in 0 .. MaxItems /\ current \in 0 .. MaxItems
  /\ doing \in [at : {"idle", "wipe", "resize", "rewind", "copy"}, n : 0 .. MaxItems,
                item : Items]
  /\ doing.at = "copy" => doing.n < count
  /\ inMission \in BOOLEAN /\ wpSeq \in 0 .. MaxItems
  /\ target \in Items \cup {NoTarget}
  /\ dropped \in BOOLEAN /\ uploads \in 0 .. MaxUploads

(* Whatever the controller advances while the monitor is in the middle of  *)
(* resizing the mission, s_current is in the mission or just past its end  *)
(* when the call is over.                                                  *)
CurrentInRange == doing = Idle => current <= count

(* When the monitor has nothing left to do, an item of the table beyond    *)
(* the mission is cleared memory: a longer mission never revives items of  *)
(* an earlier one.                                                         *)
NoStaleItems == doing = Idle => \A i \in Index : items[i] # Blank => i < count

(* A mission core 1 reports to the ground station has the length of the    *)
(* one core 0 flies, once every command has been obeyed and unless the     *)
(* queue overflowed.                                                       *)
CountsAgree ==
  (up.count > 0 /\ outbox = <<>> /\ cmdQ = <<>> /\ doing = Idle /\ ~dropped)
    => count = up.count

(* mission_mgr_get_item returns NULL if there is no item stored at that    *)
(* index: the controller never flies to memory nobody has stored an item   *)
(* in.                                                                     *)
NoBlankWaypoint == target.src # "blank"
=============================================================================
