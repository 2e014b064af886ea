--------------------------- MODULE MissionProofs ---------------------------
(***************************************************************************)
(* For any size of the table and of the command queue: the mission manager *)
(* needs no lock for its index to stay in range and its table to hold no   *)
(* items of an earlier mission, although two tasks write to it.            *)
(*                                                                         *)
(* Core 0 also flies a mission of the length core 1 reports, as long as    *)
(* the command queue has had room.                                         *)
(*                                                                         *)
(* The inductive invariant says what holds in the middle of the monitor's  *)
(* calls.  From mission_mgr_set_count's assignment of s_count to that of   *)
(* s_current the index may be out of range, and the controller may advance *)
(* it there; only then, and in that window the table is blank.  CountInv   *)
(* follows a length through core 1's outbox and the queue to the monitor.  *)
(***************************************************************************)
EXTENDS Mission, SequenceTheorems, TLAPS

ManagerTypeOK ==
  /\ items \in [Index -> Items]
  /\ count \in 0 .. MaxItems
  /\ current \in 0 .. MaxItems
  /\ doing \in [at : {"idle", "wipe", "resize", "rewind", "copy"}, n : 0 .. MaxItems,
                item : Items]

ManagerInv ==
  /\ ManagerTypeOK
  /\ doing.at # "rewind" => current <= count
  /\ doing.at \in {"idle", "wipe", "copy"} => \A i \in Index : items[i] # Blank => i < count
  /\ doing.at \in {"resize", "rewind"} => \A i \in Index : items[i] = Blank
  /\ doing.at = "copy" => doing.n < count

(* mission_mgr_init leaves an empty table. *)
LEMMA ManagerInitInv == MissionInit => ManagerInv
  BY MissionAssumption DEF MissionInit, ManagerInv, ManagerTypeOK, Idle, Blank, Items

(* Every item written is of the table's type. *)
LEMMA ItemTypes == Blank \in Items /\ \A b \in BOOLEAN : Torn(b) \in Items /\ Torn(b) # Blank
  BY DEF Items, Blank, Torn

(* What core 1 and the queues do leaves the manager alone. *)
LEMMA Core1Step == ASSUME Core1 PROVE UNCHANGED <<managerVars, doing>>
  BY DEF Core1, Core1Ready, MissionCount, MissionItem, MissionClear,
         MissionSetCurrent, MissionRequestList, MissionAck, DrainAck,
         SendCommand, LoseAck

(* The controller moves the index, within the mission or not at all. *)
LEMMA ControllerStep ==
  ASSUME MissionController
  PROVE  /\ UNCHANGED <<items, count, doing>>
         /\ current' = current \/ (current < count /\ current' = current + 1)
  BY DEF MissionController, OtherMode, Hold, Complete, SkipMissing, Navigate,
         NextWaypoint, FcmOnly

(* Each step of the monitor's calls keeps what the next one relies on.     *)
LEMMA ManagerInvStep == ManagerInv /\ [MissionNext]_missionVars => ManagerInv'
<1> SUFFICES ASSUME ManagerInv, [MissionNext]_missionVars PROVE ManagerInv'
  OBVIOUS
<1> USE MissionAssumption DEF ManagerInv, ManagerTypeOK
<1>1. CASE Core1 \/ UNCHANGED missionVars
  <2>1. UNCHANGED <<items, count, current, doing>>
    BY <1>1, Core1Step DEF missionVars, managerVars
  <2>2. QED
    BY <2>1
<1>2. CASE MissionController
  <2>1. current' \in 0 .. MaxItems /\ (doing'.at # "rewind" => current' <= count')
    BY <1>2, ControllerStep
  <2>2. QED
    BY <1>2, <2>1, ControllerStep
<1>3. ASSUME NEW c \in Commands, NextCommand(c), BeginResize(c), UNCHANGED count
      PROVE  ManagerInv'
  <2>1. doing.at = "idle" /\ doing' = [at |-> "wipe", n |-> c.n, item |-> Blank]
    BY <1>3 DEF NextCommand, BeginResize, Idle
  <2>2. items' \in [Index -> Items]
    BY <1>3, ItemTypes DEF BeginResize, Items
  <2>3. \A i \in Index : items'[i] # Blank => items[i] # Blank
    BY <1>3 DEF BeginResize
  <2>4. doing' \in [at : {"idle", "wipe", "resize", "rewind", "copy"},
                    n : 0 .. MaxItems, item : Items]
    BY <2>1, ItemTypes DEF Commands
  <2>5. QED
    BY <1>3, <2>1, <2>2, <2>3, <2>4 DEF BeginResize
<1>4. ASSUME NEW c \in Commands, NextCommand(c), BeginStore(c), UNCHANGED count
      PROVE  ManagerInv'
  <2>1. CASE c.n >= count
    BY <1>4, <2>1 DEF BeginStore, Commands
  <2>2. CASE c.n < count
    <3>1. doing.at = "idle" /\ doing' = [at |-> "copy", n |-> c.n, item |-> c.item]
      BY <1>4, <2>2 DEF NextCommand, BeginStore, Idle
    <3>2. c.n \in Index
      BY <2>2 DEF Commands, Index
    <3>3. PICK b \in BOOLEAN : items' = [items EXCEPT ![c.n] = Torn(b)]
      BY <1>4, <2>2, <3>2 DEF BeginStore, Commands, Items
    <3>4. items' \in [Index -> Items]
      BY <3>2, <3>3, ItemTypes
    <3>5. \A i \in Index : items'[i] # Blank => i < count
      BY <2>2, <3>1, <3>2, <3>3
    <3>6. QED
      BY <1>4, <2>2, <3>1, <3>4, <3>5 DEF BeginStore, Commands
  <2>3. QED
    BY <2>1, <2>2 DEF Commands
<1>5. ASSUME NEW c \in Commands, NextCommand(c), SetCurrent(c), UNCHANGED count
      PROVE  ManagerInv'
  BY <1>5 DEF SetCurrent, Commands
<1>6. CASE Obey
  BY <1>3, <1>4, <1>5, <1>6 DEF Obey
<1>7. CASE Wipe
  BY <1>7, ItemTypes DEF Wipe, At
<1>8. CASE Resize
  BY <1>8 DEF Resize, At
<1>9. CASE Rewind
  BY <1>9, ItemTypes DEF Rewind, At, Idle
<1>10. CASE Copy
  <2>1. doing.n < count /\ doing.n \in Index
    BY <1>10 DEF Copy, At, Index
  <2>2. items' \in [Index -> Items] /\ \A i \in Index : items'[i] # Blank => i < count
    BY <1>10, <2>1 DEF Copy, At
  <2>3. QED
    BY <1>10, <2>2, ItemTypes DEF Copy, At, Idle
<1>11. QED
  BY <1>1, <1>2, <1>6, <1>7, <1>8, <1>9, <1>10 DEF MissionNext, MissionMonitor

-----------------------------------------------------------------------------
(* The invariant of the mission manager's variables. *)
LEMMA ManagerInvariant == MissionSpec => []ManagerInv
<1>1. QED
  BY ManagerInitInv, ManagerInvStep, PTL DEF MissionSpec

(* At the end of every call of the monitor s_current is in the mission or  *)
(* just past its end, even if the controller advanced it during the call.  *)
THEOREM IndexInRange == MissionSpec => []CurrentInRange
<1>1. ManagerInv => CurrentInRange
  BY DEF ManagerInv, CurrentInRange, Idle
<1>2. QED
  BY <1>1, ManagerInvariant, PTL

(* mission_mgr_set_count and mission_mgr_clear leave nothing of an earlier *)
(* mission behind.                                                         *)
THEOREM NothingStale == MissionSpec => []NoStaleItems
<1>1. ManagerInv => NoStaleItems
  BY DEF ManagerInv, NoStaleItems, Idle
<1>2. QED
  BY <1>1, ManagerInvariant, PTL

-----------------------------------------------------------------------------
(* The rest of the state has its type: an upload ends with the last item   *)
(* it counts, and the controller asks for items of the table only.         *)
UpTypes == [state : {"idle", "uploading", "downloading"}, expected : 0 .. MaxItems,
            received : 0 .. MaxItems, count : 0 .. MaxItems]

LinkTypeOK ==
  /\ up \in UpTypes
  /\ up.state = "uploading" => up.received < up.expected
  /\ outbox \in Seq(Commands) /\ Len(outbox) <= 2
  /\ cmdQ \in Seq(Commands) /\ Len(cmdQ) <= CmdDepth
  /\ ackQ \in BOOLEAN

FlownTypeOK ==
  /\ inMission \in BOOLEAN /\ wpSeq \in 0 .. MaxItems
  /\ target \in Items \cup {NoTarget}

LEMMA CommandTypes ==
  /\ \A n \in 0 .. MaxItems, k \in {"count", "clear", "current"} : Cmd(k, n) \in Commands
  /\ \A n \in 0 .. MaxItems, b \in BOOLEAN : ItemCmd(n, b) \in Commands
  BY ItemTypes DEF Cmd, ItemCmd, Commands, Items

(* Two commands, one after the other. *)
LEMMA PairIsConcat ==
  ASSUME NEW S, NEW a \in S, NEW b \in S
  PROVE  <<a>> \o <<b>> = <<a, b>>
<1> DEFINE s == <<a>> \o <<b>>
           t == <<a, b>>
<1>1. s \in Seq(S) /\ t \in Seq(S)
  OBVIOUS
<1>2. Len(s) = 2 /\ Len(t) = 2
  OBVIOUS
<1>3. s[1] = a /\ s[2] = b /\ t[1] = a /\ t[2] = b
  OBVIOUS
<1>4. \A i \in 1 .. Len(s) : s[i] = t[i]
  <2>1. \A i \in 1 .. Len(s) : i = 1 \/ i = 2
    BY <1>2
  <2>2. QED
    BY <1>3, <2>1
<1> HIDE DEF s, t
<1>5. s = t
  BY <1>1, <1>2, <1>4, SeqEqual
<1>6. QED
  BY <1>5 DEF s, t

(* Core 1 writes its counters, and they stay what they are. *)
LEMMA LastOne ==
  ASSUME up \in UpTypes, up.received + 1 \in 0 .. MaxItems,
         up' = [up EXCEPT !.received = up.received + 1, !.state = "idle",
                          !.count = up.expected]
  PROVE  up' \in UpTypes /\ up'.state = "idle" /\ up'.count = up.expected
  BY DEF UpTypes

LEMMA OneMore ==
  ASSUME up \in UpTypes, up.received + 1 \in 0 .. MaxItems,
         up' = [up EXCEPT !.received = up.received + 1, !.state = up.state,
                          !.count = up.count]
  PROVE  /\ up' \in UpTypes /\ up'.received = up.received + 1
         /\ up'.expected = up.expected /\ up'.count = up.count
  BY DEF UpTypes

LEMMA Emptied ==
  ASSUME up \in UpTypes, 0 \in 0 .. MaxItems, up' = [up EXCEPT !.state = "idle", !.count = 0]
  PROVE  up' \in UpTypes /\ up'.state = "idle" /\ up'.count = 0
  BY DEF UpTypes

LEMMA Moved ==
  ASSUME NEW u \in UpTypes, NEW s \in {"idle", "downloading"},
         NEW v, v = [u EXCEPT !.state = s]
  PROVE  v \in UpTypes /\ v.state = s /\ v.count = u.count
  BY DEF UpTypes

(* A transfer that is not an upload has counted what it likes. *)
LEMMA NoUpload ==
  ASSUME LinkTypeOK, UNCHANGED <<outbox, cmdQ>>, ackQ' \in BOOLEAN,
         NEW to \in {"idle", "downloading"}, up' = [up EXCEPT !.state = to]
  PROVE  LinkTypeOK' /\ UNCHANGED up.count
<1>1. up' \in UpTypes /\ up'.state # "uploading" /\ up'.count = up.count
  BY Moved DEF LinkTypeOK
<1>2. QED
  BY <1>1 DEF LinkTypeOK

(* What the handler of MISSION_ITEM_INT leaves behind. *)
LEMMA ItemStep ==
  ASSUME LinkTypeOK, NEW seq \in 0 .. up.received, NEW b \in BOOLEAN, MissionItem(seq, b)
  PROVE  /\ up' \in UpTypes
         /\ up'.state = "uploading" => up'.received < up'.expected
         /\ UNCHANGED ackQ
         /\ ItemCmd(seq, b) \in Commands /\ Cmd("count", up.expected) \in Commands
         /\ \/ outbox' = <<ItemCmd(seq, b)>> /\ up'.count = up.count
            \/ /\ outbox' = <<ItemCmd(seq, b), Cmd("count", up.expected)>>
               /\ up'.count = up.expected
<1> USE MissionAssumption
<1>1. /\ up.state = "uploading" /\ seq \in Index /\ UNCHANGED ackQ
      /\ up.expected \in 0 .. MaxItems /\ up.received \in 0 .. MaxItems
      /\ up.received < up.expected
  BY DEF MissionItem, LinkTypeOK, UpTypes
<1>2. seq \in 0 .. MaxItems
  BY <1>1 DEF Index
<1>3. ItemCmd(seq, b) \in Commands /\ Cmd("count", up.expected) \in Commands
  BY <1>1, <1>2, CommandTypes
<1>4. up \in UpTypes
  BY DEF LinkTypeOK
<1>5. CASE up.received + 1 >= up.expected
  <2>1. /\ up' = [up EXCEPT !.received = up.received + 1, !.state = "idle",
                            !.count = up.expected]
        /\ outbox' = <<ItemCmd(seq, b)>> \o <<Cmd("count", up.expected)>>
    BY <1>5 DEF MissionItem
  <2>2. outbox' = <<ItemCmd(seq, b), Cmd("count", up.expected)>>
    BY <1>3, <2>1, PairIsConcat
  <2>3. up.received + 1 \in 0 .. MaxItems
    BY <1>1
  <2>4. up' \in UpTypes /\ up'.state = "idle" /\ up'.count = up.expected
    BY <1>4, <2>1, <2>3, LastOne, Zenon
  <2>5. up'.state # "uploading"
    BY <2>4
  <2>6. \/ outbox' = <<ItemCmd(seq, b)>> /\ up'.count = up.count
        \/ /\ outbox' = <<ItemCmd(seq, b), Cmd("count", up.expected)>>
           /\ up'.count = up.expected
    BY <2>2, <2>4
  <2>7. up'.state = "uploading" => up'.received < up'.expected
    BY <2>5
  <2>8. up' \in UpTypes
    BY <2>4
  <2>9. UNCHANGED ackQ
    BY <1>1
  <2>10. QED
    BY <1>3, <2>6, <2>7, <2>8, <2>9
<1>6. CASE ~(up.received + 1 >= up.expected)
  <2>1. /\ up' = [up EXCEPT !.received = up.received + 1, !.state = up.state,
                            !.count = up.count]
        /\ outbox' = <<ItemCmd(seq, b)>> \o <<>>
    BY <1>6 DEF MissionItem
  <2>2. outbox' = <<ItemCmd(seq, b)>>
    BY <2>1
  <2>3. up.received + 1 \in 0 .. MaxItems /\ up.received + 1 < up.expected
        /\ up.count \in 0 .. MaxItems /\ up.state \in {"idle", "uploading", "downloading"}
    BY <1>1, <1>4, <1>6 DEF UpTypes
  <2>4. up' \in UpTypes /\ up'.received = up.received + 1
        /\ up'.expected = up.expected /\ up'.count = up.count
    BY <1>4, <2>1, <2>3, OneMore, Zenon
  <2>5. up'.received < up'.expected
    BY <2>3, <2>4
  <2>6. \/ outbox' = <<ItemCmd(seq, b)>> /\ up'.count = up.count
        \/ /\ outbox' = <<ItemCmd(seq, b), Cmd("count", up.expected)>>
           /\ up'.count = up.expected
    BY <2>2, <2>4
  <2>7. up'.state = "uploading" => up'.received < up'.expected
    BY <2>5
  <2>8. up' \in UpTypes
    BY <2>4
  <2>9. UNCHANGED ackQ
    BY <1>1
  <2>10. QED
    BY <1>3, <2>6, <2>7, <2>8, <2>9
<1>7. QED
  BY <1>5, <1>6

(* rpc_send_command takes the first command of the outbox, and puts it     *)
(* into the queue or nowhere.                                              *)
LEMMA SendTypes ==
  ASSUME LinkTypeOK, SendCommand
  PROVE  /\ outbox' \in Seq(Commands) /\ Len(outbox') <= 2
         /\ cmdQ' \in Seq(Commands) /\ Len(cmdQ') <= CmdDepth
<1> USE MissionAssumption
<1>1. outbox # <<>> /\ outbox \in Seq(Commands) /\ cmdQ \in Seq(Commands)
      /\ Len(outbox) <= 2 /\ Len(cmdQ) <= CmdDepth
  BY DEF SendCommand, LinkTypeOK
<1>2. outbox' = Tail(outbox)
  BY DEF SendCommand
<1>3. Head(outbox) \in Commands /\ Tail(outbox) \in Seq(Commands)
      /\ Len(Tail(outbox)) = Len(outbox) - 1
  BY <1>1
<1>4. CASE Len(cmdQ) < CmdDepth /\ cmdQ' = Append(cmdQ, Head(outbox))
  BY <1>1, <1>2, <1>3, <1>4
<1>5. CASE UNCHANGED cmdQ
  BY <1>1, <1>2, <1>3, <1>5
<1>6. QED
  BY <1>4, <1>5 DEF SendCommand

(* The handlers leave at most two commands to be sent, and these are sent  *)
(* one by one; the monitor takes them off the queue one by one.            *)
LEMMA LinkStep == ManagerTypeOK /\ LinkTypeOK /\ [MissionNext]_missionVars => LinkTypeOK'
<1> SUFFICES ASSUME ManagerTypeOK, LinkTypeOK, [MissionNext]_missionVars PROVE LinkTypeOK'
  OBVIOUS
<1> USE MissionAssumption
<1>1. ASSUME NEW n \in 0 .. MaxItems, MissionCount(n) PROVE LinkTypeOK'
  BY <1>1 DEF MissionCount, Core1Ready, LinkTypeOK, UpTypes
<1>2. ASSUME NEW seq \in 0 .. up.received, NEW b \in BOOLEAN, MissionItem(seq, b)
      PROVE  LinkTypeOK'
  <2>1. ItemCmd(seq, b) \in Commands /\ Cmd("count", up.expected) \in Commands
        /\ \/ outbox' = <<ItemCmd(seq, b)>>
           \/ outbox' = <<ItemCmd(seq, b), Cmd("count", up.expected)>>
    BY <1>2, ItemStep
  <2>2. outbox' \in Seq(Commands) /\ Len(outbox') <= 2
    <3>1. CASE outbox' = <<ItemCmd(seq, b)>>
      BY <2>1, <3>1
    <3>2. CASE outbox' = <<ItemCmd(seq, b), Cmd("count", up.expected)>>
      BY <2>1, <3>2
    <3>3. QED
      BY <2>1, <3>1, <3>2
  <2>3. UNCHANGED cmdQ
    BY <1>2 DEF MissionItem, Core1Ready
  <2>4. UNCHANGED ackQ
    BY <1>2 DEF MissionItem
  <2>5. /\ up' \in UpTypes
        /\ up'.state = "uploading" => up'.received < up'.expected
    BY <1>2, ItemStep
  <2>6. QED
    BY <2>2, <2>3, <2>4, <2>5 DEF LinkTypeOK
<1>3. ASSUME NEW seq \in Index, MissionSetCurrent(seq) PROVE LinkTypeOK'
  <2>1. Cmd("current", seq) \in Commands
    BY <1>3, CommandTypes DEF Index
  <2>2. outbox' \in Seq(Commands) /\ Len(outbox') <= 2
    BY <1>3, <2>1 DEF MissionSetCurrent
  <2>3. QED
    BY <1>3, <2>2 DEF MissionSetCurrent, Core1Ready, LinkTypeOK
<1>4. CASE MissionClear
  <2>1. Cmd("clear", 0) \in Commands
    BY CommandTypes
  <2>2. outbox' \in Seq(Commands) /\ Len(outbox') <= 2
    BY <1>4, <2>1 DEF MissionClear
  <2>3. up' \in UpTypes
        /\ up'.state = "idle"
    <3>1. up \in UpTypes
      BY DEF LinkTypeOK
    <3>2. up' = [up EXCEPT !.state = "idle", !.count = 0]
      BY <1>4 DEF MissionClear
    <3>3. 0 \in 0 .. MaxItems
      OBVIOUS
    <3>4. QED
      BY <3>1, <3>2, <3>3, Emptied, Zenon
  <2>4. QED
    BY <1>4, <2>2, <2>3 DEF MissionClear, Core1Ready, LinkTypeOK
<1>5. CASE MissionRequestList \/ MissionAck \/ DrainAck
  <2>1. PICK to \in {"idle", "downloading"} : up' = [up EXCEPT !.state = to]
    BY <1>5 DEF MissionRequestList, MissionAck, DrainAck
  <2>2. UNCHANGED <<outbox, cmdQ>> /\ ackQ' \in BOOLEAN
    BY <1>5 DEF MissionRequestList, MissionAck, DrainAck, Core1Ready, LinkTypeOK
  <2>3. QED
    BY <2>1, <2>2, NoUpload
<1>6. CASE SendCommand
  BY <1>6, SendTypes DEF SendCommand, LinkTypeOK
<1>7. CASE LoseAck
  BY <1>7 DEF LoseAck, core1Vars, LinkTypeOK
<1>8. ASSUME NEW c \in Commands, NextCommand(c), BeginResize(c) \/ BeginStore(c) \/ SetCurrent(c),
             UNCHANGED core1Vars
      PROVE  LinkTypeOK'
  <2>1. cmdQ' \in Seq(Commands) /\ Len(cmdQ') <= CmdDepth
    BY <1>8 DEF NextCommand, LinkTypeOK
  <2>2. ackQ' \in BOOLEAN
    BY <1>8 DEF BeginResize, BeginStore, SetCurrent, LinkTypeOK
  <2>3. QED
    BY <1>8, <2>1, <2>2 DEF core1Vars, LinkTypeOK
<1>9. CASE Obey
  BY <1>8, <1>9 DEF Obey
<1>10. CASE Wipe \/ Resize \/ Rewind \/ Copy
  <2>1. UNCHANGED <<up, outbox, cmdQ>>
    BY <1>10 DEF Wipe, Resize, Rewind, Copy, At, core1Vars
  <2>2. ackQ' \in BOOLEAN
    BY <1>10 DEF Wipe, Resize, Rewind, Copy, LinkTypeOK
  <2>3. QED
    BY <2>1, <2>2 DEF LinkTypeOK
<1>11. CASE MissionController \/ UNCHANGED missionVars
  BY <1>11 DEF MissionController, OtherMode, Hold, Complete, SkipMissing, Navigate,
     FcmOnly, missionVars, core1Vars, LinkTypeOK
<1>12. QED
  BY <1>1, <1>2, <1>3, <1>4, <1>5, <1>6, <1>7, <1>9, <1>10, <1>11
     DEF MissionNext, Core1, MissionMonitor

(* The controller's copy of the index, and what it flew to. *)
LEMMA FlownStep == ManagerTypeOK /\ FlownTypeOK /\ [MissionNext]_missionVars => FlownTypeOK'
<1> SUFFICES ASSUME ManagerTypeOK, FlownTypeOK, [MissionNext]_missionVars PROVE FlownTypeOK'
  OBVIOUS
<1> USE MissionAssumption
<1>1. ASSUME UNCHANGED fcmVars PROVE FlownTypeOK'
  BY <1>1 DEF fcmVars, FlownTypeOK
<1>2. CASE Core1
  <2>1. UNCHANGED fcmVars
    BY <1>2 DEF Core1, Core1Ready, MissionCount, MissionItem, MissionClear,
       MissionSetCurrent, MissionRequestList, MissionAck, DrainAck, SendCommand, LoseAck
  <2>2. QED
    BY <1>1, <2>1
<1>3. CASE MissionMonitor
  <2>1. UNCHANGED fcmVars
    BY <1>3 DEF MissionMonitor, Obey, Wipe, Resize, Rewind, Copy, At
  <2>2. QED
    BY <1>1, <2>1
<1>4. CASE MissionController
  <2>1. inMission' \in BOOLEAN
    BY <1>4 DEF MissionController, OtherMode, Hold, Complete, SkipMissing, Navigate
  <2>2. EntryWp \in 0 .. MaxItems /\ (EntryWp < count => items[EntryWp] \in Items)
    BY DEF EntryWp, FlownTypeOK, ManagerTypeOK, Index
  <2>3. wpSeq' \in 0 .. MaxItems
    BY <1>4, <2>2 DEF MissionController, OtherMode, Hold, Complete, SkipMissing, Navigate,
       NextWaypoint, FlownTypeOK, ManagerTypeOK
  <2>4. target' \in Items \cup {NoTarget}
    BY <1>4, <2>2 DEF MissionController, OtherMode, Hold, Complete, SkipMissing, Navigate
  <2>5. QED
    BY <2>1, <2>3, <2>4 DEF FlownTypeOK
<1>5. QED
  BY <1>1, <1>2, <1>3, <1>4 DEF MissionNext, missionVars

(* The bounds of the histories. *)
HistoryTypeOK == dropped \in BOOLEAN /\ uploads \in 0 .. MaxUploads

LEMMA HistoryStep == HistoryTypeOK /\ [MissionNext]_missionVars => HistoryTypeOK'
<1> SUFFICES ASSUME HistoryTypeOK, [MissionNext]_missionVars PROVE HistoryTypeOK'
  OBVIOUS
<1> USE MissionAssumption DEF HistoryTypeOK
<1>1. CASE SendCommand
  BY <1>1 DEF SendCommand
<1>2. ASSUME NEW n \in 0 .. MaxItems, MissionCount(n) PROVE HistoryTypeOK'
  BY <1>2 DEF MissionCount, Core1Ready
<1>3. CASE UNCHANGED <<dropped, uploads>>
  BY <1>3
<1>4. Core1 => (\E n \in 0 .. MaxItems : MissionCount(n)) \/ SendCommand
                 \/ UNCHANGED <<dropped, uploads>>
  BY DEF Core1, Core1Ready, MissionItem, MissionClear, MissionSetCurrent,
     MissionRequestList, MissionAck, DrainAck, LoseAck, core1Vars
<1>5. MissionMonitor => UNCHANGED <<dropped, uploads>>
  BY DEF MissionMonitor, Obey, Wipe, Resize, Rewind, Copy, At, core1Vars
<1>6. MissionController => UNCHANGED <<dropped, uploads>>
  BY DEF MissionController, OtherMode, Hold, Complete, SkipMissing, Navigate, FcmOnly,
     core1Vars
<1>7. QED
  BY <1>1, <1>2, <1>3, <1>4, <1>5, <1>6 DEF MissionNext, missionVars, core1Vars

MissionInv == ManagerInv /\ LinkTypeOK /\ FlownTypeOK /\ HistoryTypeOK

LEMMA MissionInvariant == MissionSpec => []MissionInv
<1>1. MissionInit => LinkTypeOK /\ FlownTypeOK /\ HistoryTypeOK
  <2> SUFFICES ASSUME MissionInit PROVE LinkTypeOK /\ FlownTypeOK /\ HistoryTypeOK
    OBVIOUS
  <2> USE MissionAssumption
  <2>1. up \in UpTypes /\ up.state # "uploading"
    BY DEF MissionInit, UpTypes
  <2>2. outbox = <<>> /\ cmdQ = <<>> /\ ackQ = FALSE /\ inMission = FALSE /\ wpSeq = 0
        /\ target = NoTarget /\ dropped = FALSE /\ uploads = 0
    BY DEF MissionInit
  <2>3. outbox \in Seq(Commands) /\ Len(outbox) <= 2
        /\ cmdQ \in Seq(Commands) /\ Len(cmdQ) <= CmdDepth
    BY <2>2
  <2>4. LinkTypeOK
    BY <2>1, <2>2, <2>3 DEF LinkTypeOK
  <2>5. wpSeq \in 0 .. MaxItems /\ uploads \in 0 .. MaxUploads
    BY <2>2
  <2>6. QED
    BY <2>2, <2>4, <2>5 DEF FlownTypeOK, HistoryTypeOK
<1>2. ManagerInv => ManagerTypeOK
  BY DEF ManagerInv
<1>3. QED
  BY <1>1, <1>2, ManagerInitInv, ManagerInvStep, LinkStep, FlownStep, HistoryStep, PTL
     DEF MissionSpec, MissionInv

(* Whatever order the messages arrive in, an upload goes on only while     *)
(* items are missing and the monitor writes inside the table.              *)
THEOREM MissionTypeCorrect == MissionSpec => []MissionTypeOK
<1>1. MissionInv => MissionTypeOK
  BY DEF MissionInv, ManagerInv, ManagerTypeOK, LinkTypeOK, FlownTypeOK, HistoryTypeOK,
     MissionTypeOK, UpTypes
<1>2. QED
  BY <1>1, MissionInvariant, PTL

-----------------------------------------------------------------------------
(* The length of the mission on its way: as long as nothing is dropped,    *)
(* the last command that resizes the mission carries the length core 1     *)
(* reports, or there is none and core 0 has that length.                   *)
Resizes(c) == c.cmd \in {"count", "clear"}
NoResize(q) == \A i \in 1 .. Len(q) : ~Resizes(q[i])
LastResize(q, n) ==
  \E i \in 1 .. Len(q) :
    Resizes(q[i]) /\ q[i].n = n /\ \A j \in i + 1 .. Len(q) : ~Resizes(q[j])
Arrives(q, n, length) == LastResize(q, n) \/ (NoResize(q) /\ length = n)

Coming == cmdQ \o outbox
Length == IF doing.at \in {"wipe", "resize"} THEN doing.n ELSE count

CountInv == (up.count > 0 /\ ~dropped) => Arrives(Coming, up.count, Length)

(* A command that does not resize changes nothing, *)
LEMMA AddOther ==
  ASSUME NEW q \in Seq(Commands), NEW c \in Commands, ~Resizes(c), NEW n, NEW length,
         Arrives(q, n, length)
  PROVE  Arrives(q \o <<c>>, n, length)
<1> DEFINE r == q \o <<c>>
<1>1. /\ Len(r) = Len(q) + 1 /\ Len(q) \in Nat /\ r[Len(r)] = c
      /\ \A i \in 1 .. Len(q) : r[i] = q[i]
  OBVIOUS
<1> HIDE DEF r
<1>2. CASE LastResize(q, n)
  <2>1. PICK i \in 1 .. Len(q) :
          Resizes(q[i]) /\ q[i].n = n /\ \A j \in i + 1 .. Len(q) : ~Resizes(q[j])
    BY <1>2 DEF LastResize
  <2>2. i \in 1 .. Len(r) /\ Resizes(r[i]) /\ r[i].n = n
    BY <1>1, <2>1
  <2>3. ASSUME NEW j \in i + 1 .. Len(r) PROVE ~Resizes(r[j])
    <3>1. j \in i + 1 .. Len(q) \/ j = Len(r)
      BY <1>1
    <3>2. CASE j \in i + 1 .. Len(q)
      BY <1>1, <2>1, <3>2
    <3>3. CASE j = Len(r)
      BY <1>1, <3>3
    <3>4. QED
      BY <3>1, <3>2, <3>3
  <2>4. QED
    BY <2>2, <2>3 DEF LastResize, Arrives, r
<1>3. CASE NoResize(q) /\ length = n
  <2>1. ASSUME NEW j \in 1 .. Len(r) PROVE ~Resizes(r[j])
    <3>1. j \in 1 .. Len(q) \/ j = Len(r)
      BY <1>1
    <3>2. QED
      BY <1>1, <1>3, <3>1 DEF NoResize
  <2>2. QED
    BY <1>3, <2>1 DEF NoResize, Arrives, r
<1>4. QED
  BY <1>2, <1>3 DEF Arrives

(* one that resizes decides, *)
LEMMA AddResize ==
  ASSUME NEW q \in Seq(Commands), NEW c \in Commands, Resizes(c), NEW length
  PROVE  Arrives(q \o <<c>>, c.n, length)
<1> DEFINE r == q \o <<c>>
<1>1. Len(r) = Len(q) + 1 /\ Len(q) \in Nat /\ r[Len(r)] = c
  OBVIOUS
<1> HIDE DEF r
<1>2. LastResize(r, c.n)
  <2>1. Len(r) \in 1 .. Len(r) /\ Len(r) + 1 .. Len(r) = {}
    BY <1>1
  <2>2. QED
    BY <1>1, <2>1 DEF LastResize
<1>3. QED
  BY <1>2 DEF Arrives, r

(* and the first one is obeyed. *)
LEMMA DropFirst ==
  ASSUME NEW q \in Seq(Commands), q # <<>>, NEW n, NEW length, Arrives(q, n, length)
  PROVE  Arrives(Tail(q), n, IF Resizes(Head(q)) THEN Head(q).n ELSE length)
<1> DEFINE t == Tail(q)
<1>1. /\ Len(t) = Len(q) - 1 /\ Len(q) \in Nat \ {0} /\ Head(q) = q[1]
      /\ \A i \in 1 .. Len(t) : t[i] = q[i + 1]
  BY HeadTailProperties, LenProperties
<1> HIDE DEF t
<1>2. CASE NoResize(q) /\ length = n
  <2>1. ~Resizes(Head(q)) /\ NoResize(t)
    BY <1>1, <1>2 DEF NoResize
  <2>2. QED
    BY <1>2, <2>1 DEF Arrives, t
<1>3. CASE LastResize(q, n)
  <2>1. PICK i \in 1 .. Len(q) :
          Resizes(q[i]) /\ q[i].n = n /\ \A j \in i + 1 .. Len(q) : ~Resizes(q[j])
    BY <1>3 DEF LastResize
  <2>2. \A j \in i .. Len(t) : ~Resizes(t[j])
    BY <1>1, <2>1
  <2>3. CASE i = 1
    <3>1. Resizes(Head(q)) /\ Head(q).n = n /\ NoResize(t)
      BY <1>1, <2>1, <2>2, <2>3 DEF NoResize
    <3>2. QED
      BY <3>1 DEF Arrives, t
  <2>4. CASE i # 1
    <3>1. i - 1 \in 1 .. Len(t) /\ t[i - 1] = q[i] /\ (i - 1) + 1 = i
      BY <1>1, <2>1, <2>4
    <3>2. LastResize(t, n)
      BY <2>1, <2>2, <3>1 DEF LastResize
    <3>3. QED
      BY <3>2 DEF Arrives, t
  <2>5. QED
    BY <2>3, <2>4
<1>4. QED
  BY <1>2, <1>3 DEF Arrives

(* Sending moves a command from the outbox to the end of the queue. *)
LEMMA SentOn ==
  ASSUME NEW S, NEW q \in Seq(S), NEW o \in Seq(S), o # <<>>
  PROVE  Append(q, Head(o)) \o Tail(o) = q \o o
<1>1. Head(o) \in S /\ Tail(o) \in Seq(S) /\ <<Head(o)>> \in Seq(S)
  BY HeadTailProperties
<1>2. Append(q, Head(o)) = q \o <<Head(o)>>
  BY <1>1, AppendIsConcat
<1>3. (q \o <<Head(o)>>) \o Tail(o) = q \o (<<Head(o)>> \o Tail(o))
  BY <1>1, ConcatAssociative
<1>4. <<Head(o)>> \o Tail(o) = o
  BY <1>1, HeadTailProperties, SeqEqual, ConcatProperties
<1>5. QED
  BY <1>2, <1>3, <1>4

LEMMA HeadOfConcat ==
  ASSUME NEW S, NEW q \in Seq(S), NEW o \in Seq(S), q # <<>>
  PROVE  /\ q \o o \in Seq(S) /\ q \o o # <<>>
         /\ Head(q \o o) = Head(q) /\ Tail(q \o o) = Tail(q) \o o
<1>1. Head(q \o o) = Head(q) /\ Tail(q \o o) = Tail(q) \o o
  OBVIOUS
<1>2. q \o o \in Seq(S) /\ q \o o # <<>>
  BY ConcatSimplifications, ConcatProperties
<1>3. QED
  BY <1>1, <1>2

(* Core 1 takes back what it reported, or sends what it reports. *)
LEMMA CountCore1 ==
  ASSUME LinkTypeOK, CountInv, Core1
  PROVE  CountInv'
<1> SUFFICES ASSUME up'.count > 0, ~dropped' PROVE Arrives(Coming, up.count, Length)'
  BY DEF CountInv
<1> USE MissionAssumption
<1>1. UNCHANGED Length
  BY Core1Step DEF Length, managerVars
<1>2. cmdQ \in Seq(Commands) /\ outbox \in Seq(Commands)
  BY DEF LinkTypeOK
<1>3. ~dropped
  BY DEF Core1, Core1Ready, MissionCount, MissionItem, MissionClear, MissionSetCurrent,
     MissionRequestList, MissionAck, DrainAck, SendCommand, LoseAck
<1>4. CASE UNCHANGED <<Coming, up.count>>
  BY <1>1, <1>3, <1>4 DEF CountInv
<1>5. Core1Ready => Coming = cmdQ /\ UNCHANGED cmdQ
  BY <1>2, ConcatEmptySeq DEF Coming, Core1Ready
<1>6. ASSUME NEW n \in 0 .. MaxItems, MissionCount(n) PROVE Arrives(Coming, up.count, Length)'
  BY <1>6 DEF MissionCount
<1>7. CASE MissionClear
  <2>1. up'.count = 0
    BY <1>7, Emptied DEF MissionClear, LinkTypeOK
  <2>2. QED
    BY <2>1
<1>8. ASSUME NEW c \in Commands, ~Resizes(c), Core1Ready, outbox' = <<c>>, UNCHANGED up.count
      PROVE  Arrives(Coming, up.count, Length)'
  <2>1. Coming' = Coming \o <<c>>
    BY <1>5, <1>8 DEF Coming
  <2>2. Coming \in Seq(Commands) /\ Arrives(Coming, up.count, Length)
    BY <1>2, <1>3, <1>5, <1>8 DEF CountInv
  <2>3. Arrives(Coming \o <<c>>, up.count, Length)
    BY <1>8, <2>2, AddOther
  <2>4. QED
    BY <1>1, <1>8, <2>1, <2>3
<1>9. ASSUME NEW seq \in Index, MissionSetCurrent(seq) PROVE Arrives(Coming, up.count, Length)'
  <2>1. seq \in 0 .. MaxItems
    BY <1>9 DEF Index
  <2>2. Cmd("current", seq) \in Commands
    BY <2>1, CommandTypes
  <2>3. ~Resizes(Cmd("current", seq))
    BY DEF Cmd, Resizes
  <2>4. QED
    BY <1>8, <1>9, <2>2, <2>3 DEF MissionSetCurrent
<1>10. ASSUME NEW seq \in 0 .. up.received, NEW b \in BOOLEAN, MissionItem(seq, b)
       PROVE  Arrives(Coming, up.count, Length)'
  <2> DEFINE item == ItemCmd(seq, b)
             last == Cmd("count", up.expected)
  <2>1. Core1Ready /\ item \in Commands /\ last \in Commands
    BY <1>10, ItemStep DEF MissionItem
  <2>2. ~Resizes(item) /\ Resizes(last) /\ last.n = up.expected
    BY DEF ItemCmd, Cmd, Resizes
  <2>3. \/ outbox' = <<item>> /\ up'.count = up.count
        \/ outbox' = <<item, last>> /\ up'.count = up.expected
    BY <1>10, ItemStep
  <2> HIDE DEF item, last
  <2>4. CASE outbox' = <<item>> /\ up'.count = up.count
    BY <1>8, <2>1, <2>2, <2>4
  <2>5. CASE outbox' = <<item, last>> /\ up'.count = up.expected
    <3>1. Coming' = cmdQ \o (<<item>> \o <<last>>)
      BY <1>5, <2>1, <2>5, PairIsConcat DEF Coming
    <3>2. Coming' = (cmdQ \o <<item>>) \o <<last>> /\ cmdQ \o <<item>> \in Seq(Commands)
      BY <1>2, <2>1, <3>1, ConcatAssociative
    <3>3. Arrives((cmdQ \o <<item>>) \o <<last>>, last.n, Length')
      BY <2>1, <2>2, <3>2, AddResize
    <3>4. QED
      BY <2>2, <2>5, <3>2, <3>3
  <2>6. QED
    BY <2>3, <2>4, <2>5
<1>11. CASE MissionRequestList \/ MissionAck \/ DrainAck
  <2>1. PICK to \in {"idle", "downloading"} : up' = [up EXCEPT !.state = to]
    BY <1>11 DEF MissionRequestList, MissionAck, DrainAck
  <2>2. up'.count = up.count
    BY <2>1, Moved DEF LinkTypeOK
  <2>3. UNCHANGED <<outbox, cmdQ>>
    BY <1>11 DEF MissionRequestList, MissionAck, DrainAck, Core1Ready
  <2>4. QED
    BY <1>4, <2>2, <2>3 DEF Coming
<1>12. CASE SendCommand
  <2>1. cmdQ' = Append(cmdQ, Head(outbox)) /\ outbox' = Tail(outbox) /\ outbox # <<>>
        /\ UNCHANGED up
    BY <1>12 DEF SendCommand
  <2>2. Coming' = Append(cmdQ, Head(outbox)) \o Tail(outbox)
    BY <2>1 DEF Coming
  <2>3. Coming' = Coming
    BY <1>2, <2>1, <2>2, SentOn DEF Coming
  <2>4. QED
    BY <1>4, <2>1, <2>3
<1>13. CASE LoseAck
  BY <1>4, <1>13 DEF LoseAck, core1Vars, Coming
<1>14. QED
  BY <1>6, <1>7, <1>9, <1>10, <1>11, <1>12, <1>13 DEF Core1

(* The monitor takes the first command and gives the mission its length. *)
LEMMA CountMonitor ==
  ASSUME ManagerTypeOK, LinkTypeOK, CountInv, MissionMonitor
  PROVE  CountInv'
<1>1. CASE Obey
  <2> SUFFICES ASSUME up'.count > 0, ~dropped' PROVE Arrives(Coming, up.count, Length)'
    BY DEF CountInv
  <2>1. PICK c \in Commands :
          NextCommand(c) /\ (BeginResize(c) \/ BeginStore(c) \/ SetCurrent(c))
    BY <1>1 DEF Obey
  <2>2. UNCHANGED <<up, outbox, count, dropped>>
    BY <1>1 DEF Obey, core1Vars
  <2>3. /\ cmdQ # <<>> /\ Head(cmdQ) = c /\ cmdQ' = Tail(cmdQ) /\ doing = Idle
        /\ cmdQ \in Seq(Commands) /\ outbox \in Seq(Commands)
    BY <2>1 DEF NextCommand, LinkTypeOK
  <2>4. Coming \in Seq(Commands) /\ Coming # <<>> /\ Head(Coming) = c /\ Coming' = Tail(Coming)
    BY <2>2, <2>3, HeadOfConcat DEF Coming
  <2>5. Arrives(Coming, up.count, Length)
    BY <2>2 DEF CountInv
  <2>6. Length = count
    BY <2>3 DEF Length, Idle
  <2>7. Length' = IF Resizes(c) THEN c.n ELSE Length
    <3>1. CASE BeginResize(c)
      BY <3>1 DEF BeginResize, Resizes, Length
    <3>2. CASE BeginStore(c)
      <4>1. ~Resizes(c)
        BY <3>2 DEF BeginStore, Resizes
      <4>2. doing'.at \in {"idle", "copy"}
        BY <2>3, <3>2 DEF BeginStore, Idle
      <4>3. QED
        BY <2>2, <2>6, <4>1, <4>2 DEF Length
    <3>3. CASE SetCurrent(c)
      BY <2>2, <2>3, <2>6, <3>3 DEF SetCurrent, Resizes, Length, Idle
    <3>4. QED
      BY <2>1, <3>1, <3>2, <3>3
  <2>8. Arrives(Tail(Coming), up.count, IF Resizes(c) THEN c.n ELSE Length)
    BY <2>4, <2>5, DropFirst
  <2>9. QED
    BY <2>2, <2>4, <2>7, <2>8
<1>2. CASE Wipe \/ Resize \/ Rewind \/ Copy
  <2>1. UNCHANGED <<up, outbox, cmdQ, dropped>>
    BY <1>2 DEF Wipe, Resize, Rewind, Copy, At, core1Vars
  <2>2. UNCHANGED Length
    <3>1. CASE Wipe
      BY <3>1 DEF Wipe, At, Length, ManagerTypeOK
    <3>2. CASE Resize
      BY <3>2 DEF Resize, At, Length, ManagerTypeOK
    <3>3. CASE Rewind
      BY <3>3 DEF Rewind, At, Length, Idle
    <3>4. CASE Copy
      BY <3>4 DEF Copy, At, Length, Idle
    <3>5. QED
      BY <1>2, <3>1, <3>2, <3>3, <3>4
  <2>3. QED
    BY <2>1, <2>2 DEF CountInv, Coming
<1>3. QED
  BY <1>1, <1>2 DEF MissionMonitor

LEMMA CountInvariant == MissionSpec => []CountInv
<1>1. MissionInit => CountInv
  BY DEF MissionInit, CountInv
<1>2. ManagerTypeOK /\ LinkTypeOK /\ CountInv /\ [MissionNext]_missionVars => CountInv'
  <2> SUFFICES ASSUME ManagerTypeOK, LinkTypeOK, CountInv, [MissionNext]_missionVars
                PROVE  CountInv'
    OBVIOUS
  <2>1. CASE MissionController \/ UNCHANGED missionVars
    <3>1. UNCHANGED <<up, outbox, cmdQ, doing, count, dropped>>
      BY <2>1 DEF MissionController, OtherMode, Hold, Complete, SkipMissing, Navigate,
         FcmOnly, missionVars, core1Vars, managerVars
    <3>2. QED
      BY <3>1 DEF CountInv, Coming, Length
  <2>2. QED
    BY <2>1, CountCore1, CountMonitor DEF MissionNext
<1>3. MissionInv => ManagerTypeOK /\ LinkTypeOK
  BY DEF MissionInv, ManagerInv
<1>4. QED
  BY <1>1, <1>2, <1>3, MissionInvariant, PTL DEF MissionSpec

(* Unless the command queue overflowed, core 0 flies a mission of the      *)
(* length core 1 reports, whichever messages were lost, repeated or mixed  *)
(* with other transfers.                                                   *)
THEOREM LengthsAgree == MissionSpec => []CountsAgree
<1>1. CountInv => CountsAgree
  <2> SUFFICES ASSUME CountInv, up.count > 0, outbox = <<>>, cmdQ = <<>>, doing = Idle, ~dropped
               PROVE  count = up.count
    BY DEF CountsAgree
  <2>1. Coming = <<>> /\ Len(Coming) = 0
    BY DEF Coming
  <2>2. Length = count
    BY DEF Length, Idle
  <2>3. ~LastResize(Coming, up.count)
    BY <2>1 DEF LastResize
  <2>4. QED
    BY <2>2, <2>3 DEF CountInv, Arrives
<1>2. QED
  BY <1>1, CountInvariant, PTL
=============================================================================
