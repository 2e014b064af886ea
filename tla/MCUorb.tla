------------------------------- MODULE MCUorb -------------------------------
(***************************************************************************)
(* The broker with the topics two tasks compete for: RC_CHANNELS, written  *)
(* by the sensor agent and, for the ground station's override, by the      *)
(* monitor, and VEHICLE_STATUS, written by the monitor alone.  The table   *)
(* is cut to two slots so that the third subscriber of RC_CHANNELS is      *)
(* refused.                                                                *)
(***************************************************************************)
EXTENDS Uorb

MCTopic == {"RC_CHANNELS", "VEHICLE_STATUS"}
MCPub == {"sensor", "sysmon"}
MCSub == {"sysmon.rc", "flight_ctrl.rc", "third.rc", "actuator.status"}
MCTopicOf == [s \in MCSub |->
  IF s = "actuator.status" THEN "VEHICLE_STATUS" ELSE "RC_CHANNELS"]
MCPubTopics == [p \in MCPub |->
  IF p = "sensor" THEN {"RC_CHANNELS"} ELSE MCTopic]
=============================================================================
