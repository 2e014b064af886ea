------------------------------ MODULE MCSysmon ------------------------------
(***************************************************************************)
(* The monitor alone with every health pattern, battery state and          *)
(* touchdown report, four RC frames and two ground station modes.          *)
(***************************************************************************)
EXTENDS Sysmon

MCFrames ==
  [arm : BOOLEAN, mode : {"ALT_HOLD"}, collLow : {TRUE}]
    \cup {[arm |-> TRUE, mode |-> "LOITER", collLow |-> TRUE],
          [arm |-> TRUE, mode |-> "STABILIZE", collLow |-> FALSE]}
MCModeCommands == {"RTH", "LAND"}
=============================================================================
