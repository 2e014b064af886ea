--------------------------- MODULE MCFlightSystem ---------------------------
(***************************************************************************)
(* One vehicle without GPS; the pilot has an arm switch and stays in       *)
(* STABILIZE, the ground station can arm, disarm and order a landing.      *)
(***************************************************************************)
EXTENDS FlightSystem

MCFrames == [arm : BOOLEAN, mode : {"STABILIZE"}, collLow : {TRUE}]
MCFresh == {{"imu", "rc", "baro"}, {"rc", "baro"}, {"imu", "baro"}}
MCPlace == {"origin"}
MCFcModes == Modes
MCModeCommands == {"LAND"}
=============================================================================
