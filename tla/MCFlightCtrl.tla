---------------------------- MODULE MCFlightCtrl ----------------------------
(***************************************************************************)
(* The flight controller alone, told any status, position and altitude.    *)
(* MANUAL stands for the modes flown by the sticks alone.                  *)
(***************************************************************************)
EXTENDS FlightCtrl

MCPlace == {"origin", "field"}
MCFcModes == {"MANUAL", "LOITER", "RTH", "LAND", "MISSION"}
=============================================================================
