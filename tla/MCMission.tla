----------------------------- MODULE MCMission -----------------------------
(***************************************************************************)
(* Missions of up to two items and up to two uploads, with a command queue *)
(* that an upload and one more command fill.                               *)
(***************************************************************************)
EXTENDS Mission
=============================================================================
