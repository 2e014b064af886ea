------------------------------- MODULE MCBoot -------------------------------
(***************************************************************************)
(* The start-up scripts with peripherals that may take up to 1.2 s, longer *)
(* than every delay of the scripts, or fail.                               *)
(***************************************************************************)
EXTENDS Boot
=============================================================================
