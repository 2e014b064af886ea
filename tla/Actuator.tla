------------------------------ MODULE Actuator ------------------------------
(***************************************************************************)
(* The actuator agent (agents/actuator_agent.c): a 500 Hz loop of the      *)
(* highest priority that reads VEHICLE_STATUS and ACTUATOR_CONTROLS and    *)
(* drives the servos and the rotor's speed controllers.  It gives them     *)
(* safe values when the vehicle is disarmed and when the controls are      *)
(* older than its watchdog allows, and ramps the rotor up after every      *)
(* arming it sees.                                                         *)
(*                                                                         *)
(* Left out: the mixer, and the servo telemetry.  What the loop reads is a *)
(* parameter; stale says that a message was received and is too old.       *)
(*                                                                         *)
(* X_Suffix is operator X with a plausible mistake, for PROJECT.json.      *)
(***************************************************************************)
EXTENDS Naturals

CONSTANT SpoolTime   (* spoolup_time_s in time steps *)

ASSUME ActuatorAssumption == SpoolTime \in Nat \ {0}

VARIABLES
  prevArmed,  (* prev_armed                                                 *)
  spool,      (* time steps since arm_start_us, up to SpoolTime             *)
  pwm,        (* what the outputs get: "safe", "ramp" or "full" power       *)
  tripped     (* history: the watchdog cut in since the last arming         *)

actVars == <<prevArmed, spool, pwm, tripped>>

ActInit ==
  /\ prevArmed = FALSE
  /\ spool = 0
  /\ pwm = "safe"
  /\ tripped = FALSE

ActIteration_NoWatchdog(armedNow, stale) ==
  LET started == IF armedNow /\ ~prevArmed THEN 0 ELSE spool IN
  /\ prevArmed' = armedNow
  /\ spool' = started
  /\ pwm' = IF ~armedNow THEN "safe" ELSE IF started < SpoolTime THEN "ramp" ELSE "full"
  /\ tripped' = (armedNow /\ (stale \/ (prevArmed /\ tripped)))

ActIteration_NoEdge(armedNow, stale) ==
  LET started == spool IN
  /\ prevArmed' = armedNow
  /\ spool' = started
  /\ pwm' = IF ~armedNow \/ stale THEN "safe"
            ELSE IF started < SpoolTime THEN "ramp" ELSE "full"
  /\ tripped' = (armedNow /\ (stale \/ (prevArmed /\ tripped)))

(* One iteration.  The ramp goes on while the watchdog holds the outputs   *)
(* safe, so that power comes back at once when the controls do.            *)
ActIteration(armedNow, stale) ==
  LET started == IF armedNow /\ ~prevArmed THEN 0 ELSE spool IN
  /\ prevArmed' = armedNow
  /\ spool' = started
  /\ pwm' = IF ~armedNow \/ stale THEN "safe"
            ELSE IF started < SpoolTime THEN "ramp" ELSE "full"
  /\ tripped' = (armedNow /\ (stale \/ (prevArmed /\ tripped)))

(* A time step of the ramp. *)
ActClock ==
  /\ spool' = IF spool < SpoolTime THEN spool + 1 ELSE spool
  /\ UNCHANGED <<prevArmed, pwm, tripped>>
=============================================================================
