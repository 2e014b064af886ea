----------------------------- MODULE LossyFifo ------------------------------
(***************************************************************************)
(* What the telemetry path between the cores promises its users, without   *)
(* queues, retries or tasks: the messages of one producer arrive in the    *)
(* order in which it sent them, each at most once, and none that nobody    *)
(* sent.  Any of them may be missing, and nothing is said about the order  *)
(* between two producers.                                                  *)
(*                                                                         *)
(* The messages of a producer are named by their place in its sequence.    *)
(***************************************************************************)
EXTENDS Naturals

CONSTANT Producers

VARIABLES
  offered,  (* offered[p]: the last message p has sent                      *)
  got       (* got[p]: the last message of p that was received              *)

vars == <<offered, got>>

Init ==
  /\ offered = [p \in Producers |-> 0]
  /\ got = [p \in Producers |-> 0]

Offer(p) ==
  /\ offered' = [offered EXCEPT ![p] = @ + 1]
  /\ UNCHANGED got

Receive(p) ==
  /\ \E n \in got[p] + 1 .. offered[p] : got' = [got EXCEPT ![p] = n]
  /\ UNCHANGED offered

Next == \E p \in Producers : Offer(p) \/ Receive(p)

Spec == Init /\ [][Next]_vars
=============================================================================
