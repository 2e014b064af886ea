---------------------------- MODULE LatestValue ----------------------------
(***************************************************************************)
(* What the uORB broker promises its clients, without mutexes, queues or   *)
(* tables: every topic is a register that publishers write one after the   *)
(* other, and a reader that finds something finds a value at least as      *)
(* recent as the last publication that had completed, newer than anything  *)
(* it had found before, and never one that nobody wrote.                   *)
(*                                                                         *)
(* The messages of a topic are named by their place in the order in which  *)
(* they were published: 1 is the first, 0 stands for "none yet".           *)
(***************************************************************************)
EXTENDS Naturals

CONSTANTS
  Topic,    (* the topics                                  *)
  Sub,      (* the subscriptions                           *)
  TopicOf   (* the topic each subscription reads           *)

VARIABLES
  written,  (* written[t]: the last publication that has begun     *)
  stable,   (* stable[t]: the last publication that has completed  *)
  seen      (* seen[s]: the last message subscription s returned   *)

vars == <<written, stable, seen>>

Init ==
  /\ written = [t \in Topic |-> 0]
  /\ stable  = [t \in Topic |-> 0]
  /\ seen    = [s \in Sub |-> 0]

BeginWrite(t) ==
  /\ stable[t] = written[t]
  /\ written' = [written EXCEPT ![t] = @ + 1]
  /\ UNCHANGED <<stable, seen>>

EndWrite(t) ==
  /\ stable[t] # written[t]
  /\ stable' = [stable EXCEPT ![t] = written[t]]
  /\ UNCHANGED <<written, seen>>

Read(s) ==
  /\ \E v \in stable[TopicOf[s]] .. written[TopicOf[s]] :
        /\ v > seen[s]
        /\ seen' = [seen EXCEPT ![s] = v]
  /\ UNCHANGED <<written, stable>>

Next ==
  \/ \E t \in Topic : BeginWrite(t) \/ EndWrite(t)
  \/ \E s \in Sub : Read(s)

Spec == Init /\ [][Next]_vars
=============================================================================
