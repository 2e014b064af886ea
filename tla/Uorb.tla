-------------------------------- MODULE Uorb --------------------------------
(***************************************************************************)
(* The micro object request broker of the flight controller (uorb/uorb.c). *)
(*                                                                         *)
(* A topic is advertised once, under the global mutex.  A subscription is  *)
(* a queue of depth one in the topic's table of at most MaxSubscribers     *)
(* queues; it is refused when the topic is not advertised yet or the table *)
(* is full, and the caller keeps the NULL handle for good.  Publishing     *)
(* takes the topic's mutex, stores the message and then overwrites the     *)
(* subscriber queues one by one, so that a reader of higher priority can   *)
(* run between two of them.  Copying never blocks, takes the message out   *)
(* of the queue, and leaves the caller's buffer alone when there is none.  *)
(*                                                                         *)
(* Messages are named by the order in which they are stored in a topic:    *)
(* latest[t] = 2 is the second publication.  0 is "no message".            *)
(*                                                                         *)
(* An operator whose name has an underscore and a suffix, as               *)
(* PublishStore_NoMutex for PublishStore, is that operator with a          *)
(* plausible mistake; nothing uses it but the table of mutants in          *)
(* PROJECT.json.                                                           *)
(***************************************************************************)
EXTENDS Naturals

CONSTANTS
  Topic,           (* the topics                                            *)
  Sub,             (* the orb_subscribe call sites                          *)
  Pub,             (* the tasks that advertise and publish                  *)
  TopicOf,         (* TopicOf[s]: the topic call site s subscribes to       *)
  PubTopics,       (* PubTopics[p]: the topics task p advertises and writes *)
  MaxSubscribers,  (* ORB_MAX_SUBSCRIBERS                                   *)
  MaxMsgs          (* bound: publications per topic                         *)

NoOne == "no one"      (* the holder of the free global mutex         *)
NoTopic == "no topic"  (* what a task that is not publishing works on *)

ASSUME UorbAssumption ==
  /\ TopicOf \in [Sub -> Topic]
  /\ PubTopics \in [Pub -> SUBSET Topic]
  /\ MaxSubscribers \in Nat \ {0}
  /\ MaxMsgs \in Nat
  /\ NoOne \notin Sub
  /\ NoTopic \notin Topic

VARIABLES
  advertised,  (* the set of topics whose "advertised" flag is set         *)
  globalMutex, (* the subscriber holding s_global_mutex, or NoOne          *)
  publishing,  (* publishing[p]: the topic whose meta->mutex p holds       *)
  msg,         (* msg[p]: the data p publishes                             *)
  index,       (* index[p]: the next slot the loop of p overwrites         *)
  latest,      (* latest[t]: the message in meta->latest_data              *)
  count,       (* count[t]: meta->subscriber_count                         *)
  slot,        (* slot[s]: 1 + index of s in meta->subscriber_queues, or 0 *)
  sub,         (* sub[s]: how far the orb_subscribe call of s has come     *)
  queue,       (* queue[s]: the content of its depth-1 queue               *)
  got,         (* got[s]: the last message orb_copy returned to s          *)
  since        (* since[s]: history, latest[t] when s was registered       *)

pubVars == <<publishing, msg, index>>
orbVars == <<advertised, globalMutex, pubVars, latest, count, slot, sub,
             queue, got, since>>

Init ==
  /\ advertised = {}
  /\ globalMutex = NoOne
  /\ publishing = [p \in Pub |-> NoTopic]
  /\ msg = [p \in Pub |-> 0]
  /\ index = [p \in Pub |-> 1]
  /\ latest = [t \in Topic |-> 0]
  /\ count = [t \in Topic |-> 0]
  /\ slot = [s \in Sub |-> 0]
  /\ sub = [s \in Sub |-> "unsubscribed"]
  /\ queue = [s \in Sub |-> 0]
  /\ got = [s \in Sub |-> 0]
  /\ since = [s \in Sub |-> 0]

-----------------------------------------------------------------------------
(* Somebody holds the mutex of topic t. *)
Busy(t) == \E p \in Pub : publishing[p] = t

(* orb_advertise: the whole body runs under the global mutex, and nobody   *)
(* looks at the entry before the flag is set.                              *)
Advertise(p, t) ==
  /\ t \in PubTopics[p] \ advertised
  /\ globalMutex = NoOne
  /\ advertised' = advertised \cup {t}
  /\ UNCHANGED <<globalMutex, pubVars, latest, count, slot, sub, queue, got,
                 since>>

(* orb_subscribe, the refusals: not advertised, or no slot left. *)
SubscribeRefused(s) ==
  /\ sub[s] = "unsubscribed"
  /\ globalMutex = NoOne
  /\ TopicOf[s] \notin advertised \/ count[TopicOf[s]] >= MaxSubscribers
  /\ sub' = [sub EXCEPT ![s] = "null"]
  /\ UNCHANGED <<advertised, globalMutex, pubVars, latest, count, slot, queue,
                 got, since>>

SubscribeBegin_NoLimit(s) ==
  /\ sub[s] = "unsubscribed"
  /\ globalMutex = NoOne
  /\ TopicOf[s] \in advertised
  /\ globalMutex' = s
  /\ sub' = [sub EXCEPT ![s] = "registering"]
  /\ UNCHANGED <<advertised, pubVars, latest, count, slot, queue, got, since>>

(* orb_subscribe: checks passed, the handle and the queue allocated; the   *)
(* caller keeps the global mutex and waits for the topic's.                *)
SubscribeBegin(s) ==
  /\ sub[s] = "unsubscribed"
  /\ globalMutex = NoOne
  /\ TopicOf[s] \in advertised
  /\ count[TopicOf[s]] < MaxSubscribers
  /\ globalMutex' = s
  /\ sub' = [sub EXCEPT ![s] = "registering"]
  /\ UNCHANGED <<advertised, pubVars, latest, count, slot, queue, got, since>>

(* orb_subscribe: under the topic's mutex the queue enters the table. *)
SubscribeRegister(s) ==
  LET t == TopicOf[s] IN
  /\ sub[s] = "registering"
  /\ ~Busy(t)
  /\ count' = [count EXCEPT ![t] = @ + 1]
  /\ slot' = [slot EXCEPT ![s] = count[t] + 1]
  /\ sub' = [sub EXCEPT ![s] = "valid"]
  /\ since' = [since EXCEPT ![s] = latest[t]]
  /\ globalMutex' = NoOne
  /\ UNCHANGED <<advertised, pubVars, latest, queue, got>>

PublishStore_NoMutex(p, t) ==
  /\ t \in PubTopics[p] \cap advertised
  /\ publishing[p] = NoTopic
  /\ latest[t] < MaxMsgs
  /\ publishing' = [publishing EXCEPT ![p] = t]
  /\ latest' = [latest EXCEPT ![t] = @ + 1]
  /\ msg' = [msg EXCEPT ![p] = latest[t] + 1]
  /\ index' = [index EXCEPT ![p] = 1]
  /\ UNCHANGED <<advertised, globalMutex, count, slot, sub, queue, got, since>>

(* orb_publish up to the loop: refused unless advertised, then the topic's *)
(* mutex is taken and the message stored.                                  *)
PublishStore(p, t) ==
  /\ t \in PubTopics[p] \cap advertised
  /\ publishing[p] = NoTopic
  /\ ~Busy(t)
  /\ latest[t] < MaxMsgs
  /\ publishing' = [publishing EXCEPT ![p] = t]
  /\ latest' = [latest EXCEPT ![t] = @ + 1]
  /\ msg' = [msg EXCEPT ![p] = latest[t] + 1]
  /\ index' = [index EXCEPT ![p] = 1]
  /\ UNCHANGED <<advertised, globalMutex, count, slot, sub, queue, got, since>>

(* orb_publish: one turn of the loop, xQueueOverwrite on the queue of s. *)
PublishPush(p, s) ==
  /\ publishing[p] = TopicOf[s]
  /\ slot[s] = index[p]
  /\ queue' = [queue EXCEPT ![s] = msg[p]]
  /\ index' = [index EXCEPT ![p] = @ + 1]
  /\ UNCHANGED <<advertised, globalMutex, publishing, msg, latest, count, slot,
                 sub, got, since>>

PublishDone_OneEarly(p, t) ==
  /\ publishing[p] = t
  /\ index[p] >= count[t]
  /\ publishing' = [publishing EXCEPT ![p] = NoTopic]
  /\ msg' = [msg EXCEPT ![p] = 0]
  /\ index' = [index EXCEPT ![p] = 1]
  /\ UNCHANGED <<advertised, globalMutex, latest, count, slot, sub, queue, got,
                 since>>

(* orb_publish: the loop is over, the mutex is given back. *)
PublishDone(p, t) ==
  /\ publishing[p] = t
  /\ index[p] > count[t]
  /\ publishing' = [publishing EXCEPT ![p] = NoTopic]
  /\ msg' = [msg EXCEPT ![p] = 0]
  /\ index' = [index EXCEPT ![p] = 1]
  /\ UNCHANGED <<advertised, globalMutex, latest, count, slot, sub, queue, got,
                 since>>

(* orb_copy that returns 0: the message moves to the caller's buffer. *)
Copy(s) ==
  /\ sub[s] = "valid"
  /\ queue[s] # 0
  /\ got' = [got EXCEPT ![s] = queue[s]]
  /\ queue' = [queue EXCEPT ![s] = 0]
  /\ UNCHANGED <<advertised, globalMutex, pubVars, latest, count, slot, sub,
                 since>>

(* orb_copy that returns -1: a NULL handle or an empty queue. *)
CopyNothing(s) ==
  /\ \/ sub[s] = "null"
     \/ sub[s] = "valid" /\ queue[s] = 0
  /\ UNCHANGED orbVars

-----------------------------------------------------------------------------
Advertising == \E p \in Pub, t \in Topic : Advertise(p, t)

Subscribing ==
  \E s \in Sub : SubscribeRefused(s) \/ SubscribeBegin(s) \/ SubscribeRegister(s)

Publishing ==
  \E p \in Pub :
    \/ \E t \in Topic : PublishStore(p, t) \/ PublishDone(p, t)
    \/ \E s \in Sub : PublishPush(p, s)

Copying == \E s \in Sub : Copy(s) \/ CopyNothing(s)

Next == Advertising \/ Subscribing \/ Publishing \/ Copying

Spec == Init /\ [][Next]_orbVars

(* A publisher holding a topic's mutex inherits the priority of whoever    *)
(* waits for it and finishes its loop; a subscriber's task runs its loop,  *)
(* and so its orb_copy, periodically.                                      *)
Fairness ==
  /\ \A p \in Pub, s \in Sub : WF_orbVars(PublishPush(p, s))
  /\ \A p \in Pub, t \in Topic : WF_orbVars(PublishDone(p, t))
  /\ \A s \in Sub : WF_orbVars(Copy(s))

FairSpec == Spec /\ Fairness

-----------------------------------------------------------------------------
(* The shape of the broker's state. *)
TypeOK ==
  /\ advertised \subseteq Topic
  /\ globalMutex \in Sub \cup {NoOne}
  /\ publishing \in [Pub -> Topic \cup {NoTopic}]
  /\ msg \in [Pub -> Nat]
  /\ index \in [Pub -> Nat \ {0}]
  /\ latest \in [Topic -> Nat]
  /\ count \in [Topic -> 0 .. MaxSubscribers]
  /\ slot \in [Sub -> 0 .. MaxSubscribers]
  /\ sub \in [Sub -> {"unsubscribed", "registering", "valid", "null"}]
  /\ queue \in [Sub -> Nat]
  /\ got \in [Sub -> Nat]
  /\ since \in [Sub -> Nat]

(* While nobody is publishing on its topic, a subscriber has the topic's   *)
(* last message in its queue or has already copied it; with nothing in the *)
(* queue and another message in its buffer there was no publication since  *)
(* it subscribed.  (orb_publish serves the whole table under the mutex     *)
(* that orb_subscribe needs to enter it.)                                  *)
NoLostUpdate ==
  \A s \in Sub :
    LET t == TopicOf[s] IN
    (sub[s] = "valid" /\ ~Busy(t)) =>
      \/ queue[s] = latest[t]
      \/ queue[s] = 0 /\ (got[s] = latest[t] \/ since[s] = latest[t])

(* Two publishers of one topic, as the sensor agent and the monitor are of *)
(* RC_CHANNELS, never make a subscriber go back: what orb_copy returns is  *)
(* newer than anything it returned to that subscriber before.              *)
CopyMovesForward ==
  [][\A s \in Sub : got'[s] # got[s] => got'[s] > got[s]]_orbVars

(* The broker is a register per topic, as LatestValue states it: a message *)
(* counts as published when its publisher releases the topic's mutex.      *)
Register == INSTANCE LatestValue WITH
  written <- latest,
  stable  <- [t \in Topic |-> IF Busy(t) THEN latest[t] - 1 ELSE latest[t]],
  seen    <- got

ImplementsRegister == Register!Spec

(* A message published after a successful subscription reaches that        *)
(* subscriber, itself or a later one in its place (uorb.h: subscribers     *)
(* always see the latest value).                                           *)
EveryMessageArrives ==
  \A s \in Sub, n \in 1 .. MaxMsgs :
    (sub[s] = "valid" /\ since[s] < n /\ latest[TopicOf[s]] = n)
      ~> got[s] >= n
=============================================================================
