----------------------------- MODULE UorbProofs -----------------------------
(***************************************************************************)
(* For any topics, subscribers and publishers, any table size and any      *)
(* number of messages: the broker loses no update, never takes a           *)
(* subscriber back to an older message, and implements the register per    *)
(* topic of module LatestValue.                                            *)
(*                                                                         *)
(* NoLostUpdate only speaks of topics nobody is publishing on.  What makes *)
(* it inductive is what holds in the middle of a publication: the          *)
(* subscribers the loop has passed are up to date, the others are up to    *)
(* date with the message before.                                           *)
(***************************************************************************)
EXTENDS Uorb, TLAPS

(* Subscriber s has received everything up to message n. *)
Served(s, n) ==
  \/ queue[s] = n
  \/ queue[s] = 0 /\ (got[s] = n \/ since[s] = n)

(* The table of a topic holds exactly its valid subscriptions. *)
TableInv ==
  \A s \in Sub :
    /\ sub[s] = "registering" <=> globalMutex = s
    /\ sub[s] = "registering" => count[TopicOf[s]] < MaxSubscribers
    /\ sub[s] = "valid" <=> slot[s] # 0
    /\ slot[s] <= count[TopicOf[s]]
    /\ sub[s] # "valid" => queue[s] = 0 /\ got[s] = 0
    /\ \A r \in Sub :
         (slot[s] # 0 /\ slot[s] = slot[r] /\ TopicOf[s] = TopicOf[r]) => s = r

(* A topic has one publisher at a time, and it publishes what it stored. *)
PublisherInv ==
  \A p \in Pub :
    publishing[p] # NoTopic =>
      /\ latest[publishing[p]] > 0
      /\ msg[p] = latest[publishing[p]]
      /\ \A q \in Pub : publishing[q] = publishing[p] => q = p

(* The last message the loop over the table has delivered to s. *)
Pending(s) == \E p \in Pub : publishing[p] = TopicOf[s] /\ index[p] <= slot[s]

Due(s) ==
  IF Pending(s) THEN latest[TopicOf[s]] - 1 ELSE latest[TopicOf[s]]

DeliveryInv ==
  \A s \in Sub :
    sub[s] = "valid" =>
      /\ Served(s, Due(s))
      /\ got[s] <= Due(s)
      /\ since[s] <= latest[TopicOf[s]]
      /\ Busy(TopicOf[s]) => since[s] < latest[TopicOf[s]]
      /\ queue[s] # 0 => got[s] < queue[s]

IInv == TypeOK /\ TableInv /\ PublisherInv /\ DeliveryInv

-----------------------------------------------------------------------------
(* uorb_init leaves empty tables and queues: the invariant holds. *)
LEMMA InitIInv == Init => IInv
<1> SUFFICES ASSUME Init PROVE IInv
  OBVIOUS
<1>1. TypeOK
  BY UorbAssumption DEF Init, TypeOK
<1>2. TableInv
  BY UorbAssumption DEF Init, TableInv
<1>3. DeliveryInv
  BY UorbAssumption DEF Init, DeliveryInv, Served, Due, Pending, Busy
<1>4. PublisherInv
  BY UorbAssumption DEF Init, PublisherInv
<1>5. QED
  BY <1>1, <1>2, <1>3, <1>4 DEF IInv

(* No operation of the broker leaves the declared shape. *)
LEMMA TypeStep == IInv /\ [Next]_orbVars => TypeOK'
<1> SUFFICES ASSUME IInv, [Next]_orbVars PROVE TypeOK'
  OBVIOUS
<1> USE UorbAssumption DEF IInv, TypeOK, pubVars
<1>1. ASSUME NEW p \in Pub, NEW t \in Topic, Advertise(p, t) PROVE TypeOK'
  BY <1>1 DEF Advertise
<1>2. ASSUME NEW s \in Sub, SubscribeRefused(s) PROVE TypeOK'
  BY <1>2 DEF SubscribeRefused
<1>3. ASSUME NEW s \in Sub, SubscribeBegin(s) PROVE TypeOK'
  BY <1>3 DEF SubscribeBegin
<1>4. ASSUME NEW s \in Sub, SubscribeRegister(s) PROVE TypeOK'
  <2>1. /\ TopicOf[s] \in Topic
        /\ count[TopicOf[s]] + 1 \in 0 .. MaxSubscribers
    BY <1>4 DEF SubscribeRegister, TableInv
  <2>2. QED
    BY <1>4, <2>1 DEF SubscribeRegister
<1>5. ASSUME NEW p \in Pub, NEW t \in Topic, PublishStore(p, t) PROVE TypeOK'
  BY <1>5 DEF PublishStore
<1>6. ASSUME NEW p \in Pub, NEW s \in Sub, PublishPush(p, s) PROVE TypeOK'
  BY <1>6 DEF PublishPush
<1>7. ASSUME NEW p \in Pub, NEW t \in Topic, PublishDone(p, t) PROVE TypeOK'
  BY <1>7 DEF PublishDone
<1>8. ASSUME NEW s \in Sub, Copy(s) PROVE TypeOK'
  BY <1>8 DEF Copy
<1>9. CASE UNCHANGED orbVars
  BY <1>9 DEF orbVars, pubVars
<1>10. QED
  BY <1>1, <1>2, <1>3, <1>4, <1>5, <1>6, <1>7, <1>8, <1>9
     DEF Next, Advertising, Subscribing, Publishing, Copying, CopyNothing

(* orb_subscribe registers a call site once, in a slot of its own. *)
LEMMA TableStep == IInv /\ [Next]_orbVars => TableInv'
<1> SUFFICES ASSUME IInv, [Next]_orbVars PROVE TableInv'
  OBVIOUS
<1> USE UorbAssumption DEF IInv, TypeOK, TableInv, pubVars
<1>1. ASSUME NEW p \in Pub, NEW t \in Topic, Advertise(p, t) PROVE TableInv'
  BY <1>1 DEF Advertise
<1>2. ASSUME NEW s \in Sub, SubscribeRefused(s) PROVE TableInv'
  BY <1>2 DEF SubscribeRefused
<1>3. ASSUME NEW s \in Sub, SubscribeBegin(s) PROVE TableInv'
  BY <1>3 DEF SubscribeBegin
<1>4. ASSUME NEW s \in Sub, SubscribeRegister(s) PROVE TableInv'
  BY <1>4 DEF SubscribeRegister
<1>5. ASSUME NEW p \in Pub, NEW t \in Topic, PublishStore(p, t) PROVE TableInv'
  BY <1>5 DEF PublishStore
<1>6. ASSUME NEW p \in Pub, NEW s \in Sub, PublishPush(p, s) PROVE TableInv'
  BY <1>6 DEF PublishPush
<1>7. ASSUME NEW p \in Pub, NEW t \in Topic, PublishDone(p, t) PROVE TableInv'
  BY <1>7 DEF PublishDone
<1>8. ASSUME NEW s \in Sub, Copy(s) PROVE TableInv'
  BY <1>8 DEF Copy
<1>9. CASE UNCHANGED orbVars
  BY <1>9 DEF orbVars, pubVars
<1>10. QED
  BY <1>1, <1>2, <1>3, <1>4, <1>5, <1>6, <1>7, <1>8, <1>9
     DEF Next, Advertising, Subscribing, Publishing, Copying, CopyNothing

(* The mutex of a topic keeps its publishers apart. *)
LEMMA PublisherStep == IInv /\ [Next]_orbVars => PublisherInv'
<1> SUFFICES ASSUME IInv, [Next]_orbVars PROVE PublisherInv'
  OBVIOUS
<1> USE UorbAssumption DEF IInv, TypeOK, PublisherInv, Busy, pubVars
<1>1. ASSUME NEW p \in Pub, NEW t \in Topic, Advertise(p, t) PROVE PublisherInv'
  BY <1>1 DEF Advertise
<1>2. ASSUME NEW s \in Sub, SubscribeRefused(s) PROVE PublisherInv'
  BY <1>2 DEF SubscribeRefused
<1>3. ASSUME NEW s \in Sub, SubscribeBegin(s) PROVE PublisherInv'
  BY <1>3 DEF SubscribeBegin
<1>4. ASSUME NEW s \in Sub, SubscribeRegister(s) PROVE PublisherInv'
  BY <1>4 DEF SubscribeRegister
<1>5. ASSUME NEW p \in Pub, NEW t \in Topic, PublishStore(p, t) PROVE PublisherInv'
  BY <1>5 DEF PublishStore
<1>6. ASSUME NEW p \in Pub, NEW s \in Sub, PublishPush(p, s) PROVE PublisherInv'
  BY <1>6 DEF PublishPush
<1>7. ASSUME NEW p \in Pub, NEW t \in Topic, PublishDone(p, t) PROVE PublisherInv'
  BY <1>7 DEF PublishDone
<1>8. ASSUME NEW s \in Sub, Copy(s) PROVE PublisherInv'
  BY <1>8 DEF Copy
<1>9. CASE UNCHANGED orbVars
  BY <1>9 DEF orbVars, pubVars
<1>10. QED
  BY <1>1, <1>2, <1>3, <1>4, <1>5, <1>6, <1>7, <1>8, <1>9
     DEF Next, Advertising, Subscribing, Publishing, Copying, CopyNothing

(* orb_publish serves the slots in order, orb_copy only moves forward. *)
LEMMA DeliveryStep == IInv /\ [Next]_orbVars => DeliveryInv'
<1> SUFFICES ASSUME IInv, [Next]_orbVars PROVE DeliveryInv'
  OBVIOUS
<1> USE UorbAssumption DEF IInv, TypeOK, TableInv, PublisherInv, DeliveryInv,
                           Served, Due, Pending, Busy, pubVars
<1>1. ASSUME NEW p \in Pub, NEW t \in Topic, Advertise(p, t) PROVE DeliveryInv'
  BY <1>1 DEF Advertise
<1>2. ASSUME NEW s \in Sub, SubscribeRefused(s) PROVE DeliveryInv'
  BY <1>2 DEF SubscribeRefused
<1>3. ASSUME NEW s \in Sub, SubscribeBegin(s) PROVE DeliveryInv'
  BY <1>3 DEF SubscribeBegin
<1>4. ASSUME NEW s \in Sub, SubscribeRegister(s) PROVE DeliveryInv'
  BY <1>4 DEF SubscribeRegister
<1>5. ASSUME NEW p \in Pub, NEW t \in Topic, PublishStore(p, t) PROVE DeliveryInv'
  BY <1>5 DEF PublishStore
<1>6. ASSUME NEW p \in Pub, NEW s \in Sub, PublishPush(p, s) PROVE DeliveryInv'
  <2> USE <1>6 DEF PublishPush
  <2>1. /\ latest' = latest /\ publishing' = publishing /\ sub' = sub
        /\ slot' = slot /\ got' = got /\ since' = since
        /\ publishing[p] = TopicOf[s] /\ TopicOf[s] \in Topic
        /\ msg[p] = latest[TopicOf[s]] /\ latest[TopicOf[s]] > 0
        /\ slot[s] = index[p] /\ sub[s] = "valid"
        /\ \A q \in Pub : publishing[q] = TopicOf[s] => q = p
    OBVIOUS
  <2>2. Pending(s) /\ ~Pending(s)'
    BY <2>1
  <2>3. ASSUME NEW r \in Sub, r # s, sub[r] = "valid"
        PROVE  Pending(r)' = Pending(r) /\ queue'[r] = queue[r]
    <3>1. queue'[r] = queue[r]
      BY <2>3
    <3>2. CASE TopicOf[r] # TopicOf[s]
      BY <2>1, <2>3, <3>1, <3>2
    <3>3. CASE TopicOf[r] = TopicOf[s]
      <4>1. slot[r] # slot[s] /\ slot[r] \in Nat
        BY <2>1, <2>3, <3>3
      <4>2. index[p] \in Nat /\ index'[p] = index[p] + 1
        OBVIOUS
      <4>3. \A i, j, k \in Nat : k # i /\ j = i + 1 => (i <= k <=> j <= k)
        OBVIOUS
      <4>4. (index[p] <= slot[r]) <=> (index'[p] <= slot[r])
        <5> HIDE <1>6, UorbAssumption
                 DEF IInv, TypeOK, TableInv, PublisherInv, DeliveryInv,
                     PublishPush
        <5>1. QED
          BY <2>1, <4>1, <4>2, <4>3
      <4>5. QED
        BY <2>1, <3>1, <3>3, <4>4
    <3>4. QED
      BY <3>2, <3>3
  <2>4. ASSUME NEW r \in Sub, sub'[r] = "valid"
        PROVE  /\ Served(r, Due(r))'
               /\ got'[r] <= Due(r)'
               /\ since'[r] <= latest'[TopicOf[r]]
               /\ Busy(TopicOf[r])' => since'[r] < latest'[TopicOf[r]]
               /\ queue'[r] # 0 => got'[r] < queue'[r]
    <3>1. CASE r = s
      BY <2>1, <2>2, <2>4, <3>1
    <3>2. CASE r # s
      BY <2>1, <2>3, <2>4, <3>2
    <3>3. QED
      BY <3>1, <3>2
  <2>5. QED
    BY <2>4
<1>7. ASSUME NEW p \in Pub, NEW t \in Topic, PublishDone(p, t) PROVE DeliveryInv'
  BY <1>7 DEF PublishDone
<1>8. ASSUME NEW s \in Sub, Copy(s) PROVE DeliveryInv'
  BY <1>8 DEF Copy
<1>9. CASE UNCHANGED orbVars
  BY <1>9 DEF orbVars, pubVars
<1>10. QED
  BY <1>1, <1>2, <1>3, <1>4, <1>5, <1>6, <1>7, <1>8, <1>9
     DEF Next, Advertising, Subscribing, Publishing, Copying, CopyNothing

-----------------------------------------------------------------------------
(* orb_subscribe, orb_publish and orb_copy keep the tables consistent and  *)
(* every queue within the publication its topic is in.                     *)
THEOREM InductiveInvariant == Spec => []IInv
<1>1. IInv /\ [Next]_orbVars => IInv'
  BY TypeStep, TableStep, PublisherStep, DeliveryStep DEF IInv
<1>2. QED
  BY <1>1, InitIInv, PTL DEF Spec

(* The shape of the broker's state; in particular a topic's table never    *)
(* outgrows ORB_MAX_SUBSCRIBERS.                                           *)
THEOREM TypeCorrect == Spec => []TypeOK
  BY InductiveInvariant, PTL DEF IInv

(* orb_publish and orb_copy, interleaved in any way, never lose the last   *)
(* message of a topic on its way to a subscriber.                          *)
THEOREM NothingLost == Spec => []NoLostUpdate
<1>1. IInv => NoLostUpdate
  BY UorbAssumption
     DEF IInv, DeliveryInv, NoLostUpdate, Served, Due, Pending, Busy
<1>2. QED
  BY <1>1, InductiveInvariant, PTL

(* orb_copy never hands a subscriber an older message than before, however *)
(* many tasks publish on the topic.                                        *)
THEOREM MovesForward == Spec => CopyMovesForward
<1>1. ASSUME IInv, [Next]_orbVars, NEW s \in Sub, got'[s] # got[s]
      PROVE got'[s] > got[s]
  <2>1. PICK r \in Sub : Copy(r)
    BY <1>1 DEF Next, orbVars, Advertising, Subscribing, Publishing, Copying,
       CopyNothing, Advertise, SubscribeRefused, SubscribeBegin,
       SubscribeRegister, PublishStore, PublishPush, PublishDone
  <2>2. s = r /\ got'[s] = queue[s] /\ queue[s] # 0 /\ sub[s] = "valid"
    BY <1>1, <2>1 DEF Copy, IInv, TypeOK
  <2>3. QED
    BY <1>1, <2>2 DEF IInv, DeliveryInv, TypeOK
<1>2. IInv /\ [Next]_orbVars
        => [\A s \in Sub : got'[s] # got[s] => got'[s] > got[s]]_orbVars
  BY <1>1
<1>3. QED
  BY <1>2, InductiveInvariant, PTL DEF Spec, CopyMovesForward

(* The broker of uorb.c is a register per topic: whatever its mutexes and  *)
(* queues do is a write, a read or nothing.                                *)
THEOREM Refinement == Spec => ImplementsRegister
<1> USE UorbAssumption
<1> DEFINE stab == [t \in Topic |-> IF Busy(t) THEN latest[t] - 1 ELSE latest[t]]
<1>1. Init => Register!Init
  BY DEF Init, Register!Init, Busy
<1>2. ASSUME IInv, [Next]_orbVars
      PROVE [Register!Next]_Register!vars
  <2> USE <1>2 DEF IInv, TypeOK, pubVars
  <2> USE DEF Register!Next, Register!vars, Busy, PublisherInv
  <2>1. ASSUME NEW p \in Pub, NEW t \in Topic, PublishStore(p, t)
        PROVE Register!BeginWrite(t)
    <3>1. stab[t] = latest[t]
      BY <2>1 DEF PublishStore
    <3>2. latest' = [latest EXCEPT ![t] = @ + 1] /\ got' = got
      BY <2>1 DEF PublishStore
    <3>3. stab' = stab
      <4>1. ASSUME NEW u \in Topic PROVE stab'[u] = stab[u]
        <5>1. CASE u = t
          <6>1. Busy(u)' /\ ~Busy(u)
            BY <2>1, <5>1 DEF PublishStore
          <6>2. QED
            BY <2>1, <5>1, <6>1 DEF PublishStore
        <5>2. CASE u # t
          <6>1. Busy(u)' = Busy(u)
            BY <2>1, <5>2 DEF PublishStore
          <6>2. QED
            BY <2>1, <5>2, <6>1 DEF PublishStore
        <5>3. QED
          BY <5>1, <5>2
      <4>2. QED
        BY <4>1
    <3>4. QED
      BY <3>1, <3>2, <3>3 DEF Register!BeginWrite
  <2>2. ASSUME NEW p \in Pub, NEW t \in Topic, PublishDone(p, t)
        PROVE Register!EndWrite(t)
    <3>1. Busy(t) /\ ~Busy(t)' /\ stab[t] # latest[t]
      BY <2>2 DEF PublishDone
    <3>2. latest' = latest /\ got' = got
      BY <2>2 DEF PublishDone
    <3>3. ASSUME NEW u \in Topic, u # t PROVE Busy(u)' = Busy(u)
      BY <2>2, <3>3 DEF PublishDone
    <3>4. ASSUME NEW u \in Topic
          PROVE  stab'[u] = [stab EXCEPT ![t] = latest[t]][u]
      BY <3>1, <3>2, <3>3
    <3>5. stab' = [stab EXCEPT ![t] = latest[t]]
      BY <3>4
    <3>6. QED
      BY <3>1, <3>2, <3>5 DEF Register!EndWrite
  <2>3. ASSUME NEW s \in Sub, Copy(s)
        PROVE Register!Read(s)
    <3>1. TopicOf[s] \in Topic /\ stab' = stab /\ latest' = latest
      <4>1. publishing' = publishing /\ latest' = latest
        BY <2>3 DEF Copy
      <4>2. ASSUME NEW u \in Topic PROVE stab'[u] = stab[u]
        BY <4>1
      <4>3. QED
        BY <4>1, <4>2
    <3>2. /\ queue[s] \in stab[TopicOf[s]] .. latest[TopicOf[s]]
          /\ queue[s] > got[s]
      <4>1. queue[s] = Due(s) /\ queue[s] > got[s]
        BY <2>3 DEF Copy, DeliveryInv, Served
      <4>2. Pending(s) => Busy(TopicOf[s])
        BY DEF Pending
      <4>3. QED
        BY <3>1, <4>1, <4>2 DEF Due
    <3>3. got' = [got EXCEPT ![s] = queue[s]]
      BY <2>3 DEF Copy
    <3>4. QED
      BY <3>1, <3>2, <3>3 DEF Register!Read
  <2>4. ASSUME UNCHANGED <<publishing, latest, got>>
        PROVE UNCHANGED Register!vars
    <3>1. ASSUME NEW u \in Topic PROVE stab'[u] = stab[u]
      BY <2>4
    <3>2. stab' = stab
      BY <3>1
    <3>3. QED
      BY <2>4, <3>2
  <2>5. QED
    BY <2>1, <2>2, <2>3, <2>4
       DEF Next, orbVars, Advertising, Subscribing, Publishing, Copying,
           CopyNothing, Advertise, SubscribeRefused, SubscribeBegin,
           SubscribeRegister, PublishPush
<1>3. QED
  BY <1>1, <1>2, InductiveInvariant, PTL DEF Spec, ImplementsRegister, Register!Spec
=============================================================================
