------------------------- MODULE BrokerClientProofs -------------------------
(***************************************************************************)
(* No topic is forgotten, for any numbers of connections and topics.       *)
(*                                                                         *)
(* NoneForgotten is not inductive: it says nothing while onConnect walks,  *)
(* nor of the topic that main has listed and not yet looked after.         *)
(* Walks and Settled say what the session has at these moments.            *)
(***************************************************************************)
EXTENDS BrokerClient, TLAPS

(* The topics in the list are those that main has come past.               *)
Listed ==
    \A c \in Client :
        subscribed_topics[c] =
            IF c < at \/ mainPc = "done" THEN TopicCount
            ELSE IF c > at \/ mainPc = "start" THEN 0
            ELSE IF mainPc = "add" THEN topic - 1 ELSE topic

(* A thread runs once main has started it.  onConnect runs in a session, or  *)
(* in one that was lost meanwhile, and has subscribed to the topics it has   *)
(* passed.                                                                  *)
Walks ==
    \A c \in Client :
        /\ (c > at \/ (c = at /\ mainPc = "start")) => link[c] = "none"
        /\ link[c] = "none" => pc[c] = "idle"
        /\ pc[c] = "walk" =>
             /\ link[c] \in {"up", "down"}
             /\ count[c] <= subscribed_topics[c]
             /\ link[c] = "up" => 1..count[c] \subseteq subs[c]

(* The topic that main has listed and is going to look after.              *)
Pending(c) ==
    IF c = at /\ mainPc \in {"check", "subscribe"} THEN {topic} ELSE {}

(* In a session, connectionStatus is 1, and when onConnect is through, every *)
(* listed topic is subscribed or pending.                                    *)
Settled ==
    \A c \in Client :
        link[c] = "up" =>
            /\ connectionStatus[c] = 1
            /\ pc[c] = "idle" =>
                 1..subscribed_topics[c] \subseteq subs[c] \cup Pending(c)

(* A call of mosquitto_subscribe that finds no session, like a status that is *)
(* out of date, comes after the loss of the session.                         *)
Excused ==
    /\ ExitNeedsLoss
    /\ \A c \in Client : connectionStatus[c] = 1 \/ Subscribing(c) => link[c] = "up" \/ lost[c]

ClientInv == TypeOK /\ Listed /\ Walks /\ Settled /\ Excused

LEMMA InitClient == Init => ClientInv
<1> SUFFICES ASSUME Init PROVE ClientInv
  OBVIOUS
<1>c. 1 \in Client /\ 1 \in Topic /\ 0 \in 0..TopicCount
  BY CountAssumption DEF Client, Topic
<1>1. TypeOK
  BY <1>c DEF TypeOK, Init
<1> USE CountAssumption DEF Init, Client
<1>2. Listed
  BY DEF Listed
<1>3. Walks
  BY DEF Walks
<1>4. Settled /\ Excused
  BY DEF Settled, Excused, ExitNeedsLoss, Subscribing
<1> QED BY <1>1, <1>2, <1>3, <1>4 DEF ClientInv

LEMMA NextTopicType ==
    ASSUME TypeOK, NextTopic
    PROVE  mainPc' \in {"add", "start", "done"} /\ at' \in Client /\ topic' \in Topic
<1>1. at \in Client /\ topic \in Topic
  BY DEF TypeOK
<1> QED BY <1>1, CountAssumption DEF NextTopic, Client, Topic

LEMMA NextTopicLeaves ==
    ASSUME TypeOK, NextTopic
    PROVE  \A c \in Client : Pending(c)' = {}
BY NextTopicType DEF Pending

(* Main leaves a topic for the next one, or for the next broker, only when  *)
(* the topic is in the list.                                                *)
LEMMA NextTopicListed ==
    ASSUME TypeOK, Listed, NextTopic, UNCHANGED subscribed_topics,
           mainPc \in {"check", "subscribe"}
    PROVE  Listed'
<1> USE CountAssumption DEF Client, Topic
<1>1. CASE topic < TopicCount /\ mainPc' = "add" /\ topic' = topic + 1 /\ at' = at
  BY <1>1 DEF TypeOK, Listed
<1>2. CASE topic = TopicCount /\ at < ClientCount /\ mainPc' = "start" /\ at' = at + 1
  BY <1>2 DEF TypeOK, Listed
<1>3. CASE topic = TopicCount /\ at = ClientCount /\ mainPc' = "done"
           /\ UNCHANGED <<at, topic>>
  BY <1>3 DEF TypeOK, Listed
<1> QED BY <1>1, <1>2, <1>3 DEF NextTopic

LEMMA TypeStep == TypeOK /\ [Next]_vars => TypeOK'
<1> SUFFICES ASSUME TypeOK, [Next]_vars PROVE TypeOK'
  OBVIOUS
<1> USE CountAssumption DEF TypeOK
<1>1. CASE StartClient
  BY <1>1 DEF StartClient, Main, threadVars, Topic
<1>2. CASE AddTopic
  BY <1>2 DEF AddTopic, Main, threadVars, Topic
<1>3. CASE CheckStatus
  BY <1>3, NextTopicType DEF CheckStatus, Main, threadVars
<1>4. CASE Subscribe
  BY <1>4, NextTopicType DEF Subscribe, Main, threadVars
<1>5. CASE SubscribeFails
  BY <1>5 DEF SubscribeFails, Main, mainVars, threadVars
<1>6. ASSUME NEW c \in Client, ThreadStep(c) PROVE TypeOK'
  <2>1. CASE WalkTopic(c)
    <3>1. count[c] + 1 \in Topic /\ count[c] + 1 \in 0..TopicCount
      BY <2>1 DEF WalkTopic, Walking, Topic
    <3> QED BY <2>1, <3>1 DEF WalkTopic, mainVars
  <2>2. CASE WalkEnds(c)
    BY <2>2 DEF WalkEnds, Walking, mainVars
  <2>3. CASE WalkFails(c)
    BY <2>3 DEF WalkFails, mainVars, threadVars
  <2> QED BY <1>6, <2>1, <2>2, <2>3 DEF ThreadStep
<1>7. ASSUME NEW c \in Client, Network(c) PROVE TypeOK'
  <2>1. CASE Connecting(c)
    BY <2>1 DEF Connecting, mainVars, threadVars
  <2>2. CASE Connected(c)
    BY <2>2 DEF Connected, mainVars
  <2>3. CASE Refused(c)
    BY <2>3 DEF Refused, mainVars, threadVars
  <2>4. CASE Lost(c)
    BY <2>4 DEF Lost, mainVars, threadVars
  <2> QED BY <1>7, <2>1, <2>2, <2>3, <2>4 DEF Network
<1>8. CASE UNCHANGED vars
  BY <1>8 DEF vars, mainVars, threadVars
<1> QED BY <1>1, <1>2, <1>3, <1>4, <1>5, <1>6, <1>7, <1>8 DEF Next, MainStep

LEMMA ClientStep == ClientInv /\ [Next]_vars => ClientInv'
<1> SUFFICES ASSUME ClientInv, [Next]_vars PROVE ClientInv'
  OBVIOUS
<1> USE CountAssumption DEF Client, Topic
<1>t. TypeOK /\ TypeOK'
  BY TypeStep DEF ClientInv
<1>i. Listed /\ Walks /\ Settled /\ Excused
  BY DEF ClientInv
<1>1. CASE StartClient
  <2>1. Listed'
    BY <1>t, <1>i, <1>1 DEF StartClient, Main, TypeOK, Listed
  <2>2. Walks'
    BY <1>t, <1>i, <1>1 DEF StartClient, Main, TypeOK, Walks, threadVars
  <2>3. Settled'
    BY <1>t, <1>i, <1>1 DEF StartClient, Main, TypeOK, Settled, Walks, threadVars, Pending
  <2>4. Excused'
    BY <1>t, <1>i, <1>1 DEF StartClient, Main, TypeOK, Excused, ExitNeedsLoss, Subscribing,
       Walks, threadVars
  <2> QED BY <1>t, <2>1, <2>2, <2>3, <2>4 DEF ClientInv
<1>2. CASE AddTopic
  <2>1. Listed'
    BY <1>t, <1>i, <1>2 DEF AddTopic, Main, TypeOK, Listed
  <2>2. Walks'
    BY <1>t, <1>i, <1>2 DEF AddTopic, Main, TypeOK, Walks, threadVars, Listed
  <2>3. Settled'
    BY <1>t, <1>i, <1>2 DEF AddTopic, Main, TypeOK, Settled, Listed, threadVars, Pending
  <2>4. Excused'
    BY <1>t, <1>i, <1>2 DEF AddTopic, Main, TypeOK, Excused, ExitNeedsLoss, Subscribing,
       threadVars
  <2> QED BY <1>t, <2>1, <2>2, <2>3, <2>4 DEF ClientInv
<1>3. CASE CheckStatus
  <2>n. mainPc = "check" /\ UNCHANGED subscribed_topics
    BY <1>3 DEF CheckStatus, Main
  <2>1. Listed'
    <3>1. CASE mainPc' = "subscribe" /\ UNCHANGED <<at, topic>>
      BY <1>t, <1>i, <2>n, <3>1 DEF TypeOK, Listed
    <3>2. CASE NextTopic
      BY <1>t, <1>i, <2>n, <3>2, NextTopicListed
    <3> QED BY <1>3, <3>1, <3>2 DEF CheckStatus
  <2>2. Walks'
    BY <1>t, <1>i, <1>3 DEF CheckStatus, NextTopic, Main, TypeOK, Walks, threadVars
  <2>3. Settled'
    <3>1. CASE connectionStatus[at] = 1 /\ mainPc' = "subscribe" /\ UNCHANGED <<at, topic>>
      <4>1. \A c \in Client : Pending(c)' = Pending(c)
        BY <1>3, <3>1 DEF CheckStatus, Main, Pending
      <4> QED BY <1>t, <1>i, <1>3, <4>1 DEF CheckStatus, Settled, threadVars
    <3>2. CASE connectionStatus[at] = 0 /\ NextTopic
      <4>1. \A c \in Client : Pending(c)' = {}
        BY <1>t, <3>2, NextTopicLeaves
      <4>3. \A c \in Client : link[c] = "up" => Pending(c) = {}
        BY <1>i, <3>2 DEF Settled, Pending
      <4>2. UNCHANGED <<subscribed_topics, connectionStatus, link, pc, subs>>
        BY <1>3 DEF CheckStatus, threadVars
      <4> QED BY <1>i, <4>1, <4>2, <4>3 DEF Settled
    <3> QED BY <1>3, <3>1, <3>2 DEF CheckStatus
  <2>4. Excused'
    BY <1>t, <1>i, <1>3 DEF CheckStatus, NextTopic, Main, TypeOK, Excused, ExitNeedsLoss,
       Subscribing, threadVars
  <2> QED BY <1>t, <2>1, <2>2, <2>3, <2>4 DEF ClientInv
<1>4. CASE Subscribe
  <2>1. Listed'
    <3>1. NextTopic /\ mainPc = "subscribe" /\ UNCHANGED subscribed_topics
      BY <1>4 DEF Subscribe, Main
    <3> QED BY <1>t, <1>i, <3>1, NextTopicListed
  <2>2. Walks'
    <3>1. \A c \in Client : subs[c] \subseteq subs'[c]
      <4>1. subs' = subs \/ subs' = [subs EXCEPT ![at] = @ \cup {topic}]
        BY <1>4 DEF Subscribe
      <4>2. subs \in [Client -> SUBSET Topic]
        BY <1>t DEF TypeOK
      <4> QED BY <4>1, <4>2
    <3>2. \A c \in Client : (c > at' \/ (c = at' /\ mainPc' = "start")) => c > at
      <4>1. NextTopic /\ at \in Client
        BY <1>t, <1>4 DEF Subscribe, TypeOK
      <4> QED BY <4>1 DEF NextTopic
    <3>3. UNCHANGED <<subscribed_topics, link, pc, count>>
      BY <1>4 DEF Subscribe, threadVars
    <3>4. ASSUME NEW c \in Client, pc[c] = "walk", link[c] = "up"
          PROVE  1..count[c] \subseteq subs'[c]
      BY <1>i, <3>1, <3>4 DEF Walks
    <3>5. \A c \in Client : (c > at' \/ (c = at' /\ mainPc' = "start")) => link[c] = "none"
      BY <1>i, <3>2 DEF Walks
    <3> QED BY <1>i, <3>3, <3>4, <3>5 DEF Walks
  <2>3. Settled'
    <3>1. \A c \in Client : link[c] = "up" => subs[c] \cup Pending(c) \subseteq subs'[c]
      BY <1>t, <1>4 DEF Subscribe, Main, TypeOK, Pending
    <3> QED BY <1>t, <1>i, <1>4, <3>1 DEF Subscribe, Settled, threadVars
  <2>4. Excused'
    BY <1>t, <1>i, <1>4 DEF Subscribe, NextTopic, Main, TypeOK, Excused, ExitNeedsLoss,
       Subscribing, threadVars
  <2> QED BY <1>t, <2>1, <2>2, <2>3, <2>4 DEF ClientInv
<1>5. CASE SubscribeFails
  BY <1>t, <1>i, <1>5 DEF SubscribeFails, Main, mainVars, threadVars, ClientInv,
     TypeOK, Listed, Walks, Settled, Pending, Excused,
     ExitNeedsLoss, Subscribing
<1>6. ASSUME NEW c \in Client, WalkTopic(c) PROVE ClientInv'
  <2>1. /\ count' = [count EXCEPT ![c] = @ + 1]
        /\ subs' = [subs EXCEPT ![c] = @ \cup {count[c] + 1}]
        /\ count[c] < subscribed_topics[c] /\ pc[c] = "walk" /\ link[c] = "up"
        /\ UNCHANGED <<proc, mainPc, at, topic, subscribed_topics, connectionStatus,
                       link, pc, lost>>
    BY <1>6 DEF WalkTopic, Walking, mainVars
  <2>2. 1..count[c] + 1 \subseteq subs'[c]
    BY <1>t, <1>i, <2>1 DEF TypeOK, Walks
  <2>3. Walks'
    BY <1>t, <1>i, <2>1, <2>2 DEF TypeOK, Walks
  <2>4. Listed' /\ Settled' /\ Excused'
    BY <1>t, <1>i, <2>1 DEF TypeOK, Listed, Settled, Pending, Excused,
     ExitNeedsLoss, Subscribing
  <2> QED BY <1>t, <2>3, <2>4 DEF ClientInv
<1>7. ASSUME NEW c \in Client, WalkEnds(c) PROVE ClientInv'
  BY <1>t, <1>i, <1>7 DEF WalkEnds, Walking, mainVars, ClientInv, TypeOK, Listed, Walks,
     Settled, Pending, Excused,
     ExitNeedsLoss, Subscribing
<1>8. ASSUME NEW c \in Client, Connecting(c) PROVE ClientInv'
  <2>1. /\ proc = "up" /\ pc[c] = "idle" /\ link[c] = "down"
        /\ link' = [link EXCEPT ![c] = "opening"]
        /\ UNCHANGED <<proc, mainPc, at, topic, subscribed_topics, connectionStatus,
                        pc, count, subs, lost>>
    BY <1>8 DEF Connecting, Idle, mainVars, threadVars
  <2>2. Listed'
    BY <1>i, <2>1 DEF Listed
  <2>3. Walks'
    BY <1>t, <1>i, <2>1 DEF TypeOK, Walks
  <2>4. Settled'
    BY <1>t, <1>i, <2>1 DEF TypeOK, Settled, Pending
  <2>5. Excused'
    BY <1>t, <1>i, <2>1 DEF TypeOK, Excused, ExitNeedsLoss, Subscribing
  <2> QED BY <1>t, <2>2, <2>3, <2>4, <2>5 DEF ClientInv
<1>9. ASSUME NEW c \in Client, Connected(c) PROVE ClientInv'
  <2>1. /\ proc = "up" /\ pc[c] = "idle" /\ link[c] = "opening"
        /\ link' = [link EXCEPT ![c] = "up"]
        /\ connectionStatus' = [connectionStatus EXCEPT ![c] = 1]
        /\ pc' = [pc EXCEPT ![c] = "walk"] /\ count' = [count EXCEPT ![c] = 0]
        /\ lost' = [lost EXCEPT ![c] = FALSE]
        /\ UNCHANGED <<proc, mainPc, at, topic, subscribed_topics, subs>>
    BY <1>9 DEF Connected, Idle, mainVars, threadVars
  <2>2. Listed'
    BY <1>i, <2>1 DEF Listed
  <2>3. Walks'
    BY <1>t, <1>i, <2>1 DEF TypeOK, Walks
  <2>4. Settled'
    BY <1>t, <1>i, <2>1 DEF TypeOK, Settled, Pending
  <2>5. Excused'
    BY <1>t, <1>i, <2>1 DEF TypeOK, Excused, ExitNeedsLoss, Subscribing
  <2> QED BY <1>t, <2>2, <2>3, <2>4, <2>5 DEF ClientInv
<1>10. ASSUME NEW c \in Client, Refused(c) PROVE ClientInv'
  <2>1. /\ proc = "up" /\ pc[c] = "idle" /\ link[c] = "opening"
        /\ link' = [link EXCEPT ![c] = "down"]
        /\ connectionStatus' = [connectionStatus EXCEPT ![c] = 0]
        /\ UNCHANGED <<proc, mainPc, at, topic, subscribed_topics, pc, count, subs, lost>>
    BY <1>10 DEF Refused, Idle, mainVars, threadVars
  <2>2. Listed'
    BY <1>i, <2>1 DEF Listed
  <2>3. Walks'
    BY <1>t, <1>i, <2>1 DEF TypeOK, Walks
  <2>4. Settled'
    BY <1>t, <1>i, <2>1 DEF TypeOK, Settled, Pending
  <2>5. Excused'
    BY <1>t, <1>i, <2>1 DEF TypeOK, Excused, ExitNeedsLoss, Subscribing
  <2> QED BY <1>t, <2>2, <2>3, <2>4, <2>5 DEF ClientInv
<1>11. ASSUME NEW c \in Client, Lost(c) PROVE ClientInv'
  <2>1. /\ proc = "up" /\ link[c] \in {"opening", "up"}
        /\ link' = [link EXCEPT ![c] = "down"] /\ subs' = [subs EXCEPT ![c] = {}]
        /\ lost' = [lost EXCEPT ![c] = @ \/ link[c] = "up"]
        /\ UNCHANGED <<proc, mainPc, at, topic, subscribed_topics, connectionStatus,
                        pc, count>>
    BY <1>11 DEF Lost, mainVars, threadVars
  <2>2. Listed'
    BY <1>i, <2>1 DEF Listed
  <2>3. Walks'
    BY <1>t, <1>i, <2>1 DEF TypeOK, Walks
  <2>4. Settled'
    BY <1>t, <1>i, <2>1 DEF TypeOK, Settled, Pending
  <2>5. Excused'
    BY <1>t, <1>i, <2>1 DEF TypeOK, Excused, ExitNeedsLoss, Subscribing
  <2> QED BY <1>t, <2>2, <2>3, <2>4, <2>5 DEF ClientInv
<1>12. ASSUME NEW c \in Client, WalkFails(c) PROVE ClientInv'
  <2>1. /\ pc[c] = "walk" /\ link[c] = "down" /\ proc' = "exited"
        /\ UNCHANGED <<mainPc, at, topic, subscribed_topics, connectionStatus, link, pc,
                       count, subs, lost>>
    BY <1>12 DEF WalkFails, Walking, mainVars, threadVars
  <2>2. Listed' /\ Walks' /\ Settled'
    BY <1>i, <2>1 DEF Listed, Walks, Settled, Pending
  <2>3. Excused'
    BY <1>i, <2>1 DEF Excused, ExitNeedsLoss, Subscribing
  <2> QED BY <1>t, <2>2, <2>3 DEF ClientInv
<1>13. CASE UNCHANGED vars
  BY <1>t, <1>i, <1>13 DEF vars, mainVars, threadVars, ClientInv, TypeOK, Listed,
     Walks, Settled, Pending, Excused,
     ExitNeedsLoss, Subscribing
<1> QED BY <1>1, <1>2, <1>3, <1>4, <1>5, <1>6, <1>7, <1>8, <1>9, <1>10, <1>11, <1>12, <1>13
        DEF Next, MainStep, ThreadStep, Network

LEMMA ClientInvariant == Spec => []ClientInv
BY InitClient, ClientStep, PTL DEF Spec

(* Every reachable state is well typed.                                    *)
THEOREM ClientTypes == Spec => []TypeOK
<1>1. ClientInv => TypeOK
  BY DEF ClientInv
<1> QED BY <1>1, ClientInvariant, PTL

(* Whatever the network does and however main and onConnect interleave, what *)
(* mqttClientSubscribe was asked for is subscribed in every session.         *)
THEOREM NoTopicForgotten == Spec => []NoneForgotten
<1>1. ClientInv => NoneForgotten
  <2> SUFFICES ASSUME ClientInv, NEW c \in Client, link[c] = "up", pc[c] = "idle"
               PROVE  Requested(c) \subseteq subs[c]
    BY DEF NoneForgotten
  <2>1. 1..subscribed_topics[c] \subseteq subs[c] \cup Pending(c)
    BY DEF ClientInv, Settled
  <2>2. Requested(c) \subseteq 1..subscribed_topics[c]
    BY CountAssumption DEF ClientInv, Listed, TypeOK, Requested, Client, Topic
  <2>3. Requested(c) \cap Pending(c) = {}
    BY CountAssumption DEF ClientInv, TypeOK, Requested, Pending, Client, Topic
  <2> QED BY <2>1, <2>2, <2>3
<1> QED BY <1>1, ClientInvariant, PTL

(* For any numbers of connections and topics, and whatever the network does, *)
(* the process exits only in a call of mosquitto_subscribe for a connection   *)
(* that was established, has been lost and is down; when it was lost is left   *)
(* open, since a connectionStatus of 1 may be out of date.                    *)
THEOREM ExitIsExcused == Spec => []ExitNeedsLoss
<1>1. ClientInv => ExitNeedsLoss
  BY DEF ClientInv, Excused
<1> QED BY <1>1, ClientInvariant, PTL
=============================================================================
