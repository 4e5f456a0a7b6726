---------------------------- MODULE BrokerClient ----------------------------
(***************************************************************************)
(* How iotServer and iotScheduler come to be subscribed to their topics.   *)
(*                                                                         *)
(* For each broker in turn the main thread starts a mosquitto thread and   *)
(* then subscribes: it adds a topic to the list of the connection, looks   *)
(* at connectionStatus, and subscribes at once when that is 1.  Meanwhile  *)
(* the mosquitto thread connects; onConnect sets connectionStatus to 1 and *)
(* subscribes to what is in the list.  The two share the list and          *)
(* connectionStatus without a lock.  The sessions are clean: a broker      *)
(* forgets the subscriptions with the connection, and onConnect runs again *)
(* when the library has reconnected.                                       *)
(*                                                                         *)
(* Connections are numbered in the order of main, topics in the order of   *)
(* subscribe_topics; subscribed_topics counts the topics in the list.      *)
(***************************************************************************)
EXTENDS Naturals

CONSTANTS
    ClientCount,  \* local_client, and remote_client if there is one
    TopicCount    \* topics of subscribe_topics

ASSUME CountAssumption == ClientCount \in Nat \ {0} /\ TopicCount \in Nat \ {0}

Client == 1..ClientCount
Topic == 1..TopicCount

VARIABLES
    proc,               \* "up", or "exited" by the exit(-1) after a failed call
    mainPc, at, topic,  \* the main thread: its place, connection and topic
    subscribed_topics, connectionStatus,
    link,   \* the library: "none" before its thread runs, "down", "opening", "up"
    pc,     \* of each mosquitto thread: "idle", or "walk" in onConnect
    count,  \* topics that onConnect has passed
    subs,   \* the broker: the subscriptions of the session
    lost    \* history: the session of each connection was lost, and no new one
            \* has been established since

mainVars == <<mainPc, at, topic>>
threadVars == <<pc, count>>
vars == <<proc, mainVars, subscribed_topics, connectionStatus, link, threadVars,
          subs, lost>>

Init ==
    /\ proc = "up"
    /\ mainPc = "start" /\ at = 1 /\ topic = 1
    /\ subscribed_topics = [c \in Client |-> 0]
    /\ connectionStatus = [c \in Client |-> 0]
    /\ link = [c \in Client |-> "none"]
    /\ pc = [c \in Client |-> "idle"] /\ count = [c \in Client |-> 0]
    /\ subs = [c \in Client |-> {}]
    /\ lost = [c \in Client |-> FALSE]
-----------------------------------------------------------------------------
(* The main thread                                                          *)

Main(label) == proc = "up" /\ mainPc = label

\* mqttClientConnect and mqttStartClientThread
StartClient ==
    /\ Main("start")
    /\ link' = [link EXCEPT ![at] = "down"]
    /\ mainPc' = "add" /\ topic' = 1
    /\ UNCHANGED <<proc, at, subscribed_topics, connectionStatus, threadVars, subs, lost>>

\* mqttClientSubscribe: the topic is in the list before connectionStatus is read.
AddTopic ==
    /\ Main("add")
    /\ subscribed_topics' = [subscribed_topics EXCEPT ![at] = topic]
    /\ mainPc' = "check"
    /\ UNCHANGED <<proc, at, topic, connectionStatus, link, threadVars, subs, lost>>

\* The rest of subscribe_topics, then the next broker.
NextTopic ==
    \/ /\ topic < TopicCount
       /\ mainPc' = "add" /\ topic' = topic + 1 /\ at' = at
    \/ /\ topic = TopicCount /\ at < ClientCount
       /\ mainPc' = "start" /\ at' = at + 1 /\ topic' = topic
    \/ /\ topic = TopicCount /\ at = ClientCount
       /\ mainPc' = "done" /\ UNCHANGED <<at, topic>>

CheckStatus ==
    /\ Main("check")
    /\ \/ connectionStatus[at] = 1 /\ mainPc' = "subscribe" /\ UNCHANGED <<at, topic>>
       \/ connectionStatus[at] = 0 /\ NextTopic
    /\ UNCHANGED <<proc, subscribed_topics, connectionStatus, link, threadVars, subs, lost>>

\* mosquitto_subscribe.  While the library reconnects there is a socket, but no
\* session yet that the subscription could belong to.
Subscribe ==
    /\ Main("subscribe") /\ link[at] # "down"
    /\ subs' = IF link[at] = "up" THEN [subs EXCEPT ![at] = @ \cup {topic}] ELSE subs
    /\ NextTopic
    /\ UNCHANGED <<proc, subscribed_topics, connectionStatus, link, threadVars, lost>>

SubscribeFails ==
    /\ Main("subscribe") /\ link[at] = "down"
    /\ proc' = "exited"
    /\ UNCHANGED <<mainVars, subscribed_topics, connectionStatus, link, threadVars,
                   subs, lost>>

MainStep == StartClient \/ AddTopic \/ CheckStatus \/ Subscribe \/ SubscribeFails
-----------------------------------------------------------------------------
(* The mosquitto threads                                                    *)

Idle(c) == proc = "up" /\ pc[c] = "idle"

Connecting(c) ==
    /\ Idle(c) /\ link[c] = "down"
    /\ link' = [link EXCEPT ![c] = "opening"]
    /\ UNCHANGED <<proc, mainVars, subscribed_topics, connectionStatus, threadVars,
                   subs, lost>>

(* Mutant: connectionStatus is not set. *)
ConnectedQuiet(c) ==
    /\ Idle(c) /\ link[c] = "opening"
    /\ link' = [link EXCEPT ![c] = "up"]
    /\ lost' = [lost EXCEPT ![c] = FALSE]
    /\ pc' = [pc EXCEPT ![c] = "walk"] /\ count' = [count EXCEPT ![c] = 0]
    /\ UNCHANGED <<proc, mainVars, subscribed_topics, connectionStatus, subs>>

\* onConnect with ret = 0, a new session.
Connected(c) ==
    /\ Idle(c) /\ link[c] = "opening"
    /\ link' = [link EXCEPT ![c] = "up"]
    /\ connectionStatus' = [connectionStatus EXCEPT ![c] = 1]
    /\ lost' = [lost EXCEPT ![c] = FALSE]
    /\ pc' = [pc EXCEPT ![c] = "walk"] /\ count' = [count EXCEPT ![c] = 0]
    /\ UNCHANGED <<proc, mainVars, subscribed_topics, subs>>

(* Mutant: connectionStatus is set in front of the switch. *)
RefusedAsConnected(c) ==
    /\ Idle(c) /\ link[c] = "opening"
    /\ link' = [link EXCEPT ![c] = "down"]
    /\ connectionStatus' = [connectionStatus EXCEPT ![c] = 1]
    /\ UNCHANGED <<proc, mainVars, subscribed_topics, threadVars, subs, lost>>

\* onConnect with another ret, and mqttClientConnect.
Refused(c) ==
    /\ Idle(c) /\ link[c] = "opening"
    /\ link' = [link EXCEPT ![c] = "down"]
    /\ connectionStatus' = [connectionStatus EXCEPT ![c] = 0]
    /\ UNCHANGED <<proc, mainVars, subscribed_topics, threadVars, subs, lost>>

Walking(c) == proc = "up" /\ pc[c] = "walk"

(* Mutant: one topic too many. *)
WalkTopicBeyond(c) ==
    /\ Walking(c) /\ count[c] <= subscribed_topics[c] /\ link[c] = "up"
    /\ count' = [count EXCEPT ![c] = @ + 1]
    /\ subs' = [subs EXCEPT ![c] = @ \cup {count[c] + 1}]
    /\ UNCHANGED <<proc, mainVars, subscribed_topics, connectionStatus, link, pc, lost>>

(* Mutant: every second topic. *)
WalkTopicSkips(c) ==
    /\ Walking(c) /\ count[c] < subscribed_topics[c] /\ link[c] = "up"
    /\ count' = [count EXCEPT ![c] = IF @ + 2 > TopicCount THEN TopicCount ELSE @ + 2]
    /\ subs' = [subs EXCEPT ![c] = @ \cup {count[c] + 1}]
    /\ UNCHANGED <<proc, mainVars, subscribed_topics, connectionStatus, link, pc, lost>>

\* The loop of onConnect, which sees what main adds to the end of the list.
WalkTopic(c) ==
    /\ Walking(c) /\ count[c] < subscribed_topics[c] /\ link[c] = "up"
    /\ count' = [count EXCEPT ![c] = @ + 1]
    /\ subs' = [subs EXCEPT ![c] = @ \cup {count[c] + 1}]
    /\ UNCHANGED <<proc, mainVars, subscribed_topics, connectionStatus, link, pc, lost>>

\* mosquitto_subscribe fails in onConnect: exit(-1) here, too.
WalkFails(c) ==
    /\ Walking(c) /\ count[c] < subscribed_topics[c] /\ link[c] = "down"
    /\ proc' = "exited"
    /\ UNCHANGED <<mainVars, subscribed_topics, connectionStatus, link, threadVars,
                   subs, lost>>

WalkEnds(c) ==
    /\ Walking(c) /\ count[c] = subscribed_topics[c]
    /\ pc' = [pc EXCEPT ![c] = "idle"] /\ count' = [count EXCEPT ![c] = 0]
    /\ UNCHANGED <<proc, mainVars, subscribed_topics, connectionStatus, link, subs, lost>>

\* The library finds that the connection is gone, or cannot be made; it may come
\* to that while onConnect runs.  No callback is set for it: connectionStatus
\* stays 1.
Lost(c) ==
    /\ proc = "up" /\ link[c] \in {"opening", "up"}
    /\ link' = [link EXCEPT ![c] = "down"] /\ subs' = [subs EXCEPT ![c] = {}]
    /\ lost' = [lost EXCEPT ![c] = @ \/ link[c] = "up"]
    /\ UNCHANGED <<proc, mainVars, subscribed_topics, connectionStatus, threadVars>>

ThreadStep(c) == WalkTopic(c) \/ WalkFails(c) \/ WalkEnds(c)
Network(c) == Connecting(c) \/ Connected(c) \/ Refused(c) \/ Lost(c)

Next == MainStep \/ \E c \in Client : ThreadStep(c) \/ Network(c)

\* The threads run; the network is free to fail for ever.
Spec == Init /\ [][Next]_vars /\ WF_vars(MainStep) /\ \A c \in Client : WF_vars(ThreadStep(c))
-----------------------------------------------------------------------------
TypeOK ==
    /\ proc \in {"up", "exited"}
    /\ mainPc \in {"start", "add", "check", "subscribe", "done"}
    /\ at \in Client /\ topic \in Topic
    /\ subscribed_topics \in [Client -> 0..TopicCount]
    /\ connectionStatus \in [Client -> {0, 1}]
    /\ link \in [Client -> {"none", "down", "opening", "up"}]
    /\ pc \in [Client -> {"idle", "walk"}] /\ count \in [Client -> 0..TopicCount]
    /\ subs \in [Client -> SUBSET Topic]
    /\ lost \in [Client -> BOOLEAN]

\* The topics for which the call of mqttClientSubscribe has returned.
Requested(c) ==
    IF c < at \/ mainPc = "done" THEN Topic
    ELSE IF c = at /\ mainPc # "start" THEN 1..topic - 1
    ELSE {}

\* No topic falls between the two threads: once both are through with it, it is
\* subscribed in the present session, whoever came first and however often the
\* connection was lost before.
NoneForgotten ==
    \A c \in Client :
        proc = "up" /\ link[c] = "up" /\ pc[c] = "idle" => Requested(c) \subseteq subs[c]

\* The process only exits in a call of mosquitto_subscribe, on a connection that
\* has been established, was lost and is not up again: a broker that is slow or
\* refuses is waited out.  The loss may be older than the look at connectionStatus,
\* which still says 1.
Subscribing(c) == pc[c] = "walk" \/ (c = at /\ mainPc = "subscribe")
ExitNeedsLoss ==
    proc = "exited" =>
        \E c \in Client : Subscribing(c) /\ link[c] = "down" /\ lost[c]

\* A connection that holds in the end has all its topics, or the process exited.
HoldsThenSubscribed ==
    \A c \in Client :
        <>[](link[c] = "up") => <>[](subs[c] = Topic \/ proc = "exited")
=============================================================================
