------------------------- MODULE GatewayServiceProofs -------------------------
(***************************************************************************)
(* What the gateway does for its clients: it never crashes, an answer is    *)
(* published for the request it answers, no request is written to a node    *)
(* twice, and the nodes announced as up are connected.                      *)
(*                                                                          *)
(* All of it rests on what a node may have said and not yet been heard at   *)
(* each moment of a connection.  The first part is about its greeting, the  *)
(* second about the one request it owes an answer to, the third about the   *)
(* places a request can be in.                                              *)
(***************************************************************************)
EXTENDS GatewayProofs

(***************************************************************************)
(* The steps that matter here                                               *)
(***************************************************************************)

(* Nothing that concerns a node changes.                                     *)
Quiet ==
    /\ UNCHANGED <<sessionVars, netVars, helloVars, order, scan_due, age>>
    /\ \/ UNCHANGED todo
       \/ \E c : /\ work_state[c] = "BUSY" \/ request_list[c] = <<>>
                /\ todo' = todo \ {Event("SCAN", c)}
       \/ todo' = todo \ {Event("PIPE", NULL)}

Said(c) ==
    \/ Answer(c)
    \/ \E n \in Name, msg \in Unasked : Volunteer(c, msg, n)

LEMMA QuietSteps ==
    ASSUME [GatewayNext]_gatewayVars
    PROVE  \/ Quiet \/ Select \/ Listen \/ Tick
           \/ \E c \in Conn : \/ Gc(c) \/ HelloTimer(c) \/ ReadMsg(c) \/ ReadEnd(c)
                              \/ ScanSend(c) \/ ScanTimeout(c) \/ Said(c)
                              \/ \E n \in Name : Connect(c, n)
                              \/ \E how \in {"closed", "dead"} : Leave(c, how)
           \/ \E r \in Request : DrainEnqueue(r)
<1> USE DEF Quiet
<1>1. CASE PipeRead \/ DrainStep
  BY <1>1 DEF PipeRead, DrainStep, Handled
<1>2. ASSUME NEW c \in Conn, ScanSkip(c) PROVE Quiet
  BY <1>2 DEF ScanSkip, Handled
<1>3. ASSUME NEW r \in Request, DrainNotFound(r) PROVE Quiet
  BY <1>3 DEF DrainNotFound
<1>4. ASSUME NEW t \in Thread, ThreadRuns(t) \/ \E r \in Request : Submit(t, r) PROVE Quiet
  BY <1>4 DEF ThreadRuns, Submit
<1>5. CASE UNCHANGED gatewayVars
  BY <1>5 DEF gatewayVars
<1> QED BY <1>1, <1>2, <1>3, <1>4, <1>5 DEF GatewayNext, MainLoop, Said

(* The drain gives a request to a connection of events_list, and it runs     *)
(* when the sockets of this pass have all been read.                        *)
LEMMA EnqueueAtNode ==
    ASSUME TypeOK, LoopTypes, NEW r \in Request, DrainEnqueue(r)
    PROVE  /\ \E c \in nodes : WorkEnqueue(c, r)
           /\ todo # {}
           /\ \A c : Event("IOT", c) \notin todo
<1> DEFINE c == FirstNamed(Target[r])
<1>1. WorkEnqueue(c, r)
  BY DEF DrainEnqueue
<1>2. mpc # "loop"
  BY DEF DrainEnqueue, Handoff!DrainFound, Handoff!DrainMore
<1> HIDE DEF c
<1>3. c \in nodes
  BY <1>1 DEF WorkEnqueue
<1> QED BY <1>1, <1>2, <1>3 DEF LoopTypes, PipeFirst, PipeIsNext, Event

(* Events about a node are about an entry of events_list.                    *)
LEMMA AtNode ==
    ASSUME LoopTypes, NEW kind \in {"TIMER", "IOT", "SCAN"}, NEW c, At(kind, c)
    PROVE  c \in nodes
BY DEF LoopTypes, At, Watched, Event

(* When select() would wait, every message of a watched socket was read.     *)
LEMMA NothingReady ==
    ASSUME Ready = {}, NEW c \in nodes
    PROVE  inbox[c] = <<>> /\ link[c] # "closed" /\ c \notin hello_due /\ ~scan_due
<1>1. ASSUME NEW e \in Watched PROVE ~IsReady(e)
  BY <1>1 DEF Ready
<1>2. \A kind \in {"TIMER", "IOT", "SCAN"} : Event(kind, c) \in Watched
  BY DEF Watched
<1> QED BY <1>1, <1>2 DEF IsReady, Event

(* What one read does besides processing the message.                       *)
LEMMA ReadStep ==
    ASSUME GatewayInv, NEW c \in Conn, ReadMsg(c)
    PROVE  /\ c \in nodes /\ inbox[c] \in Seq(NodeMessage) /\ inbox[c] # <<>>
           /\ Head(inbox[c]) = inbox[c][1] /\ inbox[c][1] \in NodeMessage
           /\ ProcessMsg(c, inbox[c][1])
           /\ UNCHANGED <<nodes, del_mark, link, wire, spoke, helloVars, order, age, handed>>
           /\ inbox'[c] \in Seq(NodeMessage) /\ Len(inbox[c]) \in Nat
           /\ \E k \in 1 .. Len(inbox[c]) :
                 /\ k <= ReadMax
                 /\ Len(inbox'[c]) = Len(inbox[c]) - k
                 /\ \A i \in 1 .. Len(inbox'[c]) : inbox'[c][i] = inbox[c][i + k]
           /\ \A d \in Conn \ {c} : /\ inbox'[d] = inbox[d]
                                    /\ request_list'[d] = request_list[d]
                                    /\ work_state'[d] = work_state[d]
           /\ todo' = todo \ {Event("IOT", c)}
<1>t. inbox \in [Conn -> Seq(NodeMessage)] /\ TypeOK /\ LoopTypes
  BY DEF GatewayInv, NetTypes
<1>1. c \in nodes
  BY <1>t, AtNode DEF ReadMsg
<1>2. /\ inbox[c] \in Seq(NodeMessage) /\ inbox[c] # <<>> /\ Len(inbox[c]) \in Nat
      /\ \A i \in 1 .. Len(inbox[c]) : inbox[c][i] \in NodeMessage
  BY <1>t, LenProperties, ElementOfSeq DEF ReadMsg
<1>3. Head(inbox[c]) = inbox[c][1] /\ inbox[c][1] \in NodeMessage
  BY <1>2, HeadTailProperties
<1>4. ProcessMsg(c, inbox[c][1])
  BY <1>3 DEF ReadMsg
<1>5. PICK k \in 1 .. ReadMax :
          /\ k <= Len(inbox[c])
          /\ inbox' = [inbox EXCEPT ![c] = SubSeq(@, k + 1, Len(@))]
  BY DEF ReadMsg
<1>6. k \in 1 .. Len(inbox[c]) /\ inbox'[c] = SubSeq(inbox[c], k + 1, Len(inbox[c]))
  BY <1>2, <1>5, <1>t, ClockAssumption
<1>7. /\ inbox'[c] \in Seq(NodeMessage)
      /\ Len(inbox'[c]) = Len(inbox[c]) - k
      /\ \A i \in 1 .. Len(inbox'[c]) : inbox'[c][i] = inbox[c][i + k]
  <2>1. \A i \in k + 1 .. Len(inbox[c]) : inbox[c][i] \in NodeMessage
    BY <1>2, <1>6
  <2>2. k + 1 \in Int /\ Len(inbox[c]) \in Int
    BY <1>2, <1>6
  <2>3. /\ SubSeq(inbox[c], k + 1, Len(inbox[c])) \in Seq(NodeMessage)
        /\ Len(inbox'[c]) = IF k + 1 <= Len(inbox[c]) THEN Len(inbox[c]) - (k + 1) + 1 ELSE 0
        /\ \A i \in 1 .. Len(inbox[c]) - (k + 1) + 1 :
              inbox'[c][i] = inbox[c][k + 1 + i - 1]
    BY <1>6, <2>1, <2>2, SubSeqProperties
  <2>4. Len(inbox'[c]) = Len(inbox[c]) - k
    BY <1>2, <1>6, <2>3
  <2>5. ASSUME NEW i \in 1 .. Len(inbox'[c]) PROVE inbox'[c][i] = inbox[c][i + k]
    <3>1. i \in 1 .. Len(inbox[c]) - (k + 1) + 1 /\ k + 1 + i - 1 = i + k
      BY <1>2, <1>6, <2>4
    <3> QED BY <2>3, <3>1
  <2> QED BY <1>6, <2>3, <2>4, <2>5
<1>8. UNCHANGED <<nodes, del_mark>>
  BY <1>4 DEF ProcessMsg, HelloMsg, CapsMsg, GetResp, SetResp, AssertFails, FinishHead, Crash,
              sessionVars, idVars
<1>9. \A d \in Conn \ {c} : /\ request_list'[d] = request_list[d]
                            /\ work_state'[d] = work_state[d]
  BY <1>4, <1>t DEF TypeOK, ProcessMsg, HelloMsg, CapsMsg, GetResp, SetResp, AssertFails,
                    FinishHead, Crash, delete_request, sessionVars, queueVars
<1>10. /\ \A d \in Conn \ {c} : inbox'[d] = inbox[d]
       /\ UNCHANGED <<link, wire, spoke, helloVars, order, age, handed>>
       /\ todo' = todo \ {Event("IOT", c)}
  BY <1>5, <1>t DEF ReadMsg, Handled
<1>11. \E j \in 1 .. Len(inbox[c]) :
          /\ j <= ReadMax
          /\ Len(inbox'[c]) = Len(inbox[c]) - j
          /\ \A i \in 1 .. Len(inbox'[c]) : inbox'[c][i] = inbox[c][i + j]
  <2>1. k <= ReadMax
    BY <1>5, ClockAssumption
  <2> QED BY <1>6, <1>7, <2>1
<1> QED BY <1>1, <1>2, <1>3, <1>4, <1>7, <1>8, <1>9, <1>10, <1>11

(***************************************************************************)
(* The greeting of a node                                                   *)
(***************************************************************************)

(* A socket nobody opened carries nothing, and a node that is gone was sent  *)
(* nothing that it could still answer.                                      *)
Links == \A c \in Conn :
    /\ link[c] = "free" => c \notin nodes /\ inbox[c] = <<>>
    /\ link[c] # "open" => wire[c] = <<>>

(* What select() found readable stays readable until it is handled.          *)
Events == \A c \in Conn :
    /\ Event("IOT", c) \in todo => inbox[c] # <<>> \/ link[c] = "closed"
    /\ Event("TIMER", c) \in todo => c \in hello_due

(* A CAPS that has not been read is the first message of its connection, and *)
(* it is read before the gateway has a request for this node.                *)
Greets(c) == \E i \in 1 .. Len(inbox[c]) : inbox[c][i].msg = "CAPS"

Greetings == \A c \in Conn : Greets(c) =>
    /\ \A i \in 2 .. Len(inbox[c]) : inbox[c][i].msg # "CAPS"
    /\ request_list[c] = <<>>
    /\ c \notin caps \cup del_mark \cup hello_due
    /\ c \in nodes /\ todo # {} => Event("IOT", c) \in todo

LEMMA LinksStep ==
    ASSUME GatewayInv, Links, [GatewayNext]_gatewayVars
    PROVE  Links'
<1> USE DEF Links, netVars
<1>t. /\ inbox \in [Conn -> Seq(NodeMessage)] /\ wire \in [Conn -> Seq(Entry)]
      /\ link \in [Conn -> {"free", "open", "closed", "dead"}]
  BY DEF GatewayInv, NetTypes, ClockTypes
<1>s. CASE UNCHANGED <<nodes, link, inbox, wire>>
  BY <1>s
<1>1. ASSUME NEW c \in Conn, Gc(c) PROVE Links'
  BY <1>1, <1>t DEF Gc, DelEvent
<1>2. ASSUME NEW c \in Conn, ReadMsg(c) PROVE Links'
  BY <1>2, ReadStep
<1>3. ASSUME NEW c \in Conn, ScanSend(c) PROVE Links'
  <2>1. UNCHANGED <<nodes, link, inbox>>
    BY <1>3 DEF ScanSend, SendHead, idVars
  <2>2. \A d \in Conn : link[d] # "open" => wire'[d] = wire[d]
    BY <1>3, <1>t DEF ScanSend
  <2> QED BY <2>1, <2>2
<1>4. ASSUME NEW c \in Conn, \/ Said(c) \/ \E n \in Name : Connect(c, n)
                             \/ \E how \in {"closed", "dead"} : Leave(c, how)
      PROVE  Links'
  <2>1. UNCHANGED nodes
    BY <1>4 DEF Said, Answer, Volunteer, Connect, Leave, NodeStep, sessionVars, idVars
  <2>2. \A d \in Conn \ {c} : link'[d] = link[d] /\ inbox'[d] = inbox[d] /\ wire'[d] = wire[d]
    BY <1>4, <1>t DEF Said, Answer, Volunteer, Connect, Leave, Say
  <2>3. link'[c] # "free" /\ (link'[c] # "open" => wire'[c] = <<>>)
    BY <1>4, <1>t DEF Said, Answer, Volunteer, Connect, Leave
  <2> QED BY <2>1, <2>2, <2>3
<1>5. CASE Quiet \/ Select \/ Tick
  BY <1>5, <1>s DEF Quiet, Select, Tick, sessionVars, idVars
<1>6. CASE Listen
  BY <1>6 DEF Listen, Backlog, Accept
<1>7. ASSUME NEW c \in Conn, HelloTimer(c) \/ ReadEnd(c) \/ ScanTimeout(c) PROVE Links'
  BY <1>7, <1>s DEF HelloTimer, HelloDead, HelloTick, ReadEnd, Disconnect, ScanTimeout,
                    BusyTimeout, FinishHead, idVars
<1>8. ASSUME NEW r \in Request, DrainEnqueue(r) PROVE Links'
  BY <1>8, <1>s DEF DrainEnqueue, WorkEnqueue, idVars
<1> QED BY <1>1, <1>2, <1>3, <1>4, <1>5, <1>6, <1>7, <1>8, QuietSteps

LEMMA EventsStep ==
    ASSUME GatewayInv, Links, Events, [GatewayNext]_gatewayVars
    PROVE  Events'
<1> USE DEF Events, netVars, helloVars
<1>t. /\ inbox \in [Conn -> Seq(NodeMessage)] /\ wire \in [Conn -> Seq(Entry)]
      /\ link \in [Conn -> {"free", "open", "closed", "dead"}]
  BY DEF GatewayInv, NetTypes, ClockTypes
<1>e. CASE todo' = {}
  BY <1>e
<1>s. CASE todo' \subseteq todo /\ UNCHANGED <<inbox, link, hello_due>>
  BY <1>s
<1>1. ASSUME NEW c \in Conn, Gc(c) PROVE Events'
  BY <1>1, <1>e DEF Gc, TopOfLoop
<1>2. CASE Select
  BY <1>2 DEF Select, Ready, IsReady, Event
<1>3. CASE Tick
  BY <1>3, <1>e DEF Tick, TopOfLoop
<1>4. CASE Quiet
  BY <1>4, <1>s DEF Quiet
<1>5. CASE Listen
  BY <1>5, <1>s DEF Listen, Handled
<1>6. ASSUME NEW c \in Conn, HelloTimer(c) PROVE Events'
  BY <1>6 DEF HelloTimer, Handled, Event
<1>7. ASSUME NEW c \in Conn, ReadMsg(c) PROVE Events'
  <2>1. \A d \in Conn \ {c} : inbox'[d] = inbox[d]
    BY <1>7, <1>t DEF ReadMsg
  <2> QED BY <1>7, <2>1 DEF ReadMsg, Handled, Event
<1>8. ASSUME NEW c \in Conn, ReadEnd(c) \/ ScanSend(c) \/ ScanTimeout(c) PROVE Events'
  BY <1>8, <1>s DEF ReadEnd, ScanSend, ScanTimeout, Handled
<1>9. ASSUME NEW r \in Request, DrainEnqueue(r) PROVE Events'
  BY <1>9, <1>s DEF DrainEnqueue
<1>10. ASSUME NEW c \in Conn, \/ Said(c) \/ \E n \in Name : Connect(c, n)
                              \/ \E how \in {"closed", "dead"} : Leave(c, how)
      PROVE  Events'
  <2>1. UNCHANGED <<todo, hello_due>>
    BY <1>10 DEF Said, Answer, Volunteer, Connect, Leave, NodeStep
  <2>2. \A d \in Conn \ {c} : link'[d] = link[d] /\ inbox'[d] = inbox[d]
    BY <1>10, <1>t DEF Said, Answer, Volunteer, Connect, Leave, Say
  <2>3. CASE \E m : inbox'[c] = Append(inbox[c], m)
    <3>1. PICK m : inbox'[c] = Append(inbox[c], m)
      BY <2>3
    <3> DEFINE S == NodeMessage \cup {m}
    <3>2. inbox[c] \in Seq(S) /\ m \in S
      BY <1>t, SeqMonotonic
    <3> HIDE DEF S
    <3>3. inbox'[c] # <<>>
      BY <3>1, <3>2, AppendProperties
    <3> QED BY <2>1, <2>2, <3>3
  <2>4. CASE inbox'[c] = inbox[c] /\ link[c] = "open"
    BY <2>1, <2>2, <2>4
  <2> QED BY <1>10, <1>t, <2>3, <2>4 DEF Said, Answer, Volunteer, Connect, Leave, Say
<1> QED BY <1>1, <1>2, <1>3, <1>4, <1>5, <1>6, <1>7, <1>8, <1>9, <1>10, QuietSteps

LEMMA GreetingsStep ==
    ASSUME "CAPS" \notin Unasked, GatewayInv, Links, Events, Greetings,
           [GatewayNext]_gatewayVars
    PROVE  Greetings'
<1>t. /\ TypeOK /\ LoopTypes /\ inbox \in [Conn -> Seq(NodeMessage)]
      /\ hello_due \subseteq nodes /\ del_mark \subseteq nodes /\ caps \subseteq nodes
      /\ NoOrphanRequest
  BY DEF GatewayInv, NetTypes, ClockTypes, TypeOK, QueueInv
<1> DEFINE Kept(c) == Greets(c) => /\ request_list'[c] = request_list[c]
                                   /\ c \notin caps' \cup del_mark' \cup hello_due'
                                   /\ \/ todo' = {}
                                      \/ c \notin nodes'
                                      \/ Event("IOT", c) \in todo'
<1>k. ASSUME UNCHANGED inbox, \A c \in Conn : Kept(c) PROVE Greetings'
  BY <1>k DEF Greetings, Greets
<1>q. ASSUME UNCHANGED <<nodes, del_mark, caps, hello_due, inbox, request_list, todo>>
      PROVE  Greetings'
  BY <1>q, <1>k DEF Greetings
<1>1. ASSUME NEW c \in Conn, Gc(c) PROVE Greetings'
  <2>1. /\ todo' = {} /\ inbox'[c] = <<>> /\ nodes' = nodes \ {c}
        /\ caps' \subseteq caps /\ del_mark' \subseteq del_mark /\ hello_due' \subseteq hello_due
        /\ \A d \in Conn \ {c} : inbox'[d] = inbox[d] /\ request_list'[d] = request_list[d]
    BY <1>1, <1>t DEF Gc, TopOfLoop, DelEvent, del_node_requests, TypeOK
  <2>2. ~Greets(c)'
    BY <2>1 DEF Greets
  <2> QED BY <2>1, <2>2 DEF Greetings, Greets
<1>2. CASE Select
  <2>1. ASSUME NEW c \in Conn, Greets(c) PROVE c \notin nodes' \/ Event("IOT", c) \in todo'
    <3>1. inbox[c] # <<>>
      BY <2>1 DEF Greets
    <3> QED BY <1>2, <3>1 DEF Select, Ready, IsReady, Watched, Event, sessionVars, idVars
  <2> QED BY <1>2, <1>k, <2>1 DEF Select, sessionVars, idVars, queueVars, netVars, helloVars, Greetings
<1>3. CASE Tick
  <2>1. ASSUME NEW c \in nodes PROVE inbox[c] = <<>>
    BY <1>3, NothingReady DEF Tick
  <2>2. \A c \in Conn : Greets(c) => c \notin nodes
    BY <2>1 DEF Greets
  <2>3. hello_due' \subseteq nodes
    BY <1>3 DEF Tick
  <2> QED BY <1>3, <1>k, <2>2, <2>3, <1>t
          DEF Tick, sessionVars, idVars, queueVars, TopOfLoop, Greetings
<1>4. CASE Quiet
  BY <1>4, <1>k DEF Quiet, Event, sessionVars, idVars, queueVars, netVars, helloVars, Greetings
<1>5. CASE Listen
  <2>1. todo' = {}
    BY <1>5, <1>t, FirstEvent DEF Listen, Handled, LoopTypes
  <2> QED BY <1>5, <1>k, <2>1 DEF Listen, Accept, queueVars, netVars, helloVars, Greetings
<1>6. ASSUME NEW c \in Conn, HelloTimer(c) PROVE Greetings'
  <2>1. ~Greets(c)
    BY <1>6 DEF HelloTimer, At, Events, Greetings
  <2>2. \A d \in Conn \ {c} : request_list'[d] = request_list[d]
    BY <1>6, <1>t DEF HelloTimer, HelloDead, HelloTick, ENQUEUE_IOT_REQUEST, TypeOK, queueVars
  <2>3. UNCHANGED <<nodes, caps, inbox>> /\ del_mark' \subseteq del_mark \cup {c}
    BY <1>6 DEF HelloTimer, HelloDead, HelloTick, idVars, netVars
  <2> QED BY <1>6, <1>k, <2>1, <2>2, <2>3 DEF HelloTimer, Handled, Event, Greetings
<1>7. ASSUME NEW c \in Conn, ReadMsg(c) PROVE Greetings'
  <2>1. caps' \subseteq caps \cup {c}
    BY <1>7, ReadStep DEF ProcessMsg, HelloMsg, CapsMsg, GetResp, SetResp, AssertFails,
                          FinishHead, Crash, sessionVars, idVars
  <2>2. ~Greets(c)'
    <3>1. PICK k \in 1 .. Len(inbox[c]) :
                 /\ Len(inbox'[c]) = Len(inbox[c]) - k
                 /\ \A i \in 1 .. Len(inbox'[c]) : inbox'[c][i] = inbox[c][i + k]
      BY <1>7, ReadStep
    <3>2. Len(inbox[c]) \in Nat /\ \A i \in 2 .. Len(inbox[c]) : inbox[c][i].msg # "CAPS"
      <4>1. Len(inbox[c]) \in Nat
        BY <1>7, ReadStep
      <4>2. \A i \in 2 .. Len(inbox[c]) : i \in 1 .. Len(inbox[c])
        BY <4>1
      <4> QED BY <4>1, <4>2 DEF Greetings, Greets
    <3>3. ASSUME NEW i \in 1 .. Len(inbox'[c]) PROVE inbox'[c][i].msg # "CAPS"
      <4>1. i + k \in 2 .. Len(inbox[c])
        BY <3>1, <3>2
      <4> QED BY <3>1, <3>2, <4>1
    <3> QED BY <3>3 DEF Greets
  <2>3. ASSUME NEW d \in Conn \ {c}, Greets(d)'
        PROVE  /\ \A i \in 2 .. Len(inbox'[d]) : inbox'[d][i].msg # "CAPS"
               /\ request_list'[d] = <<>>
               /\ d \notin caps' \cup del_mark' \cup hello_due'
               /\ d \in nodes' /\ todo' # {} => Event("IOT", d) \in todo'
    BY <1>7, <2>1, <2>3, ReadStep DEF helloVars, Greetings, Greets, Event
  <2> QED BY <2>2, <2>3 DEF Greetings
<1>8. ASSUME NEW c \in Conn, ReadEnd(c) PROVE Greetings'
  <2>1. ~Greets(c)
    BY <1>8 DEF ReadEnd, Greets
  <2> QED BY <1>8, <1>k, <2>1
          DEF ReadEnd, Disconnect, Handled, Event, queueVars, netVars, helloVars, Greetings
<1>9. ASSUME NEW c \in Conn, ScanSend(c) \/ ScanTimeout(c) PROVE Greetings'
  <2>1. request_list[c] # <<>>
    BY <1>9, <1>t DEF ScanSend, SendHead, ScanTimeout, BusyTimeout, GatewayInv, QueueInv, BusyHeadSent
  <2>2. \A d \in Conn \ {c} : request_list'[d] = request_list[d]
    BY <1>9, <1>t DEF ScanSend, SendHead, ScanTimeout, BusyTimeout, FinishHead, delete_request, TypeOK
  <2>3. UNCHANGED <<nodes, del_mark, caps, inbox, hello_due>>
    BY <1>9 DEF ScanSend, SendHead, ScanTimeout, BusyTimeout, FinishHead, idVars, netVars, helloVars
  <2>4. todo' = todo \ {Event("SCAN", c)}
    BY <1>9 DEF ScanSend, ScanTimeout, Handled
  <2> QED BY <1>k, <2>1, <2>2, <2>3, <2>4 DEF Event, Greetings
<1>10. ASSUME NEW r \in Request, DrainEnqueue(r) PROVE Greetings'
  <2>1. PICK c \in nodes : WorkEnqueue(c, r)
    BY <1>10, <1>t, EnqueueAtNode
  <2>2. c \in Conn /\ ~Greets(c)
    BY <1>10, <1>t, EnqueueAtNode DEF Greetings, TypeOK
  <2>3. \A d \in Conn \ {c} : request_list'[d] = request_list[d]
    BY <2>1, <1>t DEF WorkEnqueue, ENQUEUE_IOT_REQUEST, TypeOK
  <2>4. UNCHANGED <<nodes, del_mark, caps, inbox, hello_due, todo>>
    BY <1>10, <2>1 DEF DrainEnqueue, WorkEnqueue, idVars, netVars, helloVars
  <2> QED BY <1>k, <2>2, <2>3, <2>4 DEF Greetings
<1>11. ASSUME NEW c \in Conn, NEW n \in Name, Connect(c, n) PROVE Greetings'
  <2>1. /\ UNCHANGED <<nodes, del_mark, caps, hello_due, request_list, todo>>
        /\ c \notin nodes /\ inbox[c] = <<>> /\ Len(inbox'[c]) = 1
        /\ \A d \in Conn \ {c} : inbox'[d] = inbox[d]
    BY <1>11, <1>t DEF Connect, Say, NodeStep, sessionVars, idVars, queueVars, helloVars, Links
  <2>2. request_list[c] = <<>>
    BY <2>1, <1>t DEF NoOrphanRequest
  <2> QED BY <2>1, <2>2, <1>t DEF Greetings, Greets
<1>12. ASSUME NEW c \in Conn, Said(c) PROVE Greetings'
  <2>1. UNCHANGED <<nodes, del_mark, caps, hello_due, request_list, todo>>
    BY <1>12 DEF Said, Answer, Volunteer, NodeStep, sessionVars, idVars, queueVars, helloVars
  <2>2. \A d \in Conn \ {c} : inbox'[d] = inbox[d]
    BY <1>12, <1>t DEF Said, Answer, Volunteer, Say
  <2>3. PICK m : inbox'[c] = Append(inbox[c], m) /\ m.msg # "CAPS"
    <3>1. CASE Answer(c)
      <4>1. Head(wire[c]).type # "CAPS"
        <5>1. wire[c] \in Seq(Entry)
          BY DEF GatewayInv, NetTypes
        <5>2. Head(wire[c]) \in Entry
          BY <3>1, <5>1, HeadTailProperties DEF Answer
        <5> QED BY <5>2 DEF Entry
      <4> QED BY <3>1, <4>1, <1>t DEF Answer, Say
    <3>2. CASE \E n \in Name, msg \in Unasked : Volunteer(c, msg, n)
      BY <3>2, <1>t DEF Volunteer, Say
    <3> QED BY <1>12, <3>1, <3>2 DEF Said
  <2>4. /\ Len(inbox'[c]) = Len(inbox[c]) + 1 /\ Len(inbox[c]) \in Nat
        /\ inbox'[c][Len(inbox[c]) + 1].msg # "CAPS"
        /\ \A i \in 1 .. Len(inbox[c]) : inbox'[c][i] = inbox[c][i]
    BY <2>3, <1>t, AppendProperties, LenProperties
  <2>5. ASSUME Greets(c)' PROVE Greets(c) /\ \A i \in 2 .. Len(inbox'[c]) : inbox'[c][i].msg # "CAPS"
    <3>1. Greets(c)
      BY <2>4, <2>5 DEF Greets
    <3>2. \A i \in 2 .. Len(inbox[c]) : inbox[c][i].msg # "CAPS"
      BY <3>1 DEF Greetings
    <3>3. ASSUME NEW i \in 2 .. Len(inbox'[c]) PROVE inbox'[c][i].msg # "CAPS"
      BY <2>4, <3>2
    <3> QED BY <3>1, <3>3
  <2> QED BY <2>1, <2>2, <2>5 DEF Greetings, Greets
<1>13. ASSUME NEW c \in Conn, NEW how, Leave(c, how) PROVE Greetings'
  BY <1>13, <1>q DEF Leave, NodeStep, sessionVars, idVars, queueVars, helloVars
<1> QED BY <1>1, <1>2, <1>3, <1>4, <1>5, <1>6, <1>7, <1>8, <1>9, <1>10, <1>11, <1>12,
           <1>13, QuietSteps

(* A name is up only while a connection that announced it is in good order.  *)
Up == \A n \in Name : view[n] = "up" => \E c \in caps \ del_mark : client_name[c] = n

(* Announcing that c went away leaves the other names as they are.           *)
LEMMA UpAfterDown ==
    ASSUME TypeOK, Up, NEW c \in Conn, Publish("down", c), del_mark' = del_mark \cup {c},
           UNCHANGED <<caps, client_name>>
    PROVE  Up'
<1>1. ASSUME NEW n \in Name, view'[n] = "up"
      PROVE  \E d \in caps' \ del_mark' : client_name'[d] = n
  <2>1. view[n] = "up" /\ client_name[c] # n
    BY <1>1, NullAssumption DEF Publish, TypeOK
  <2> QED BY <2>1 DEF Up
<1> QED BY <1>1 DEF Up

LEMMA UpStep ==
    ASSUME GatewayInv, Greetings, Up, [GatewayNext]_gatewayVars
    PROVE  Up'
<1>t. TypeOK
  BY DEF GatewayInv
<1>s. ASSUME UNCHANGED <<view, caps, del_mark, client_name>> PROVE Up'
  BY <1>s DEF Up
<1>i. ASSUME UNCHANGED idVars PROVE Up'
  BY <1>i, <1>s DEF idVars
<1>1. ASSUME NEW c \in Conn, Gc(c) PROVE Up'
  <2>1. c \in del_mark /\ caps' = caps \ {c} /\ del_mark' = del_mark \ {c} /\ UNCHANGED view
    BY <1>1 DEF Gc, DelEvent
  <2>2. \A d \in Conn \ {c} : client_name'[d] = client_name[d]
    BY <1>1, <1>t DEF Gc, DelEvent, TypeOK
  <2> QED BY <1>t, <2>1, <2>2 DEF Up, TypeOK
<1>2. CASE Listen
  <2>1. PICK c \in Conn : Accept(c)
    BY <1>2 DEF Listen, Backlog
  <2>2. c \notin caps /\ UNCHANGED <<view, caps, del_mark>>
    BY <1>t, <2>1 DEF Accept, TypeOK
  <2>3. \A d \in Conn \ {c} : client_name'[d] = client_name[d]
    BY <1>t, <2>1 DEF Accept, TypeOK
  <2> QED BY <1>t, <2>2, <2>3 DEF Up, TypeOK
<1>3. ASSUME NEW c \in Conn, HelloTimer(c) PROVE Up'
  <2>1. CASE HelloDead(c)
    BY <1>t, <2>1, UpAfterDown DEF HelloDead
  <2>2. CASE HelloTick(c)
    BY <1>i, <2>2 DEF HelloTick
  <2> QED BY <1>3, <2>1, <2>2 DEF HelloTimer
<1>4. ASSUME NEW c \in Conn, ReadEnd(c) PROVE Up'
  BY <1>4, <1>t, UpAfterDown DEF ReadEnd, Disconnect
<1>5. ASSUME NEW c \in Conn, ReadMsg(c) PROVE Up'
  <2>1. ProcessMsg(c, inbox[c][1]) /\ inbox[c][1] \in NodeMessage /\ c \in nodes
    BY <1>5, ReadStep
  <2>2. CASE inbox[c][1].msg = "CAPS" /\ CapsMsg(c, inbox[c][1].name)
    <3> DEFINE n == inbox[c][1].name
    <3>1. n \in Name
      BY <2>1, <2>2 DEF NodeMessage
    <3>2. c \notin caps \cup del_mark
      <4>1. inbox[c] \in Seq(NodeMessage) /\ inbox[c] # <<>>
        BY <1>5, ReadStep
      <4>2. 1 \in 1 .. Len(inbox[c])
        BY <4>1, LenProperties
      <4> QED BY <2>2, <4>2 DEF Greetings, Greets
    <3>3. /\ caps' = caps \cup {c} /\ client_name' = [client_name EXCEPT ![c] = n]
          /\ view' = [view EXCEPT ![n] = "up"] /\ UNCHANGED del_mark
      BY <2>2, <3>1 DEF CapsMsg
    <3> HIDE DEF n
    <3>4. ASSUME NEW m \in Name, view'[m] = "up"
          PROVE  \E d \in caps' \ del_mark' : client_name'[d] = m
      <4>1. CASE m = n
        BY <1>t, <3>2, <3>3, <4>1 DEF TypeOK
      <4>2. CASE m # n
        <5>1. PICK d \in caps \ del_mark : client_name[d] = m
          BY <1>t, <3>3, <3>4, <4>2 DEF Up, TypeOK
        <5> QED BY <1>t, <3>2, <3>3, <5>1 DEF TypeOK
      <4> QED BY <4>1, <4>2
    <3> QED BY <3>4 DEF Up
  <2> QED BY <1>i, <2>1, <2>2 DEF ProcessMsg, HelloMsg, GetResp, SetResp, AssertFails,
                                  FinishHead, Crash, sessionVars
<1>6. ASSUME NEW c \in Conn, ScanSend(c) \/ ScanTimeout(c) PROVE Up'
  BY <1>6, <1>i DEF ScanSend, SendHead, ScanTimeout, BusyTimeout, FinishHead
<1>7. ASSUME NEW r \in Request, DrainEnqueue(r) PROVE Up'
  BY <1>7, <1>i DEF DrainEnqueue, WorkEnqueue
<1>8. CASE Quiet \/ Select \/ Tick
  BY <1>8, <1>i DEF Quiet, Select, Tick, sessionVars
<1>9. ASSUME NodeStep PROVE Up'
  BY <1>9, <1>i DEF NodeStep, sessionVars
<1> QED BY <1>1, <1>2, <1>3, <1>4, <1>5, <1>6, <1>7, <1>8, <1>9, QuietSteps
        DEF Said, Answer, Volunteer, Connect, Leave

(* What holds between the greeting of a node and what is announced of it.    *)
GreetingInv == GatewayInv /\ Links /\ Events /\ Greetings /\ Up

LEMMA GreetingStart == GatewayInit => GreetingInv
<1> SUFFICES ASSUME GatewayInit PROVE GreetingInv
  OBVIOUS
<1>1. Links /\ Events
  BY DEF GatewayInit, Init, Links, Events
<1>2. Greetings
  <2>1. \A c \in Conn : Len(inbox[c]) = 0
    BY EmptySeq DEF GatewayInit
  <2> QED BY <2>1 DEF Greetings, Greets
<1>3. Up
  BY DEF GatewayInit, Init, Up
<1> QED BY <1>1, <1>2, <1>3, GatewayStart DEF GreetingInv

LEMMA GreetingStep ==
    ASSUME "CAPS" \notin Unasked, GreetingInv, [GatewayNext]_gatewayVars
    PROVE  GreetingInv'
BY GatewayStep, LinksStep, EventsStep, GreetingsStep, UpStep DEF GreetingInv

(* Whoever believes the broadcasts finds every node that is up in            *)
(* events_list: the connection that was announced last is the one whose end  *)
(* is announced, however connections, hello timers and names follow each     *)
(* other, provided that a node sends its CAPS only when it connects.         *)
THEOREM UpNodesAreConnected ==
    ASSUME "CAPS" \notin Unasked
    PROVE  GatewaySafety => []UpIsConnected
<1>1. GatewayInit => GreetingInv
  BY GreetingStart
<1>2. GreetingInv /\ [GatewayNext]_gatewayVars => GreetingInv'
  BY GreetingStep
<1>3. GreetingInv => UpIsConnected
  BY DEF GreetingInv, GatewayInv, TypeOK, Up, UpIsConnected, KnownNames
<1> QED BY <1>1, <1>2, <1>3, PTL DEF GatewaySafety

(***************************************************************************)
(* The conversation with a node                                             *)
(***************************************************************************)

(* Where the answers are among the messages of a node.                      *)
Answers(box) == {i \in 1 .. Len(box) : box[i].msg \in {"HELLO", "GET", "SET"}}

(* The conversation with one node: its list q and state w, the requests out  *)
(* that it was written, its messages box, and how long ago the head was      *)
(* sent.  What is on its way, in either direction, is about the head of the  *)
(* list of a BUSY node, and there is one of it.                             *)
Talk(q, w, out, box, a) ==
    /\ out # <<>> \/ Answers(box) # {} => w = "BUSY" /\ q # <<>> /\ a <= MaxDelay
    /\ out # <<>> => /\ Len(out) = 1 /\ Answers(box) = {}
                     /\ out[1].type = q[1].type /\ out[1].data = q[1].data
    /\ \A i \in Answers(box) : /\ Answers(box) = {i}
                               /\ box[i].msg = q[1].type /\ box[i].of = q[1].data

Conversation ==
    \A c \in Conn : Talk(request_list[c], work_state[c], wire[c], inbox[c], age[c])

(* With nothing on its way there is nothing to get wrong.                    *)
LEMMA TalkSilent ==
    ASSUME NEW q, NEW w, NEW box, NEW a, Answers(box) = {}
    PROVE  Talk(q, w, <<>>, box, a)
BY DEF Talk

(* Queueing a request does not change what the node is asked.                *)
LEMMA TalkAppend ==
    ASSUME NEW q \in Seq(Entry), NEW w, NEW out, NEW box, NEW a, NEW e \in Entry,
           Talk(q, w, out, box, a)
    PROVE  Talk(Append(q, e), w, out, box, a)
<1>1. Append(q, e) # <<>> /\ (q # <<>> => Append(q, e)[1] = q[1])
  BY AppendProperties, EmptySeq, LenProperties
<1> QED BY <1>1 DEF Talk

(* A node says something that is not an answer.                             *)
LEMMA AnswersAppend ==
    ASSUME NEW box \in Seq(NodeMessage), NEW m \in NodeMessage
    PROVE  Answers(Append(box, m)) = IF m.msg \in {"HELLO", "GET", "SET"}
                                     THEN Answers(box) \cup {Len(box) + 1}
                                     ELSE Answers(box)
<1>1. /\ Len(Append(box, m)) = Len(box) + 1 /\ Len(box) \in Nat
      /\ \A i \in 1 .. Len(box) : Append(box, m)[i] = box[i]
      /\ Append(box, m)[Len(box) + 1] = m
  BY AppendProperties, LenProperties
<1>2. 1 .. Len(box) + 1 = 1 .. Len(box) \cup {Len(box) + 1}
  BY <1>1
<1>3. \A i \in 1 .. Len(box) : Append(box, m)[i] = box[i]
  BY <1>1
<1> QED BY <1>1, <1>2, <1>3 DEF Answers

LEMMA TalkHears ==
    ASSUME NEW q, NEW w, NEW out, NEW box \in Seq(NodeMessage), NEW a,
           NEW m \in NodeMessage, m.msg \notin {"HELLO", "GET", "SET"},
           Talk(q, w, out, box, a)
    PROVE  Talk(q, w, out, Append(box, m), a)
<1>1. Answers(Append(box, m)) = Answers(box)
  BY AnswersAppend
<1>2. \A i \in Answers(box) : Append(box, m)[i] = box[i]
  BY AppendProperties DEF Answers
<1> QED BY <1>1, <1>2 DEF Talk

(* The node answers what it was asked.                                      *)
LEMMA TalkAnswers ==
    ASSUME NEW q, NEW w, NEW out \in Seq(Entry), NEW box \in Seq(NodeMessage), NEW a,
           out # <<>>, Talk(q, w, out, box, a), NEW m \in NodeMessage,
           m.msg = Head(out).type, m.of = Head(out).data
    PROVE  Talk(q, w, Tail(out), Append(box, m), a)
<1>1. Head(out) = out[1] /\ out[1] \in Entry /\ Tail(out) \in Seq(Entry) /\ Len(Tail(out)) = Len(out) - 1
  BY HeadTailProperties
<1>2. Tail(out) = <<>>
  BY <1>1, EmptySeq DEF Talk
<1>3. Answers(Append(box, m)) = {Len(box) + 1}
  BY <1>1, AnswersAppend DEF Talk, Entry
<1>4. Append(box, m)[Len(box) + 1] = m
  BY AppendProperties
<1> QED BY <1>1, <1>2, <1>3, <1>4 DEF Talk

(* The gateway takes k messages off the box.                                *)
Taken(box, new, k) ==
    /\ k \in 1 .. Len(box)
    /\ Len(new) = Len(box) - k
    /\ \A i \in 1 .. Len(new) : new[i] = box[i + k]

LEMMA AnswersLeft ==
    ASSUME NEW box \in Seq(NodeMessage), NEW new \in Seq(NodeMessage), NEW k, Taken(box, new, k)
    PROVE  /\ \A i \in Answers(new) : i + k \in Answers(box) /\ i + k # 1 /\ new[i] = box[i + k]
           /\ \A i \in Answers(new) : i \in Nat
<1>1. Len(box) \in Nat /\ Len(new) \in Nat
  BY LenProperties
<1>2. ASSUME NEW i \in 1 .. Len(new) PROVE i + k \in 1 .. Len(box) /\ i + k # 1 /\ new[i] = box[i + k]
  BY <1>1 DEF Taken
<1> QED BY <1>1, <1>2 DEF Answers

LEMMA TalkTakes ==
    ASSUME NEW q, NEW w, NEW out, NEW box \in Seq(NodeMessage), NEW a,
           Talk(q, w, out, box, a), NEW new \in Seq(NodeMessage), NEW k, Taken(box, new, k)
    PROVE  /\ Talk(q, w, out, new, a)
           /\ 1 \in Answers(box) => Answers(new) = {}
<1>1. k \in Nat
  BY LenProperties DEF Taken
<1>2. \A i, j \in Answers(new) : i = j
  BY <1>1, AnswersLeft DEF Talk
<1>3. Answers(new) # {} => Answers(box) # {}
  BY AnswersLeft
<1>4. \A i \in Answers(new) : new[i].msg = q[1].type /\ new[i].of = q[1].data
  BY AnswersLeft DEF Talk
<1>5. 1 \in Answers(box) => Answers(new) = {}
  BY AnswersLeft DEF Talk
<1> QED BY <1>2, <1>3, <1>4, <1>5 DEF Talk

(* A HELLO carries no request, every other entry carries one.                *)
LabelledEntry == {e \in Entry : IF e.type = "HELLO" THEN e.data = NULL ELSE e.data \in Request}

Labelled == request_list \in [Conn -> Seq(LabelledEntry)]

(* A node that is not waited for but has a sent head has closed its          *)
(* connection.                                                              *)
SentFree == \A c \in Conn :
    work_state[c] = "FREE" /\ request_list[c] # <<>> /\ request_list[c][1].status = "SENT"
        => link[c] = "closed"

(* The head of a list is its first element.                                 *)
LEMMA HeadIsFirst ==
    ASSUME NEW S, NEW s \in Seq(S), s # <<>>
    PROVE  Head(s) = s[1] /\ s[1] \in S /\ Tail(s) \in Seq(S)
BY HeadTailProperties

(* An answer that is read is the one that is expected: no assertion fails,   *)
(* nothing is dereferenced that is not there, and the head goes.             *)
LEMMA AnswerRead ==
    ASSUME GatewayInv, Labelled, Conversation, NEW c \in Conn, ReadMsg(c),
           inbox[c][1].msg \in {"HELLO", "GET", "SET"}
    PROVE  /\ request_list[c] # <<>> /\ work_state[c] = "BUSY"
           /\ wire[c] = <<>> /\ Answers(inbox'[c]) = {}
           /\ FinishHead(c)
           /\ IF inbox[c][1].msg = "HELLO"
              THEN /\ hello_count' = [hello_count EXCEPT ![c] = HELLO_COUNT_DEFAULT]
                   /\ request_list[c][1].type = "HELLO"
                   /\ UNCHANGED told
              ELSE /\ UNCHANGED hello_count
                   /\ request_list[c][1].type # "HELLO"
                   /\ request_list[c][1].data \in Request
                   /\ told' = [told EXCEPT ![request_list[c][1].data] = request_list[c][1].data]
<1> DEFINE m == inbox[c][1]
<1>1. /\ inbox[c] \in Seq(NodeMessage) /\ inbox[c] # <<>> /\ inbox'[c] \in Seq(NodeMessage)
      /\ m \in NodeMessage /\ ProcessMsg(c, m) /\ Len(inbox[c]) \in Nat
      /\ \E k : Taken(inbox[c], inbox'[c], k)
  BY ReadStep DEF Taken
<1>2. 1 \in Answers(inbox[c])
  BY <1>1, EmptySeq DEF Answers
<1>3. /\ work_state[c] = "BUSY" /\ request_list[c] # <<>> /\ wire[c] = <<>>
      /\ m.msg = request_list[c][1].type /\ m.of = request_list[c][1].data
  BY <1>2 DEF Conversation, Talk
<1>4. Answers(inbox'[c]) = {}
  BY <1>1, <1>2, TalkTakes DEF Conversation
<1>5. /\ Head(request_list[c]) = request_list[c][1]
      /\ request_list[c][1] \in LabelledEntry
  BY <1>3, HeadIsFirst DEF Labelled
<1>6. Head(request_list[c]).status = "SENT"
  BY <1>3 DEF GatewayInv, QueueInv, BusyHeadSent
<1> HIDE DEF m
<1>7. Running
  BY DEF ReadMsg, At
<1>8. Expected(c, m.msg) /\ AssertsPass(c, m.msg)
  BY <1>3, <1>5, <1>6 DEF Expected, AssertsPass
<1>9. CASE m.msg = "HELLO"
  <2>1. HelloMsg(c) /\ UNCHANGED told
    BY <1>1, <1>9 DEF ProcessMsg
  <2>2. FinishHead(c) /\ hello_count' = [hello_count EXCEPT ![c] = HELLO_COUNT_DEFAULT]
    BY <1>3, <1>8, <1>9, <2>1 DEF HelloMsg
  <2> QED BY <1>3, <1>4, <1>9, <2>1, <2>2 DEF m
<1>10. CASE m.msg \in {"GET", "SET"}
  <2>1. request_list[c][1].data \in Request /\ request_list[c][1].type # "HELLO"
    BY <1>3, <1>5, <1>10 DEF LabelledEntry
  <2>2. HasReqData(c)
    BY <1>3, <1>5, <2>1, NullAssumption DEF HasReqData
  <2>3. FinishHead(c) /\ UNCHANGED hello_count
    BY <1>1, <1>3, <1>8, <1>10, <2>2 DEF ProcessMsg, GetResp, SetResp
  <2>4. Running'
    BY <1>7, <2>3 DEF FinishHead, Running
  <2>5. told' = [told EXCEPT ![request_list[c][1].data] = request_list[c][1].data]
    BY <1>1, <1>3, <1>5, <1>10, <2>2, <2>4 DEF ProcessMsg
  <2> QED BY <1>3, <1>4, <1>10, <2>1, <2>3, <2>5 DEF m
<1> QED BY <1>9, <1>10 DEF m

(* Any other message leaves the lists alone, and a CAPS that sets the node   *)
(* FREE finds an empty list.                                                *)
LEMMA OtherRead ==
    ASSUME GatewayInv, Greetings, NEW c \in Conn, ReadMsg(c),
           inbox[c][1].msg \notin {"HELLO", "GET", "SET"}
    PROVE  /\ UNCHANGED <<queueVars, hello_count, told, proc>>
           /\ \/ UNCHANGED work_state
              \/ /\ request_list[c] = <<>>
                 /\ work_state' = [work_state EXCEPT ![c] = "FREE"]
<1>1. /\ inbox[c] \in Seq(NodeMessage) /\ inbox[c] # <<>> /\ Len(inbox[c]) \in Nat
      /\ ProcessMsg(c, inbox[c][1])
  BY ReadStep
<1>2. CASE inbox[c][1].msg = "CAPS" /\ CapsMsg(c, inbox[c][1].name) /\ UNCHANGED told
  <2>1. 1 \in 1 .. Len(inbox[c])
    BY <1>1, EmptySeq
  <2>2. request_list[c] = <<>>
    BY <1>2, <2>1 DEF Greetings, Greets
  <2> QED BY <1>2, <2>2 DEF CapsMsg
<1> QED BY <1>1, <1>2 DEF ProcessMsg, sessionVars

(* What a connection's conversation is made of.                             *)
LEMMA ConversationStep ==
    ASSUME "CAPS" \notin Unasked, MaxDelay < BusyLimit,
           GatewayInv, Links, Events, Greetings, Labelled, Conversation,
           [GatewayNext]_gatewayVars
    PROVE  Conversation'
<1>t. /\ inbox \in [Conn -> Seq(NodeMessage)] /\ wire \in [Conn -> Seq(Entry)]
      /\ link \in [Conn -> {"free", "open", "closed", "dead"}]
      /\ age \in [Conn -> 0 .. BusyLimit] /\ TypeOK /\ QueueInv /\ LoopTypes
      /\ request_list \in [Conn -> Seq(Entry)] /\ work_state \in [Conn -> {"BUSY", "FREE"}]
  BY DEF GatewayInv, NetTypes, ClockTypes, TypeOK
<1>z. MaxDelay \in Nat /\ BusyLimit \in Nat
  BY DelayAssumption, ClockAssumption
<1> DEFINE Talks(c) == Talk(request_list[c], work_state[c], wire[c], inbox[c], age[c])
           Talks1(c) == Talk(request_list'[c], work_state'[c], wire'[c], inbox'[c], age'[c])
           Same(c) == /\ request_list'[c] = request_list[c] /\ work_state'[c] = work_state[c]
                      /\ wire'[c] = wire[c] /\ inbox'[c] = inbox[c] /\ age'[c] = age[c]
<1>c. \A c \in Conn : Talks(c)
  BY DEF Conversation
<1>s. ASSUME NEW c \in Conn, Same(c) PROVE Talks1(c)
  BY <1>s, <1>c
<1>q. SUFFICES \A c \in Conn : Talks1(c)
  BY DEF Conversation
<1>o. ASSUME NEW c \in Conn, \A d \in Conn \ {c} : Same(d), Talks1(c) PROVE \A d \in Conn : Talks1(d)
  BY <1>o, <1>s
<1>f. ASSUME NEW c \in Conn, work_state[c] = "FREE" PROVE wire[c] = <<>> /\ Answers(inbox[c]) = {}
  BY <1>f, <1>c DEF Talk
<1>1. ASSUME NEW c \in Conn, Gc(c) PROVE \A d \in Conn : Talks1(d)
  <2>1. \A d \in Conn \ {c} : Same(d)
    BY <1>1, <1>t DEF Gc, DelEvent, del_node_requests
  <2>2. wire'[c] = <<>> /\ inbox'[c] = <<>>
    BY <1>1, <1>t DEF Gc
  <2>3. Answers(inbox'[c]) = {}
    BY <2>2, EmptySeq DEF Answers
  <2>4. Talks1(c)
    BY <2>2, <2>3, TalkSilent
  <2> QED BY <1>o, <2>1, <2>4
<1>2. CASE Listen
  <2>1. PICK c \in Conn : c \notin nodes /\ Accept(c)
    BY <1>2 DEF Listen, Backlog
  <2>2. work_state[c] = "FREE"
    BY <1>t, <2>1 DEF QueueInv, BusyHeadSent, NoOrphanRequest
  <2>3. \A d \in Conn \ {c} : Same(d)
    BY <1>2, <1>t, <2>1 DEF Listen, Accept, queueVars, netVars
  <2>4. wire'[c] = <<>> /\ Answers(inbox'[c]) = {}
    BY <1>2, <1>f, <2>2 DEF Listen, netVars
  <2>5. Talks1(c)
    BY <2>4, TalkSilent
  <2> QED BY <1>o, <2>3, <2>5
<1>3. CASE Tick
  <2>1. /\ UNCHANGED <<request_list, work_state, wire, inbox>>
        /\ \A c \in Conn : age'[c] = IF work_state[c] = "BUSY" /\ age[c] < BusyLimit
                                     THEN age[c] + 1 ELSE age[c]
        /\ \A c \in Conn : link[c] = "open" /\ wire[c] # <<>> => age[c] < MaxDelay
        /\ Ready = {}
    BY <1>3, <1>t DEF Tick, sessionVars, queueVars
  <2>2. ASSUME NEW c \in Conn PROVE Talks1(c)
    <3>1. CASE wire[c] # <<>>
      <4>1. age[c] < MaxDelay
        BY <2>1, <3>1 DEF Links
      <4>2. age'[c] <= MaxDelay
        <5>1. age[c] \in 0 .. BusyLimit
          BY <1>t
        <5>2. age'[c] = age[c] \/ age'[c] = age[c] + 1
          BY <2>1
        <5> QED BY <1>z, <4>1, <5>1, <5>2
      <4> QED BY <1>c, <2>1, <4>2 DEF Talk
    <3>2. CASE wire[c] = <<>> /\ Answers(inbox[c]) # {}
      <4>1. c \in nodes
        BY <1>c, <1>t, <3>2 DEF Talk, QueueInv, NoOrphanRequest
      <4>2. inbox[c] = <<>>
        BY <2>1, <4>1, NothingReady
      <4> QED BY <3>2, <4>2, EmptySeq DEF Answers
    <3>3. CASE wire[c] = <<>> /\ Answers(inbox[c]) = {}
      BY <2>1, <3>3, TalkSilent
    <3> QED BY <3>1, <3>2, <3>3
  <2> QED BY <2>2
<1>4. CASE Quiet \/ Select
  BY <1>4, <1>s DEF Quiet, Select, sessionVars, queueVars, netVars
<1>5. ASSUME NEW c \in Conn, HelloTimer(c) PROVE \A d \in Conn : Talks1(d)
  <2>1. UNCHANGED <<work_state, wire, inbox, age>>
    BY <1>5 DEF HelloTimer, HelloDead, HelloTick, netVars
  <2>2. CASE HelloDead(c)
    BY <1>s, <2>1, <2>2 DEF HelloDead, queueVars
  <2>3. CASE HelloTick(c)
    <3>1. request_list' = [request_list EXCEPT ![c] = Append(@, HelloEntry)]
      BY <2>3 DEF HelloTick, ENQUEUE_IOT_REQUEST
    <3>2. \A d \in Conn \ {c} : Same(d)
      BY <1>t, <2>1, <3>1
    <3>3. Talks1(c)
      <4>1. request_list'[c] = Append(request_list[c], HelloEntry)
        BY <1>t, <3>1
      <4>2. Talk(Append(request_list[c], HelloEntry), work_state[c], wire[c], inbox[c], age[c])
        BY <1>c, <1>t, TalkAppend, EntryTypes
      <4> QED BY <2>1, <4>1, <4>2
    <3> QED BY <1>o, <3>2, <3>3
  <2> QED BY <1>5, <2>2, <2>3 DEF HelloTimer
<1>6. ASSUME NEW c \in Conn, ReadMsg(c) PROVE \A d \in Conn : Talks1(d)
  <2>1. /\ \A d \in Conn \ {c} : Same(d)
        /\ wire'[c] = wire[c] /\ age'[c] = age[c]
        /\ inbox[c] \in Seq(NodeMessage) /\ inbox'[c] \in Seq(NodeMessage)
    BY <1>6, ReadStep
  <2>2. PICK k : Taken(inbox[c], inbox'[c], k)
    BY <1>6, ReadStep DEF Taken
  <2>3. Talk(request_list[c], work_state[c], wire[c], inbox'[c], age[c])
    <3>1. Talk(request_list[c], work_state[c], wire[c], inbox[c], age[c])
      BY <1>c
    <3> QED BY <2>1, <2>2, <3>1, TalkTakes
  <2>4. Talks1(c)
    <3>1. CASE inbox[c][1].msg \in {"HELLO", "GET", "SET"}
      <4>1. wire'[c] = <<>> /\ Answers(inbox'[c]) = {}
        BY <1>6, <2>1, <3>1, AnswerRead
      <4> QED BY <4>1, TalkSilent
    <3>2. CASE inbox[c][1].msg \notin {"HELLO", "GET", "SET"}
      <4>1. request_list'[c] = request_list[c]
        BY <1>6, <3>2, OtherRead DEF queueVars
      <4>2. CASE work_state'[c] = work_state[c]
        BY <2>1, <2>3, <4>1, <4>2
      <4>3. CASE request_list[c] = <<>>
        <5>1. wire[c] = <<>> /\ Answers(inbox'[c]) = {}
          BY <2>3, <4>3 DEF Talk
        <5> QED BY <2>1, <5>1, TalkSilent
      <4> QED BY <1>6, <3>2, <4>2, <4>3, OtherRead
    <3> QED BY <3>1, <3>2
  <2> QED BY <1>o, <2>1, <2>4
<1>7. ASSUME NEW c \in Conn, ReadEnd(c) PROVE \A d \in Conn : Talks1(d)
  <2>1. inbox[c] = <<>> /\ link[c] = "closed"
    BY <1>7 DEF ReadEnd, At, Events
  <2>2. wire[c] = <<>> /\ Answers(inbox[c]) = {}
    BY <2>1, EmptySeq DEF Links, Answers
  <2>3. /\ UNCHANGED <<request_list, wire, inbox, age>>
        /\ work_state' = [work_state EXCEPT ![c] = "FREE"]
    BY <1>7 DEF ReadEnd, Disconnect, queueVars, netVars
  <2>4. Talks1(c)
    BY <2>2, <2>3, TalkSilent
  <2> QED BY <1>o, <1>t, <2>3, <2>4
<1>8. ASSUME NEW c \in Conn, ScanSend(c) PROVE \A d \in Conn : Talks1(d)
  <2>1. /\ work_state[c] = "FREE" /\ request_list[c] # <<>> /\ UNCHANGED inbox
        /\ \A d \in Conn \ {c} : Same(d)
    BY <1>8, <1>t DEF ScanSend, SendHead
  <2>2. wire[c] = <<>> /\ Answers(inbox'[c]) = {}
    BY <1>f, <2>1
  <2> DEFINE e == Head(request_list[c])
  <2>3. e \in Entry /\ age'[c] = 0
    BY <1>8, <1>t, <2>1, HeadIsFirst DEF ScanSend
  <2>4. ASSUME wire'[c] = <<>> PROVE Talks1(c)
    BY <2>2, <2>4, TalkSilent
  <2>5. ASSUME wire'[c] # <<>> PROVE Talks1(c)
    <3>1. wire'[c] = Append(<<>>, e) /\ proc' = "running"
      BY <1>8, <1>t, <2>2, <2>5 DEF ScanSend, Running
    <3>2. wire'[c] = <<e>>
      BY <3>1
    <3>3. /\ request_list' = [request_list EXCEPT ![c] = MarkSent(@)]
          /\ work_state' = [work_state EXCEPT ![c] = "BUSY"]
      BY <1>8, <3>1 DEF ScanSend, SendHead
    <3>4. /\ request_list'[c] # <<>> /\ request_list'[c] \in Seq(Entry)
          /\ Head(request_list'[c]).type = e.type /\ Head(request_list'[c]).data = e.data
      <4>1. request_list[c] \in Seq(Entry) /\ request_list'[c] = MarkSent(request_list[c])
        BY <1>t, <3>3
      <4>2. /\ MarkSent(request_list[c]) # <<>> /\ MarkSent(request_list[c]) \in Seq(Entry)
            /\ Head(MarkSent(request_list[c])) = [e EXCEPT !.status = "SENT"]
        BY <2>1, <4>1, SentHead
      <4> HIDE DEF e
      <4> QED BY <2>3, <4>1, <4>2 DEF Entry
    <3>5. request_list'[c][1].type = e.type /\ request_list'[c][1].data = e.data
      BY <3>4, HeadIsFirst
    <3>6. Len(wire'[c]) = 1 /\ wire'[c][1] = e
      BY <3>2
    <3> QED BY <1>t, <1>z, <2>2, <2>3, <3>3, <3>4, <3>5, <3>6 DEF Talk
  <2> QED BY <1>o, <2>1, <2>4, <2>5
<1>9. ASSUME NEW c \in Conn, ScanTimeout(c) PROVE \A d \in Conn : Talks1(d)
  <2>1. /\ \A d \in Conn \ {c} : Same(d)
        /\ age[c] >= BusyLimit /\ wire'[c] = wire[c] /\ inbox'[c] = inbox[c]
    BY <1>9, <1>t DEF ScanTimeout, BusyTimeout, FinishHead, delete_request, netVars
  <2>2. wire[c] = <<>> /\ Answers(inbox[c]) = {}
    BY <1>c, <1>t, <1>z, <2>1 DEF Talk
  <2>3. Talks1(c)
    BY <2>1, <2>2, TalkSilent
  <2> QED BY <1>o, <2>1, <2>3
<1>10. ASSUME NEW r \in Request, DrainEnqueue(r) PROVE \A d \in Conn : Talks1(d)
  <2>1. PICK c \in nodes : WorkEnqueue(c, r)
    BY <1>10, <1>t, EnqueueAtNode
  <2>2. c \in Conn /\ request_list' = [request_list EXCEPT ![c] = Append(@, MqttEntry(r))]
    BY <1>t, <2>1 DEF TypeOK, WorkEnqueue, ENQUEUE_IOT_REQUEST
  <2>3. UNCHANGED <<work_state, wire, inbox, age>>
    BY <1>10, <2>1 DEF DrainEnqueue, WorkEnqueue, netVars
  <2>4. \A d \in Conn \ {c} : Same(d)
    BY <1>t, <2>2, <2>3
  <2>5. Talks1(c)
    BY <1>c, <1>t, <2>2, <2>3, TalkAppend, EntryTypes
  <2> QED BY <1>o, <2>2, <2>4, <2>5
<1>11. ASSUME NEW c \in Conn, NEW n \in Name, \/ Connect(c, n)
                                             \/ \E msg \in Unasked : Volunteer(c, msg, n)
       PROVE  \A d \in Conn : Talks1(d)
  <2>1. UNCHANGED <<request_list, work_state, wire, age>>
    BY <1>11 DEF Connect, Volunteer, NodeStep, sessionVars, queueVars
  <2>2. PICK m \in NodeMessage : m.msg \in {"NOTIF", "CAPS"}
                                 /\ inbox' = [inbox EXCEPT ![c] = Append(@, m)]
    <3>1. ASSUME NEW msg \in {"NOTIF", "CAPS"}, Say(c, msg, NULL, n)
          PROVE  \E m \in NodeMessage : m.msg \in {"NOTIF", "CAPS"}
                                        /\ inbox' = [inbox EXCEPT ![c] = Append(@, m)]
      <4>1. [msg |-> msg, of |-> NULL, name |-> n] \in NodeMessage
        BY DEF NodeMessage, Message
      <4> QED BY <3>1, <4>1 DEF Say
    <3> QED BY <1>11, <3>1, UnaskedAssumption DEF Connect, Volunteer
  <2>3. \A d \in Conn \ {c} : Same(d)
    BY <1>t, <2>1, <2>2
  <2>4. Talks1(c)
    BY <1>c, <1>t, <2>1, <2>2, TalkHears
  <2> QED BY <1>o, <2>3, <2>4
<1>12. ASSUME NEW c \in Conn, Answer(c) PROVE \A d \in Conn : Talks1(d)
  <2>1. UNCHANGED <<request_list, work_state, age>>
    BY <1>12 DEF Answer, NodeStep, sessionVars, queueVars
  <2> DEFINE m == [msg |-> Head(wire[c]).type, of |-> Head(wire[c]).data, name |-> NULL]
  <2>2. m \in NodeMessage
    <3>1. Head(wire[c]) \in Entry
      <4>1. wire[c] \in Seq(Entry) /\ wire[c] # <<>>
        BY <1>12, <1>t DEF Answer
      <4> QED BY <4>1, HeadTailProperties
    <3> QED BY <3>1 DEF Entry, NodeMessage, Message
  <2>3. /\ wire[c] # <<>> /\ wire' = [wire EXCEPT ![c] = Tail(@)]
        /\ inbox' = [inbox EXCEPT ![c] = Append(@, m)]
        /\ m.msg = Head(wire[c]).type /\ m.of = Head(wire[c]).data
    BY <1>12 DEF Answer, Say
  <2> HIDE DEF m
  <2>4. \A d \in Conn \ {c} : Same(d)
    BY <1>t, <2>1, <2>3
  <2>5. Talks1(c)
    BY <1>c, <1>t, <2>1, <2>2, <2>3, TalkAnswers
  <2> QED BY <1>o, <2>4, <2>5
<1>13. ASSUME NEW c \in Conn, NEW how, Leave(c, how) PROVE \A d \in Conn : Talks1(d)
  <2>1. UNCHANGED <<request_list, work_state, age, inbox>> /\ wire' = [wire EXCEPT ![c] = <<>>]
    BY <1>13 DEF Leave, NodeStep, sessionVars, queueVars
  <2>2. Talks1(c)
    BY <1>c, <1>t, <2>1 DEF Talk
  <2> QED BY <1>o, <1>t, <2>1, <2>2
<1> QED BY <1>1, <1>2, <1>3, <1>4, <1>5, <1>6, <1>7, <1>8, <1>9, <1>10, <1>11, <1>12,
           <1>13, QuietSteps DEF Said

(* Every entry that is queued says what it is.                               *)
LEMMA LabelledStep ==
    ASSUME GatewayInv, Greetings, Labelled, Conversation, [GatewayNext]_gatewayVars
    PROVE  Labelled'
<1> USE DEF Labelled
<1>s. CASE UNCHANGED request_list
  BY <1>s
<1>a. ASSUME NEW c \in Conn, NEW e \in LabelledEntry,
             request_list' = [request_list EXCEPT ![c] = Append(@, e)]
      PROVE  Labelled'
  <2>1. Append(request_list[c], e) \in Seq(LabelledEntry)
    BY AppendProperties
  <2> QED BY <1>a, <2>1
<1>f. ASSUME NEW c \in Conn, request_list[c] # <<>>, FinishHead(c) PROVE Labelled'
  <2>1. Tail(request_list[c]) \in Seq(LabelledEntry)
    BY <1>f, HeadIsFirst
  <2> QED BY <1>f, <2>1 DEF FinishHead, delete_request
<1>e. HelloEntry \in LabelledEntry /\ \A r \in Request : MqttEntry(r) \in LabelledEntry
  BY EntryTypes DEF LabelledEntry, HelloEntry, MqttEntry
<1>1. ASSUME NEW c \in Conn, Gc(c) PROVE Labelled'
  BY <1>1, EmptySeq DEF Gc, DelEvent, del_node_requests
<1>2. CASE Quiet \/ Select \/ Tick \/ Listen
  BY <1>2, <1>s DEF Quiet, Select, Tick, Listen, Accept, sessionVars, queueVars
<1>3. ASSUME NEW c \in Conn, HelloTimer(c) PROVE Labelled'
  BY <1>3, <1>s, <1>a, <1>e
     DEF HelloTimer, HelloDead, HelloTick, ENQUEUE_IOT_REQUEST, queueVars
<1>4. ASSUME NEW c \in Conn, ReadMsg(c) PROVE Labelled'
  BY <1>4, <1>s, <1>f, AnswerRead, OtherRead DEF queueVars
<1>5. ASSUME NEW c \in Conn, ReadEnd(c) PROVE Labelled'
  BY <1>5, <1>s DEF ReadEnd, Disconnect, queueVars
<1>6. ASSUME NEW c \in Conn, ScanSend(c) PROVE Labelled'
  <2>1. request_list[c] \in Seq(LabelledEntry) /\ request_list[c] # <<>>
    BY <1>6 DEF ScanSend, SendHead
  <2>2. MarkSent(request_list[c]) \in Seq(LabelledEntry)
    <3> DEFINE h == [request_list[c][1] EXCEPT !.status = "SENT"]
    <3>1. request_list[c][1] \in LabelledEntry /\ 1 \in 1 .. Len(request_list[c])
      BY <2>1, HeadIsFirst, EmptySeq, LenProperties
    <3>2. h \in LabelledEntry
      BY <3>1 DEF LabelledEntry, Entry
    <3>3. [request_list[c] EXCEPT ![1] = h] \in Seq(LabelledEntry)
      BY <2>1, <3>1, <3>2, ExceptSeq
    <3> QED BY <3>3 DEF MarkSent
  <2>3. UNCHANGED request_list \/ request_list' = [request_list EXCEPT ![c] = MarkSent(@)]
    BY <1>6 DEF ScanSend, SendHead
  <2> QED BY <2>2, <2>3
<1>7. ASSUME NEW c \in Conn, ScanTimeout(c) PROVE Labelled'
  <2>1. request_list[c] # <<>> /\ FinishHead(c)
    BY <1>7 DEF ScanTimeout, BusyTimeout, GatewayInv, QueueInv, BusyHeadSent
  <2> QED BY <1>f, <2>1
<1>8. ASSUME NEW r \in Request, DrainEnqueue(r) PROVE Labelled'
  <2>1. PICK c \in Conn : WorkEnqueue(c, r)
    BY <1>8, EnqueueAtNode DEF GatewayInv, TypeOK
  <2> QED BY <1>a, <1>e, <2>1 DEF WorkEnqueue, ENQUEUE_IOT_REQUEST
<1>9. ASSUME NodeStep PROVE Labelled'
  BY <1>9, <1>s DEF NodeStep, sessionVars, queueVars
<1> QED BY <1>1, <1>2, <1>3, <1>4, <1>5, <1>6, <1>7, <1>8, <1>9, QuietSteps
        DEF Said, Answer, Volunteer, Connect, Leave

(* A node that is set FREE has nothing sent at the head, unless it is gone.  *)
LEMMA SentFreeStep ==
    ASSUME GatewayInv, Links, Events, Greetings, Labelled, Conversation, SentFree,
           [GatewayNext]_gatewayVars
    PROVE  SentFree'
<1>t. /\ link \in [Conn -> {"free", "open", "closed", "dead"}]
      /\ TypeOK /\ QueueInv /\ LoopTypes
      /\ request_list \in [Conn -> Seq(Entry)] /\ work_state \in [Conn -> {"BUSY", "FREE"}]
  BY DEF GatewayInv, ClockTypes, TypeOK
<1> DEFINE Fine(c) == work_state'[c] = "FREE" /\ request_list'[c] # <<>>
                          /\ request_list'[c][1].status = "SENT" => link'[c] = "closed"
           Same(c) == /\ request_list'[c] = request_list[c] /\ work_state'[c] = work_state[c]
                      /\ link[c] = "closed" => link'[c] = "closed"
<1>s. ASSUME NEW c \in Conn, Same(c) PROVE Fine(c)
  BY <1>s DEF SentFree
<1>q. SUFFICES \A c \in Conn : Fine(c)
  BY DEF SentFree
<1>o. ASSUME NEW c \in Conn, \A d \in Conn \ {c} : Same(d), Fine(c) PROVE \A d \in Conn : Fine(d)
  BY <1>o, <1>s
<1>a. ASSUME NEW c \in Conn, NEW e \in Entry, e.status = "PENDING", UNCHANGED <<work_state, link>>,
             request_list' = [request_list EXCEPT ![c] = Append(@, e)]
      PROVE  \A d \in Conn : Fine(d)
  <2>1. request_list'[c] = Append(request_list[c], e)
    BY <1>a, <1>t
  <2>2. request_list'[c][1] = IF request_list[c] = <<>> THEN e ELSE request_list[c][1]
    BY <1>t, <2>1, AppendProperties, EmptySeq, LenProperties
  <2>3. Fine(c)
    BY <1>a, <2>2 DEF SentFree
  <2>4. \A d \in Conn \ {c} : Same(d)
    BY <1>a, <1>t
  <2> QED BY <1>o, <2>3, <2>4
<1>f. ASSUME NEW c \in Conn, request_list[c] # <<>>, FinishHead(c), UNCHANGED link
      PROVE  \A d \in Conn : Fine(d)
  <2>1. request_list'[c] = Tail(request_list[c])
    BY <1>f, <1>t DEF FinishHead, delete_request
  <2>2. ASSUME request_list'[c] # <<>> PROVE request_list'[c][1].status = "PENDING"
    <3>1. /\ Tail(request_list[c]) \in Seq(Entry) /\ Len(request_list[c]) \in Nat
          /\ Len(Tail(request_list[c])) = Len(request_list[c]) - 1
          /\ \A i \in 1 .. Len(Tail(request_list[c])) : Tail(request_list[c])[i] = request_list[c][i + 1]
      BY <1>f, <1>t, HeadTailProperties, LenProperties
    <3>2. 1 \in 1 .. Len(Tail(request_list[c])) /\ 2 \in 2 .. Len(request_list[c])
      BY <2>1, <2>2, <3>1, EmptySeq
    <3> QED BY <1>t, <2>1, <3>1, <3>2 DEF QueueInv, OnlyHeadSent
  <2>3. \A d \in Conn \ {c} : Same(d)
    BY <1>f, <1>t DEF FinishHead, delete_request
  <2> QED BY <1>o, <2>2, <2>3
<1>e. HelloEntry.status = "PENDING" /\ \A r \in Request : MqttEntry(r).status = "PENDING"
  BY DEF HelloEntry, MqttEntry
<1>1. ASSUME NEW c \in Conn, Gc(c) PROVE \A d \in Conn : Fine(d)
  BY <1>1, <1>o, <1>t DEF Gc, DelEvent, del_node_requests
<1>2. CASE Listen
  <2>1. PICK c \in Conn : c \notin nodes /\ Accept(c)
    BY <1>2 DEF Listen, Backlog
  <2>2. request_list'[c] = <<>> /\ \A d \in Conn \ {c} : Same(d)
    BY <1>2, <1>t, <2>1 DEF Listen, Accept, queueVars, netVars, QueueInv, NoOrphanRequest
  <2> QED BY <1>o, <2>2
<1>3. CASE Quiet \/ Select \/ Tick
  BY <1>3, <1>s DEF Quiet, Select, Tick, sessionVars, queueVars, netVars
<1>4. ASSUME NEW c \in Conn, HelloTimer(c) PROVE \A d \in Conn : Fine(d)
  BY <1>4, <1>s, <1>a, <1>e, EntryTypes
     DEF HelloTimer, HelloDead, HelloTick, ENQUEUE_IOT_REQUEST, queueVars, netVars
<1>5. ASSUME NEW c \in Conn, ReadMsg(c) PROVE \A d \in Conn : Fine(d)
  <2>1. UNCHANGED link
    BY <1>5, ReadStep
  <2>2. CASE request_list[c] # <<>> /\ FinishHead(c)
    BY <1>f, <2>1, <2>2
  <2>3. CASE UNCHANGED <<request_list, work_state>>
    BY <1>s, <2>1, <2>3
  <2>4. CASE /\ UNCHANGED request_list /\ request_list[c] = <<>>
             /\ work_state' = [work_state EXCEPT ![c] = "FREE"]
    BY <1>o, <1>t, <2>1, <2>4
  <2> QED BY <1>5, <2>2, <2>3, <2>4, AnswerRead, OtherRead DEF queueVars
<1>6. ASSUME NEW c \in Conn, ReadEnd(c) PROVE \A d \in Conn : Fine(d)
  <2>1. link[c] = "closed"
    BY <1>6 DEF ReadEnd, At, Events
  <2> QED BY <1>6, <1>o, <1>t, <2>1 DEF ReadEnd, Disconnect, queueVars, netVars
<1>7. ASSUME NEW c \in Conn, ScanSend(c) PROVE \A d \in Conn : Fine(d)
  <2>1. UNCHANGED link
    BY <1>7 DEF ScanSend
  <2>2. CASE UNCHANGED <<request_list, work_state>>
    BY <1>s, <2>1, <2>2
  <2>3. CASE /\ request_list' = [request_list EXCEPT ![c] = MarkSent(@)]
             /\ work_state' = [work_state EXCEPT ![c] = "BUSY"]
    BY <1>o, <1>t, <2>1, <2>3
  <2> QED BY <1>7, <2>2, <2>3 DEF ScanSend, SendHead
<1>8. ASSUME NEW c \in Conn, ScanTimeout(c) PROVE \A d \in Conn : Fine(d)
  <2>1. request_list[c] # <<>> /\ FinishHead(c) /\ UNCHANGED link
    BY <1>8, <1>t DEF ScanTimeout, BusyTimeout, QueueInv, BusyHeadSent, netVars
  <2> QED BY <1>f, <2>1
<1>9. ASSUME NEW r \in Request, DrainEnqueue(r) PROVE \A d \in Conn : Fine(d)
  <2>1. PICK c \in Conn : WorkEnqueue(c, r)
    BY <1>9, <1>t, EnqueueAtNode DEF TypeOK
  <2>2. /\ request_list' = [request_list EXCEPT ![c] = Append(@, MqttEntry(r))]
        /\ UNCHANGED <<work_state, link>>
    BY <1>9, <2>1 DEF DrainEnqueue, WorkEnqueue, ENQUEUE_IOT_REQUEST, netVars
  <2> QED BY <1>a, <1>e, <2>2, EntryTypes
<1>10. ASSUME NEW c \in Conn, \/ Said(c) \/ \E n \in Name : Connect(c, n)
                              \/ \E how \in {"closed", "dead"} : Leave(c, how)
       PROVE  \A d \in Conn : Fine(d)
  <2>1. UNCHANGED <<request_list, work_state>>
    BY <1>10 DEF Said, Answer, Volunteer, Connect, Leave, NodeStep, sessionVars, queueVars
  <2>2. \A d \in Conn : link[d] = "closed" => link'[d] = "closed"
    BY <1>10, <1>t DEF Said, Answer, Volunteer, Connect, Leave
  <2> QED BY <1>s, <2>1, <2>2
<1> QED BY <1>1, <1>2, <1>3, <1>4, <1>5, <1>6, <1>7, <1>8, <1>9, <1>10, QuietSteps

(***************************************************************************)
(* The places of a request                                                  *)
(***************************************************************************)

(* On its way to the main thread a request has one owner: a thread that is   *)
(* about to add it, or one place of work_list.                              *)
Hand ==
    /\ work_list \in Seq(Request)
    /\ tpc \in [Thread -> {"idle", "lock", "add", "signal"}]
    /\ treq \in [Thread -> Request \cup {NULL}]
    /\ cursor \in Nat
    /\ \A t \in Thread : treq[t] # NULL <=> tpc[t] \in {"lock", "add"}
    /\ Handoff!OwnedOnce

(* The operators on sequences are the same in both modules.                  *)
LEMMA SameOperators ==
    /\ \A s : Handoff!ToSet(s) = ToSet(s)
    /\ \A s, n : Handoff!RemoveAt(s, n) = RemoveAt(s, n)
    /\ Handoff!Requests = Request
BY DEF Handoff!ToSet, ToSet, Handoff!RemoveAt, RemoveAt, Handoff!Requests, Request

LEMMA OwnedOnceMeans ==
    Handoff!OwnedOnce <=>
        /\ \A i, j \in 1 .. Len(work_list) : i # j => work_list[i] # work_list[j]
        /\ \A t \in Thread : treq[t] # NULL => treq[t] \notin ToSet(work_list)
        /\ \A t, u \in Thread : treq[t] # NULL /\ treq[t] = treq[u] => t = u
BY SameOperators DEF Handoff!OwnedOnce

LEMMA InHandoffMeans ==
    \A r : Handoff!InHandoff(r) <=> r \in ToSet(work_list) \/ \E t \in Thread : treq[t] = r
BY SameOperators DEF Handoff!InHandoff

(* A request comes in.                                                      *)
LEMMA HandReceives ==
    ASSUME Hand, NEW t \in Thread, NEW r \in Request, Handoff!Receive(t, r)
    PROVE  /\ Hand'
           /\ \A q \in Request : Handoff!InHandoff(q)' <=> Handoff!InHandoff(q) \/ q = r
<1>1. /\ treq' = [treq EXCEPT ![t] = r] /\ UNCHANGED <<work_list, cursor>>
      /\ tpc[t] = "idle" /\ tpc' = [tpc EXCEPT ![t] = "lock"]
  BY DEF Handoff!Receive, Handoff!mainVars
<1>2. r \notin ToSet(work_list) /\ \A u \in Thread : treq[u] # r
  BY InHandoffMeans DEF Handoff!Receive
<1>3. \A u \in Thread : treq'[u] = IF u = t THEN r ELSE treq[u]
  BY <1>1 DEF Hand
<1>4. treq[t] = NULL /\ r # NULL
  BY <1>1, NullAssumption DEF Hand
<1>5. Handoff!OwnedOnce'
  BY <1>1, <1>2, <1>3, OwnedOnceMeans DEF Hand, Handoff!OwnedOnce, Handoff!ToSet, ToSet
<1>6. \A q \in Request : Handoff!InHandoff(q)' <=> Handoff!InHandoff(q) \/ q = r
  BY <1>1, <1>3, <1>4, NullAssumption DEF Handoff!InHandoff, Handoff!ToSet
<1> QED BY <1>1, <1>3, <1>4, <1>5, <1>6 DEF Hand

(* A thread locks, adds or signals.                                         *)
LEMMA HandThread ==
    ASSUME Hand, NEW t \in Thread, Handoff!ThreadStep(t)
    PROVE  /\ Hand'
           /\ \A q \in Request : Handoff!InHandoff(q)' => Handoff!InHandoff(q)
<1>s. ASSUME UNCHANGED <<work_list, treq>>
      PROVE  /\ Handoff!OwnedOnce'
             /\ \A q \in Request : Handoff!InHandoff(q)' => Handoff!InHandoff(q)
  BY <1>s DEF Hand, Handoff!OwnedOnce, Handoff!InHandoff
<1>1. CASE Handoff!ThreadLock(t) \/ Handoff!ThreadSignal(t)
  BY <1>1, <1>s DEF Handoff!ThreadLock, Handoff!ThreadSignal, Handoff!mainVars, Hand
<1>2. CASE Handoff!ThreadAdd(t)
  <2> DEFINE e == treq[t]
  <2>1. /\ work_list' = <<e>> \o work_list \/ work_list' = Append(work_list, e)
        /\ treq' = [treq EXCEPT ![t] = NULL]
        /\ tpc[t] = "add" /\ tpc' = [tpc EXCEPT ![t] = "signal"]
        /\ UNCHANGED cursor
    BY <1>2 DEF Handoff!ThreadAdd, Handoff!mainVars
  <2>2. e \in Request /\ e # NULL /\ e \notin ToSet(work_list)
    BY <2>1, OwnedOnceMeans DEF Hand
  <2>3. \A u \in Thread : treq'[u] = IF u = t THEN NULL ELSE treq[u]
    BY <2>1 DEF Hand
  <2>4. \A u \in Thread : u # t /\ treq[u] # NULL => treq[u] # e
    BY <2>2, OwnedOnceMeans DEF Hand
  <2> HIDE DEF e
  <2>5. /\ work_list \in Seq(Request)
        /\ \A i, j \in 1 .. Len(work_list) : i # j => work_list[i] # work_list[j]
    BY OwnedOnceMeans DEF Hand
  <2>6. /\ \A i, j \in 1 .. Len(work_list') : i # j => work_list'[i] # work_list'[j]
        /\ \A r \in ToSet(work_list') : r = e \/ r \in ToSet(work_list)
    BY <2>1, <2>2, <2>5, AddedOnce
  <2>7. work_list' \in Seq(Request)
    <3>1. <<e>> \o work_list \in Seq(Request)
      BY <2>2, <2>5, InFront
    <3>2. Append(work_list, e) \in Seq(Request)
      BY <2>2, <2>5, AppendProperties
    <3> QED BY <2>1, <3>1, <3>2
  <2>8. /\ \A u \in Thread : treq'[u] # NULL => treq'[u] \notin ToSet(work_list')
        /\ \A u, v \in Thread : treq'[u] # NULL /\ treq'[u] = treq'[v] => u = v
    BY <2>3, <2>4, <2>6, OwnedOnceMeans DEF Hand
  <2>9. Handoff!OwnedOnce'
    BY <2>6, <2>8, SameOperators DEF Handoff!OwnedOnce, Handoff!ToSet, ToSet
  <2>10. \A q \in Request : Handoff!InHandoff(q)' => Handoff!InHandoff(q)
    BY <2>3, <2>6, NullAssumption DEF e, Handoff!InHandoff, Handoff!ToSet, ToSet
  <2>11. \A u \in Thread : treq'[u] # NULL <=> tpc'[u] \in {"lock", "add"}
    BY <2>1, <2>3 DEF Hand
  <2> QED BY <2>1, <2>7, <2>9, <2>10, <2>11 DEF Hand
<1> QED BY <1>1, <1>2 DEF Handoff!ThreadStep

(* The drain takes a request off work_list.                                  *)
LEMMA HandTakes ==
    ASSUME Hand, NEW r \in Request, Handoff!DrainFound(r) \/ Handoff!DrainRefuse(r)
    PROVE  /\ Hand' /\ Handoff!InHandoff(r)
           /\ \A q \in Request : Handoff!InHandoff(q)' <=> Handoff!InHandoff(q) /\ q # r
<1>1. /\ work_list' = RemoveAt(work_list, cursor + 1) /\ r = work_list[cursor + 1]
      /\ cursor < Len(work_list) /\ UNCHANGED <<treq, tpc, cursor>>
  BY SameOperators DEF Handoff!DrainFound, Handoff!DrainRefuse, Handoff!DrainMore,
                       Handoff!Drained, Handoff!threadVars
<1>2. cursor + 1 \in 1 .. Len(work_list) /\ work_list \in Seq(Request)
  BY <1>1, LenProperties DEF Hand
<1>3. \A i, j \in 1 .. Len(work_list) : i # j => work_list[i] # work_list[j]
  BY OwnedOnceMeans DEF Hand
<1> DEFINE n == cursor + 1
<1>4. n \in 1 .. Len(work_list) /\ work_list' = RemoveAt(work_list, n) /\ r = work_list[n]
  BY <1>1, <1>2
<1> HIDE DEF n
<1>5. /\ \A i, j \in 1 .. Len(work_list') : i # j => work_list'[i] # work_list'[j]
      /\ ToSet(work_list') = ToSet(work_list) \ {r}
  BY <1>2, <1>3, <1>4, RemovedOnce
<1>6. work_list' \in Seq(Request)
  BY <1>2, <1>4, Removed
<1>7. r \in ToSet(work_list) /\ \A t \in Thread : treq[t] # r
  <2>1. r \in ToSet(work_list)
    BY <1>2, <1>4, Members
  <2> QED BY <2>1, OwnedOnceMeans, NullAssumption DEF Hand
<1>8. Handoff!OwnedOnce'
  <2>1. \A t \in Thread : treq'[t] # NULL => treq'[t] \notin ToSet(work_list')
    BY <1>1, <1>5, OwnedOnceMeans DEF Hand
  <2> QED BY <1>1, <1>5, <2>1 DEF Hand, Handoff!OwnedOnce, Handoff!ToSet, ToSet
<1>9. \A q \in Request : Handoff!InHandoff(q)' <=> Handoff!InHandoff(q) /\ q # r
  BY <1>1, <1>5, <1>7 DEF Handoff!InHandoff, Handoff!ToSet, ToSet
<1>10. Handoff!InHandoff(r)
  BY <1>7, InHandoffMeans
<1> QED BY <1>1, <1>6, <1>8, <1>9, <1>10 DEF Hand

(* The hand-off changes in the four ways above.                              *)
LEMMA HandStep ==
    ASSUME Hand, [GatewayNext]_gatewayVars
    PROVE  /\ Hand'
           /\ \/ \E t \in Thread, r \in Request : Submit(t, r)
              \/ \E r \in Request : DrainEnqueue(r) \/ DrainNotFound(r)
              \/ \A q \in Request : Handoff!InHandoff(q)' => Handoff!InHandoff(q)
<1>s. ASSUME UNCHANGED <<work_list, treq, tpc>>, cursor' \in Nat
      PROVE  /\ Hand'
             /\ \A q \in Request : Handoff!InHandoff(q)' => Handoff!InHandoff(q)
  BY <1>s DEF Hand, Handoff!OwnedOnce, Handoff!InHandoff
<1>u. ASSUME UNCHANGED handoffVars
      PROVE  /\ Hand'
             /\ \A q \in Request : Handoff!InHandoff(q)' => Handoff!InHandoff(q)
  BY <1>u, <1>s DEF handoffVars, Hand
<1>1. ASSUME NEW t \in Thread, NEW r \in Request, Submit(t, r) PROVE Hand'
  BY <1>1, HandReceives DEF Submit
<1>2. ASSUME NEW t \in Thread, ThreadRuns(t)
      PROVE  /\ Hand'
             /\ \A q \in Request : Handoff!InHandoff(q)' => Handoff!InHandoff(q)
  BY <1>2, HandThread DEF ThreadRuns
<1>3. ASSUME NEW r \in Request, DrainEnqueue(r) \/ DrainNotFound(r) PROVE Hand'
  BY <1>3, HandTakes DEF DrainEnqueue, DrainNotFound
<1>4. CASE PipeRead \/ DrainStep
  <2>1. UNCHANGED <<work_list, treq, tpc>>
    BY <1>4 DEF PipeRead, DrainStep, Handoff!ReadPipe, Handoff!MainLock, Handoff!DrainPass,
                Handoff!MainUnlock, Handoff!threadVars
  <2>2. cursor' \in {cursor, 0, cursor + 1}
    BY <1>4 DEF PipeRead, DrainStep, Handoff!ReadPipe, Handoff!MainLock, Handoff!DrainPass,
                Handoff!MainUnlock
  <2>3. cursor' \in Nat
    BY <2>2 DEF Hand
  <2> QED BY <1>s, <2>1, <2>3
<1>5. ASSUME NEW c \in Conn, \/ Gc(c) \/ HelloTimer(c) \/ ReadMsg(c) \/ ReadEnd(c)
                             \/ ScanSend(c) \/ ScanTimeout(c) \/ ScanSkip(c)
      PROVE  UNCHANGED handoffVars
  BY <1>5 DEF Gc, HelloTimer, ReadMsg, ReadEnd, ScanSend, ScanTimeout, ScanSkip
<1>6. CASE Select \/ Listen \/ Tick \/ UNCHANGED gatewayVars
  BY <1>6, <1>u DEF Select, Listen, Tick, gatewayVars
<1>7. ASSUME NodeStep PROVE UNCHANGED handoffVars
  BY <1>7 DEF NodeStep
<1> QED BY <1>u, <1>1, <1>2, <1>3, <1>4, <1>5, <1>6, <1>7
        DEF GatewayNext, MainLoop, Connect, Answer, Volunteer, Leave

(* Which requests a list holds, and that it holds each once.                 *)
Holds(q, r) == \E i \in 1 .. Len(q) : q[i].data = r

Once(q) == \A i, j \in 1 .. Len(q) : q[i].data \in Request /\ q[i].data = q[j].data => i = j

(* A request that reached the lists of the nodes is in one place of one of   *)
(* them, and no longer on its way.                                          *)
OneOwner ==
    /\ \A c \in Conn : Once(request_list[c])
    /\ \A r \in Request : \A c, d \in Conn :
           Holds(request_list[c], r) /\ Holds(request_list[d], r) => c = d
    /\ \A r \in Request : \A c \in Conn :
           Holds(request_list[c], r) => ~Handoff!InHandoff(r)

LEMMA WaitingMeans ==
    \A r : Waiting(r) <=> Handoff!InHandoff(r) \/ \E c \in Conn : Holds(request_list[c], r)
BY DEF Waiting, QueuedRequest, Holds

LEMMA HoldsAppend ==
    ASSUME NEW q \in Seq(Entry), NEW e \in Entry
    PROVE  /\ \A r : Holds(Append(q, e), r) <=> Holds(q, r) \/ e.data = r
           /\ Once(q) /\ (e.data \in Request => ~Holds(q, e.data)) => Once(Append(q, e))
<1>1. /\ Len(Append(q, e)) = Len(q) + 1 /\ Len(q) \in Nat
      /\ \A i \in 1 .. Len(q) : Append(q, e)[i] = q[i]
      /\ Append(q, e)[Len(q) + 1] = e
  BY AppendProperties, LenProperties
<1>2. \A i \in 1 .. Len(q) + 1 : i \in 1 .. Len(q) \/ i = Len(q) + 1
  BY <1>1
<1>3. /\ \A i \in 1 .. Len(q) : i \in 1 .. Len(q) + 1
      /\ Len(q) + 1 \in 1 .. Len(q) + 1
  BY <1>1
<1>4. ASSUME NEW r PROVE Holds(Append(q, e), r) <=> Holds(q, r) \/ e.data = r
  BY <1>1, <1>2, <1>3 DEF Holds
<1>5. ASSUME Once(q), e.data \in Request => ~Holds(q, e.data) PROVE Once(Append(q, e))
  BY <1>1, <1>2, <1>5 DEF Once, Holds
<1> QED BY <1>4, <1>5

LEMMA HoldsTail ==
    ASSUME NEW q \in Seq(Entry), q # <<>>
    PROVE  /\ \A r : Holds(q, r) <=> Holds(Tail(q), r) \/ q[1].data = r
           /\ Once(q) => Once(Tail(q))
           /\ Once(q) => \A r \in Request : Holds(Tail(q), r) => q[1].data # r
<1>1. /\ Len(Tail(q)) = Len(q) - 1 /\ Len(q) \in Nat /\ Len(q) # 0
      /\ \A i \in 1 .. Len(Tail(q)) : Tail(q)[i] = q[i + 1]
  BY HeadTailProperties, LenProperties, EmptySeq
<1>2. /\ \A i \in 1 .. Len(Tail(q)) : i + 1 \in 1 .. Len(q) /\ i + 1 # 1
      /\ \A i \in 1 .. Len(q) : i = 1 \/ (i - 1 \in 1 .. Len(Tail(q)) /\ (i - 1) + 1 = i)
      /\ 1 \in 1 .. Len(q)
  BY <1>1
<1>3. \A i \in 1 .. Len(q) : i = 1 \/ q[i] = Tail(q)[i - 1]
  BY <1>1, <1>2
<1>4. ASSUME NEW r PROVE Holds(q, r) <=> Holds(Tail(q), r) \/ q[1].data = r
  BY <1>1, <1>2, <1>3 DEF Holds
<1>5. ASSUME Once(q) PROVE Once(Tail(q))
  <2>1. ASSUME NEW i \in 1 .. Len(Tail(q)), NEW j \in 1 .. Len(Tail(q)),
               Tail(q)[i].data \in Request, Tail(q)[i].data = Tail(q)[j].data
        PROVE  i = j
    <3>1. i + 1 = j + 1
      BY <1>1, <1>2, <1>5, <2>1 DEF Once
    <3> QED BY <3>1
  <2> QED BY <2>1 DEF Once
<1>6. ASSUME Once(q), NEW r \in Request, Holds(Tail(q), r) PROVE q[1].data # r
  BY <1>1, <1>2, <1>6 DEF Once, Holds
<1> QED BY <1>4, <1>5, <1>6

LEMMA HoldsSent ==
    ASSUME NEW q \in Seq(Entry), q # <<>>
    PROVE  /\ \A r : Holds(MarkSent(q), r) <=> Holds(q, r)
           /\ Once(q) => Once(MarkSent(q))
<1>1. /\ Len(MarkSent(q)) = Len(q) /\ \A i \in 2 .. Len(q) : MarkSent(q)[i] = q[i]
      /\ MarkSent(q)[1] = [q[1] EXCEPT !.status = "SENT"]
      /\ q[1] \in Entry /\ Len(q) \in Nat
  <2>1. /\ MarkSent(q) # <<>> /\ MarkSent(q) \in Seq(Entry)
        /\ Head(MarkSent(q)) = [Head(q) EXCEPT !.status = "SENT"]
    BY SentHead
  <2>2. Head(MarkSent(q)) = MarkSent(q)[1] /\ Head(q) = q[1] /\ q[1] \in Entry
    BY <2>1, HeadIsFirst
  <2> QED BY <2>1, <2>2, SentHead, LenProperties
<1>2. \A i \in 1 .. Len(q) : MarkSent(q)[i].data = q[i].data
  <2>1. \A i \in 1 .. Len(q) : i = 1 \/ i \in 2 .. Len(q)
    BY <1>1
  <2>2. MarkSent(q)[1].data = q[1].data
    BY <1>1 DEF Entry
  <2> QED BY <1>1, <2>1, <2>2
<1> QED BY <1>1, <1>2 DEF Holds, Once

(* What becomes of the lists in a step that is not DrainEnqueue.             *)
LEMMA ListMoves ==
    ASSUME GatewayInv, [GatewayNext]_gatewayVars
    PROVE  \/ \E r \in Request : DrainEnqueue(r)
           \/ UNCHANGED request_list
           \/ \E c \in Conn :
                 \/ request_list' = [request_list EXCEPT ![c] = Append(@, HelloEntry)]
                 \/ /\ request_list[c] # <<>>
                    /\ \/ request_list' = [request_list EXCEPT ![c] = Tail(@)]
                       \/ request_list' = [request_list EXCEPT ![c] = MarkSent(@)]
                 \/ request_list' = [request_list EXCEPT ![c] = <<>>]
<1> DEFINE Moves(c) ==
        \/ request_list' = [request_list EXCEPT ![c] = Append(@, HelloEntry)]
        \/ /\ request_list[c] # <<>>
           /\ \/ request_list' = [request_list EXCEPT ![c] = Tail(@)]
              \/ request_list' = [request_list EXCEPT ![c] = MarkSent(@)]
        \/ request_list' = [request_list EXCEPT ![c] = <<>>]
<1>1. ASSUME NEW c \in Conn, Gc(c) PROVE Moves(c)
  BY <1>1 DEF Gc, DelEvent, del_node_requests
<1>2. ASSUME Quiet \/ Select \/ Tick \/ Listen PROVE UNCHANGED request_list
  BY <1>2 DEF Quiet, Select, Tick, Listen, Accept, sessionVars, queueVars
<1>3. ASSUME NEW c \in Conn, HelloTimer(c) PROVE UNCHANGED request_list \/ Moves(c)
  BY <1>3 DEF HelloTimer, HelloDead, HelloTick, ENQUEUE_IOT_REQUEST, queueVars
<1>4. ASSUME NEW c \in Conn, ReadMsg(c) PROVE UNCHANGED request_list \/ Moves(c)
  <2>1. ProcessMsg(c, inbox[c][1])
    BY <1>4, ReadStep
  <2> QED BY <2>1 DEF ProcessMsg, HelloMsg, CapsMsg, GetResp, SetResp, AssertFails, HasReqData,
                      FinishHead, Crash, delete_request, sessionVars, queueVars
<1>5. ASSUME NEW c \in Conn, ReadEnd(c) PROVE UNCHANGED request_list
  BY <1>5 DEF ReadEnd, Disconnect, queueVars
<1>6. ASSUME NEW c \in Conn, ScanSend(c) PROVE UNCHANGED request_list \/ Moves(c)
  BY <1>6 DEF ScanSend, SendHead
<1>7. ASSUME NEW c \in Conn, ScanTimeout(c) PROVE Moves(c)
  BY <1>7 DEF ScanTimeout, BusyTimeout, FinishHead, delete_request, GatewayInv, QueueInv, BusyHeadSent
<1>8. ASSUME NEW c \in Conn, \/ Said(c) \/ \E n \in Name : Connect(c, n)
                             \/ \E how \in {"closed", "dead"} : Leave(c, how)
      PROVE  UNCHANGED request_list
  BY <1>8 DEF Said, Answer, Volunteer, Connect, Leave, NodeStep, sessionVars, queueVars
<1> HIDE DEF Moves
<1>9. \/ \E r \in Request : DrainEnqueue(r)
      \/ UNCHANGED request_list
      \/ \E c \in Conn : Moves(c)
  BY <1>1, <1>2, <1>3, <1>4, <1>5, <1>6, <1>7, <1>8, QuietSteps
<1> QED BY <1>9 DEF Moves

(* Where a request can be after a step, given where it can be before.        *)
LEMMA HoldsStep ==
    ASSUME GatewayInv, Hand, OneOwner, [GatewayNext]_gatewayVars, NEW d \in Conn
    PROVE  /\ Once(request_list'[d])
           /\ \A r \in Request : Holds(request_list'[d], r) =>
                 \/ Holds(request_list[d], r)
                 \/ /\ DrainEnqueue(r) /\ Handoff!InHandoff(r)
                    /\ \A c \in Conn : c # d => request_list'[c] = request_list[c]
<1>t. TypeOK /\ LoopTypes /\ request_list \in [Conn -> Seq(Entry)] /\ Once(request_list[d])
  BY DEF GatewayInv, TypeOK, OneOwner
<1>q. request_list[d] \in Seq(Entry)
  BY <1>t
<1>s. CASE request_list'[d] = request_list[d]
  BY <1>s, <1>t
<1>1. CASE \E r \in Request : DrainEnqueue(r)
  <2>1. PICK r \in Request : DrainEnqueue(r)
    BY <1>1
  <2>2. PICK c \in Conn : WorkEnqueue(c, r)
    BY <2>1, <1>t, EnqueueAtNode DEF TypeOK
  <2>3. request_list' = [request_list EXCEPT ![c] = Append(@, MqttEntry(r))]
    BY <2>2 DEF WorkEnqueue, ENQUEUE_IOT_REQUEST
  <2>4. Handoff!InHandoff(r)
    BY <2>1, HandTakes DEF DrainEnqueue
  <2>5. ~Holds(request_list[d], r)
    BY <2>4 DEF OneOwner
  <2>6. MqttEntry(r).data = r
    BY DEF MqttEntry
  <2>7. CASE c = d
    <3>1. request_list'[d] = Append(request_list[d], MqttEntry(r))
      BY <1>t, <2>3, <2>7
    <3>2. /\ \A x : Holds(Append(request_list[d], MqttEntry(r)), x)
                       <=> Holds(request_list[d], x) \/ MqttEntry(r).data = x
          /\ Once(Append(request_list[d], MqttEntry(r)))
      BY <1>q, <1>t, <2>5, <2>6, EntryTypes, HoldsAppend
    <3> QED BY <1>t, <2>1, <2>3, <2>4, <2>6, <2>7, <3>1, <3>2
  <2>8. CASE c # d
    BY <1>s, <1>t, <2>3, <2>8
  <2> QED BY <2>7, <2>8
<1>2. ASSUME NEW c \in Conn, request_list' = [request_list EXCEPT ![c] = Append(@, HelloEntry)]
      PROVE  /\ Once(request_list'[d])
             /\ \A r \in Request : Holds(request_list'[d], r) => Holds(request_list[d], r)
  <2>1. HelloEntry.data = NULL /\ NULL \notin Request
    BY NullAssumption DEF HelloEntry
  <2>2. /\ Once(Append(request_list[d], HelloEntry))
        /\ \A r \in Request : Holds(Append(request_list[d], HelloEntry), r) => Holds(request_list[d], r)
    BY <1>q, <1>t, <2>1, EntryTypes, HoldsAppend
  <2>3. request_list'[d] = request_list[d] \/ request_list'[d] = Append(request_list[d], HelloEntry)
    BY <1>t, <1>2
  <2> QED BY <1>t, <2>2, <2>3
<1>3. ASSUME NEW c \in Conn, request_list[c] # <<>>,
             \/ request_list' = [request_list EXCEPT ![c] = Tail(@)]
             \/ request_list' = [request_list EXCEPT ![c] = MarkSent(@)]
      PROVE  /\ Once(request_list'[d])
             /\ \A r \in Request : Holds(request_list'[d], r) => Holds(request_list[d], r)
  <2>1. CASE c = d
    <3>1. request_list'[d] = Tail(request_list[d]) \/ request_list'[d] = MarkSent(request_list[d])
      BY <1>t, <1>3, <2>1
    <3>2. request_list[d] # <<>>
      BY <1>3, <2>1
    <3>3. /\ Once(Tail(request_list[d])) /\ Once(MarkSent(request_list[d]))
          /\ \A r : Holds(Tail(request_list[d]), r) => Holds(request_list[d], r)
          /\ \A r : Holds(MarkSent(request_list[d]), r) => Holds(request_list[d], r)
      BY <1>q, <1>t, <3>2, HoldsTail, HoldsSent
    <3> QED BY <3>1, <3>3
  <2>2. CASE c # d
    BY <1>t, <1>3, <2>2
  <2> QED BY <2>1, <2>2
<1>4. ASSUME NEW c \in Conn, request_list' = [request_list EXCEPT ![c] = <<>>]
      PROVE  /\ Once(request_list'[d])
             /\ \A r \in Request : Holds(request_list'[d], r) => Holds(request_list[d], r)
  <2>1. Once(<<>>) /\ \A r : ~Holds(<<>>, r)
    BY EmptySeq DEF Once, Holds
  <2>2. request_list'[d] = request_list[d] \/ request_list'[d] = <<>>
    BY <1>t, <1>4
  <2> QED BY <1>t, <2>1, <2>2
<1>5. CASE UNCHANGED request_list
  BY <1>s, <1>5
<1> QED BY <1>1, <1>2, <1>3, <1>4, <1>5, ListMoves

LEMMA OneOwnerStep ==
    ASSUME GatewayInv, Hand, OneOwner, [GatewayNext]_gatewayVars
    PROVE  OneOwner'
<1>1. \A c \in Conn : Once(request_list'[c])
  BY HoldsStep
<1>2. ASSUME NEW r \in Request, NEW c \in Conn, NEW d \in Conn,
             Holds(request_list'[c], r), Holds(request_list'[d], r)
      PROVE  c = d
  <2>1. CASE Holds(request_list[c], r) /\ Holds(request_list[d], r)
    BY <2>1 DEF OneOwner
  <2>2. CASE Handoff!InHandoff(r)
    <3>1. \A e \in Conn : ~Holds(request_list[e], r)
      BY <2>2 DEF OneOwner
    <3> QED BY <1>2, <3>1, HoldsStep
  <2> QED BY <1>2, <2>1, <2>2, HoldsStep
<1>3. ASSUME NEW r \in Request, NEW c \in Conn, Holds(request_list'[c], r)
      PROVE  ~Handoff!InHandoff(r)'
  <2>1. CASE DrainEnqueue(r)
    BY <2>1, HandTakes DEF DrainEnqueue
  <2>2. CASE Holds(request_list[c], r)
    <3>1. ~Handoff!InHandoff(r) /\ Waiting(r)
      BY <2>2, WaitingMeans DEF OneOwner
    <3>2. ASSUME NEW t \in Thread, NEW q \in Request, Submit(t, q) PROVE ~Handoff!InHandoff(r)'
      BY <3>1, <3>2, HandReceives DEF Submit
    <3>3. ASSUME NEW q \in Request, DrainEnqueue(q) \/ DrainNotFound(q) PROVE ~Handoff!InHandoff(r)'
      BY <3>1, <3>3, HandTakes DEF DrainEnqueue, DrainNotFound
    <3> QED BY <3>1, <3>2, <3>3, HandStep
  <2> QED BY <1>3, <2>1, <2>2, HoldsStep
<1> QED BY <1>1, <1>2, <1>3 DEF OneOwner

(* Only Submit makes a request wait.                                         *)
LEMMA WaitingStep ==
    ASSUME GatewayInv, Hand, OneOwner, [GatewayNext]_gatewayVars,
           NEW r \in Request, Waiting(r)', ~Waiting(r)
    PROVE  \E t \in Thread : Submit(t, r)
<1>1. ~Handoff!InHandoff(r) /\ \A c \in Conn : ~Holds(request_list[c], r)
  BY WaitingMeans
<1>2. \A c \in Conn : ~Holds(request_list'[c], r)
  BY <1>1, HoldsStep
<1>3. Handoff!InHandoff(r)'
  BY <1>2 DEF Waiting, QueuedRequest, Holds
<1>4. ASSUME NEW q \in Request, DrainEnqueue(q) \/ DrainNotFound(q) PROVE FALSE
  BY <1>1, <1>3, <1>4, HandTakes DEF DrainEnqueue, DrainNotFound
<1>5. ASSUME NEW t \in Thread, NEW q \in Request, Submit(t, q) PROVE q = r
  BY <1>1, <1>3, <1>5, HandReceives DEF Submit
<1> QED BY <1>1, <1>3, <1>4, <1>5, HandStep

(***************************************************************************)
(* How often a request is written to a node                                 *)
(***************************************************************************)

(* The node was asked and its answer has not been read.                     *)
Owed(c) == wire[c] # <<>> \/ Answers(inbox[c]) # {}

(* The head of the list of c goes to a live node.                           *)
Sends(c) ==
    /\ ScanSend(c) /\ link[c] = "open"
    /\ request_list' = [request_list EXCEPT ![c] = MarkSent(@)]
    /\ handed' = IF Head(request_list[c]).data \in Request /\ handed[Head(request_list[c]).data] < 2
                 THEN [handed EXCEPT ![Head(request_list[c]).data] = @ + 1]
                 ELSE handed

(* An answer is owed for the head of the list, from the time it is sent.     *)
LEMMA OwedStep ==
    ASSUME "CAPS" \notin Unasked, MaxDelay < BusyLimit,
           GatewayInv, Links, Greetings, Labelled, Conversation, [GatewayNext]_gatewayVars,
           NEW c \in Conn, Owed(c)'
    PROVE  \/ Sends(c)
           \/ Owed(c) /\ request_list'[c][1].data = request_list[c][1].data
<1>t. /\ inbox \in [Conn -> Seq(NodeMessage)] /\ wire \in [Conn -> Seq(Entry)]
      /\ age \in [Conn -> 0 .. BusyLimit] /\ TypeOK /\ QueueInv /\ LoopTypes
      /\ request_list \in [Conn -> Seq(Entry)] /\ work_state \in [Conn -> {"BUSY", "FREE"}]
  BY DEF GatewayInv, NetTypes, ClockTypes, TypeOK
<1>z. MaxDelay \in Nat /\ BusyLimit \in Nat
  BY DelayAssumption, ClockAssumption
<1>o. Owed(c) => work_state[c] = "BUSY" /\ request_list[c] # <<>> /\ age[c] <= MaxDelay
  BY DEF Owed, Conversation, Talk
<1>e. Answers(<<>>) = {}
  BY EmptySeq DEF Answers
<1>s. CASE request_list'[c] = request_list[c] /\ (Owed(c)' => Owed(c))
  BY <1>s
<1>f. CASE request_list'[c] = request_list[c] /\ inbox'[c] = inbox[c] /\ wire'[c] = wire[c]
  BY <1>f DEF Owed
<1>a. ASSUME NEW d \in Conn, NEW e \in Entry, UNCHANGED <<inbox, wire>>,
             request_list' = [request_list EXCEPT ![d] = Append(@, e)]
      PROVE  Owed(c) /\ request_list'[c][1].data = request_list[c][1].data
  <2>1. Owed(c) /\ request_list[c] \in Seq(Entry) /\ request_list[c] # <<>>
    BY <1>a, <1>o, <1>t DEF Owed
  <2>2. request_list'[c] = request_list[c] \/ request_list'[c] = Append(request_list[c], e)
    BY <1>a, <1>t
  <2>3. Append(request_list[c], e)[1] = request_list[c][1]
    BY <2>1, AppendProperties, EmptySeq, LenProperties
  <2> QED BY <2>1, <2>2, <2>3
<1>1. ASSUME NEW d \in Conn, Gc(d)
      PROVE  request_list'[c] = request_list[c] /\ inbox'[c] = inbox[c] /\ wire'[c] = wire[c]
  <2>1. inbox'[d] = <<>> /\ wire'[d] = <<>>
    BY <1>1, <1>t DEF Gc
  <2>2. c # d
    BY <1>e, <2>1 DEF Owed
  <2> QED BY <1>1, <1>t, <2>2 DEF Gc, DelEvent, del_node_requests
<1>2. CASE Quiet \/ Select \/ Tick \/ Listen
  BY <1>2, <1>f DEF Quiet, Select, Tick, Listen, Accept, sessionVars, queueVars, netVars
<1>3. ASSUME NEW d \in Conn, HelloTimer(d)
      PROVE  Owed(c) /\ request_list'[c][1].data = request_list[c][1].data
  <2>1. UNCHANGED <<inbox, wire>>
    BY <1>3 DEF HelloTimer, netVars
  <2>2. UNCHANGED request_list \/ request_list' = [request_list EXCEPT ![d] = Append(@, HelloEntry)]
    BY <1>3 DEF HelloTimer, HelloDead, HelloTick, ENQUEUE_IOT_REQUEST, queueVars
  <2>3. Owed(c)
    BY <2>1 DEF Owed
  <2> QED BY <1>a, <2>1, <2>2, <2>3, EntryTypes
<1>4. ASSUME NEW d \in Conn, ReadMsg(d)
      PROVE  request_list'[c] = request_list[c] /\ Owed(c)
  <2>1. CASE d # c
    BY <1>4, <2>1, ReadStep DEF Owed
  <2>2. CASE d = c
    <3>1. inbox[c][1].msg \notin {"HELLO", "GET", "SET"}
      <4>1. CASE inbox[c][1].msg \in {"HELLO", "GET", "SET"}
        <5>1. wire[c] = <<>> /\ wire'[c] = wire[c] /\ Answers(inbox'[c]) = {}
          BY <1>4, <2>2, <4>1, AnswerRead, ReadStep
        <5> QED BY <5>1 DEF Owed
      <4> QED BY <4>1
    <3>2. request_list' = request_list /\ wire' = wire
      BY <1>4, <2>2, <3>1, OtherRead, ReadStep DEF queueVars
    <3>3. PICK k : Taken(inbox[c], inbox'[c], k)
      BY <1>4, <2>2, ReadStep DEF Taken
    <3>4. inbox[c] \in Seq(NodeMessage) /\ inbox'[c] \in Seq(NodeMessage)
      BY <1>4, <2>2, ReadStep
    <3>5. Answers(inbox'[c]) # {} => Answers(inbox[c]) # {}
      BY <3>3, <3>4, AnswersLeft
    <3> QED BY <3>2, <3>5 DEF Owed
  <2> QED BY <2>1, <2>2
<1>5. ASSUME NEW d \in Conn, ReadEnd(d)
      PROVE  request_list'[c] = request_list[c] /\ inbox'[c] = inbox[c] /\ wire'[c] = wire[c]
  BY <1>5 DEF ReadEnd, Disconnect, queueVars, netVars
<1>6. ASSUME NEW d \in Conn, ScanSend(d)
      PROVE  Sends(c) \/ (Owed(c) /\ request_list'[c][1].data = request_list[c][1].data)
  <2>1. CASE d # c
    <3>1. request_list'[c] = request_list[c] /\ inbox'[c] = inbox[c] /\ wire'[c] = wire[c]
      BY <1>6, <1>t, <2>1 DEF ScanSend, SendHead
    <3> QED BY <3>1 DEF Owed
  <2>2. CASE d = c
    <3>1. ~Owed(c) /\ inbox' = inbox
      BY <1>6, <1>o, <2>2 DEF ScanSend, SendHead
    <3>2. link[c] = "open" /\ Running'
      BY <1>6, <2>2, <3>1 DEF ScanSend, Owed
    <3>3. request_list' = [request_list EXCEPT ![c] = MarkSent(@)]
      BY <1>6, <2>2, <3>2 DEF ScanSend, SendHead, Running
    <3> QED BY <1>6, <2>2, <3>2, <3>3 DEF ScanSend, Sends
  <2> QED BY <2>1, <2>2
<1>7. ASSUME NEW d \in Conn, ScanTimeout(d)
      PROVE  request_list'[c] = request_list[c] /\ inbox'[c] = inbox[c] /\ wire'[c] = wire[c]
  <2>1. UNCHANGED <<inbox, wire>> /\ age[d] >= BusyLimit
    BY <1>7 DEF ScanTimeout, netVars
  <2>2. Owed(c) /\ age[c] \in Nat
    BY <1>t, <2>1, ClockAssumption DEF Owed
  <2>3. c # d
    BY <1>o, <1>z, <2>1, <2>2
  <2> QED BY <1>7, <1>t, <2>1, <2>3 DEF ScanTimeout, BusyTimeout, FinishHead, delete_request
<1>8. ASSUME NEW r \in Request, DrainEnqueue(r)
      PROVE  Owed(c) /\ request_list'[c][1].data = request_list[c][1].data
  <2>1. PICK d \in Conn : WorkEnqueue(d, r)
    BY <1>8, <1>t, EnqueueAtNode DEF TypeOK
  <2>2. /\ request_list' = [request_list EXCEPT ![d] = Append(@, MqttEntry(r))]
        /\ UNCHANGED <<inbox, wire>>
    BY <1>8, <2>1 DEF DrainEnqueue, WorkEnqueue, ENQUEUE_IOT_REQUEST, netVars
  <2> QED BY <1>a, <2>2, EntryTypes
<1>9. ASSUME NEW d \in Conn, NEW n \in Name, \/ Connect(d, n)
                                            \/ \E msg \in Unasked : Volunteer(d, msg, n)
      PROVE  request_list'[c] = request_list[c] /\ Owed(c)
  <2>1. UNCHANGED <<request_list, wire>>
    BY <1>9 DEF Connect, Volunteer, NodeStep, sessionVars, queueVars
  <2>2. PICK m \in NodeMessage : m.msg \in {"NOTIF", "CAPS"}
                                 /\ inbox' = [inbox EXCEPT ![d] = Append(@, m)]
    <3>1. ASSUME NEW msg \in {"NOTIF", "CAPS"}, Say(d, msg, NULL, n)
          PROVE  \E m \in NodeMessage : m.msg \in {"NOTIF", "CAPS"}
                                        /\ inbox' = [inbox EXCEPT ![d] = Append(@, m)]
      <4>1. [msg |-> msg, of |-> NULL, name |-> n] \in NodeMessage
        BY DEF NodeMessage, Message
      <4> QED BY <3>1, <4>1 DEF Say
    <3> QED BY <1>9, <3>1, UnaskedAssumption DEF Connect, Volunteer
  <2>3. Answers(Append(inbox[c], m)) = Answers(inbox[c])
    BY <1>t, <2>2, AnswersAppend
  <2>4. inbox'[c] = inbox[c] \/ inbox'[c] = Append(inbox[c], m)
    BY <1>t, <2>2
  <2> QED BY <2>1, <2>3, <2>4 DEF Owed
<1>10. ASSUME NEW d \in Conn, \/ Answer(d)
                              \/ \E how \in {"closed", "dead"} : Leave(d, how)
       PROVE  request_list'[c] = request_list[c] /\ Owed(c)
  <2>1. UNCHANGED request_list
    BY <1>10 DEF Answer, Leave, NodeStep, sessionVars, queueVars
  <2>2. CASE c = d /\ Answer(d)
    BY <2>1, <2>2 DEF Answer, Owed
  <2>3. CASE c = d /\ \E how \in {"closed", "dead"} : Leave(d, how)
    BY <1>t, <2>1, <2>3 DEF Leave, Owed
  <2>4. CASE c # d
    BY <1>10, <1>t, <2>1, <2>4 DEF Answer, Leave, Say, Owed
  <2> QED BY <1>10, <2>2, <2>3, <2>4
<1> QED BY <1>s, <1>f, <1>1, <1>2, <1>3, <1>4, <1>5, <1>6, <1>7, <1>8, <1>9, <1>10, QuietSteps
        DEF Said
(* What a list says about how often its requests were written, h: never      *)
(* while they are PENDING, and at most once.                                *)
Counts(q, h) == \A i \in 1 .. Len(q) : q[i].data \in Request =>
    /\ h[q[i].data] \in {0, 1}
    /\ q[i].status = "PENDING" => h[q[i].data] = 0

(* A request on its way to the lists was not written, one in a list at most  *)
(* once, and one that an answer is owed for was.                            *)
Counted ==
    /\ \A r \in Request : Handoff!InHandoff(r) => handed[r] = 0
    /\ \A c \in Conn : Counts(request_list[c], handed)
    /\ \A c \in Conn : Owed(c) /\ request_list[c][1].data \in Request
                           => handed[request_list[c][1].data] = 1

LEMMA CountsMoves ==
    ASSUME NEW q \in Seq(Entry), NEW h, Counts(q, h)
    PROVE  /\ q # <<>> => Counts(Tail(q), h) /\ Counts(MarkSent(q), h)
           /\ \A e \in Entry : (e.data \in Request => h[e.data] = 0) => Counts(Append(q, e), h)
<1>1. ASSUME q # <<>> PROVE Counts(Tail(q), h)
  <2>1. /\ Len(Tail(q)) = Len(q) - 1 /\ Len(q) \in Nat
        /\ \A i \in 1 .. Len(Tail(q)) : Tail(q)[i] = q[i + 1]
    BY <1>1, HeadTailProperties, LenProperties
  <2>2. \A i \in 1 .. Len(Tail(q)) : i + 1 \in 1 .. Len(q)
    BY <2>1
  <2> QED BY <2>1, <2>2 DEF Counts
<1>2. ASSUME q # <<>> PROVE Counts(MarkSent(q), h)
  <2>1. /\ MarkSent(q) \in Seq(Entry) /\ MarkSent(q) # <<>> /\ Len(MarkSent(q)) = Len(q)
        /\ \A i \in 2 .. Len(q) : MarkSent(q)[i] = q[i]
        /\ Head(MarkSent(q)) = [Head(q) EXCEPT !.status = "SENT"]
    BY <1>2, SentHead
  <2>2. MarkSent(q)[1] = [q[1] EXCEPT !.status = "SENT"] /\ q[1] \in Entry /\ Len(q) \in Nat
    BY <1>2, <2>1, HeadIsFirst, LenProperties
  <2>3. MarkSent(q)[1].data = q[1].data /\ MarkSent(q)[1].status = "SENT"
    BY <2>2 DEF Entry
  <2>4. \A i \in 1 .. Len(q) : i = 1 \/ i \in 2 .. Len(q)
    BY <2>2
  <2> QED BY <2>1, <2>3, <2>4 DEF Counts
<1>3. ASSUME NEW e \in Entry, e.data \in Request => h[e.data] = 0 PROVE Counts(Append(q, e), h)
  <2>1. /\ Len(Append(q, e)) = Len(q) + 1 /\ Len(q) \in Nat
        /\ \A i \in 1 .. Len(q) : Append(q, e)[i] = q[i]
        /\ Append(q, e)[Len(q) + 1] = e
    BY AppendProperties, LenProperties
  <2>2. \A i \in 1 .. Len(q) + 1 : i \in 1 .. Len(q) \/ i = Len(q) + 1
    BY <2>1
  <2> QED BY <1>3, <2>1, <2>2 DEF Counts
<1> QED BY <1>1, <1>2, <1>3

(* Writing r once more does not concern a list without r.                    *)
LEMMA CountsOther ==
    ASSUME NEW q \in Seq(Entry), NEW h \in [Request -> 0 .. 2], NEW r \in Request, NEW n,
           Counts(q, h), ~Holds(q, r)
    PROVE  Counts(q, [h EXCEPT ![r] = n])
BY DEF Counts, Holds

(* Writing the head.                                                         *)
LEMMA CountsSent ==
    ASSUME NEW q \in Seq(Entry), q # <<>>, NEW h \in [Request -> 0 .. 2], NEW r \in Request,
           Counts(q, h), Once(q), q[1].data = r
    PROVE  Counts(MarkSent(q), [h EXCEPT ![r] = 1])
<1>1. /\ MarkSent(q) \in Seq(Entry) /\ MarkSent(q) # <<>> /\ Len(MarkSent(q)) = Len(q)
      /\ \A i \in 2 .. Len(q) : MarkSent(q)[i] = q[i]
      /\ Head(MarkSent(q)) = [Head(q) EXCEPT !.status = "SENT"]
  BY SentHead
<1>2. MarkSent(q)[1] = [q[1] EXCEPT !.status = "SENT"] /\ q[1] \in Entry /\ Len(q) \in Nat
  BY <1>1, HeadIsFirst, LenProperties
<1>3. MarkSent(q)[1].data = r /\ MarkSent(q)[1].status = "SENT"
  BY <1>2 DEF Entry
<1>4. \A i \in 1 .. Len(q) : i = 1 \/ i \in 2 .. Len(q)
  BY <1>2
<1>5. 1 \in 1 .. Len(q)
  BY <1>2, EmptySeq
<1>6. \A i \in 2 .. Len(q) : i \in 1 .. Len(q) /\ i # 1
  BY <1>2
<1>7. \A i \in 2 .. Len(q) : q[i].data # r
  BY <1>5, <1>6 DEF Once
<1>8. \A i \in 2 .. Len(q) : q[i].data \in Request =>
          [h EXCEPT ![r] = 1][q[i].data] = h[q[i].data]
  BY <1>7
<1>9. [h EXCEPT ![r] = 1][r] = 1
  OBVIOUS
<1> HIDE DEF MarkSent
<1>10. ASSUME NEW i \in 1 .. Len(q), MarkSent(q)[i].data \in Request
       PROVE  /\ [h EXCEPT ![r] = 1][MarkSent(q)[i].data] \in {0, 1}
              /\ MarkSent(q)[i].status = "PENDING"
                    => [h EXCEPT ![r] = 1][MarkSent(q)[i].data] = 0
  <2>1. CASE i = 1
    BY <1>3, <1>9, <2>1
  <2>2. CASE i \in 2 .. Len(q)
    BY <1>1, <1>6, <1>8, <1>10, <2>2 DEF Counts
  <2> QED BY <1>4, <2>1, <2>2
<1> QED BY <1>1, <1>10 DEF Counts

(* Writes are counted by the scan, from the submission of the request on.    *)
LEMMA HandedStep ==
    ASSUME [GatewayNext]_gatewayVars
    PROVE  \/ UNCHANGED handed
           \/ \E c \in Conn : Sends(c)
           \/ \E t \in Thread, r \in Request : Submit(t, r)
<1> USE DEF historyVars
<1>1. ASSUME NEW c \in Conn, ScanSend(c) PROVE Sends(c) \/ UNCHANGED handed
  <2>1. CASE link[c] = "open" /\ Running'
    <3>1. request_list' = [request_list EXCEPT ![c] = MarkSent(@)]
      BY <1>1, <2>1 DEF ScanSend, SendHead, Running
    <3> QED BY <1>1, <2>1, <3>1 DEF ScanSend, Sends
  <2>2. CASE ~(link[c] = "open" /\ Running')
    BY <1>1, <2>2 DEF ScanSend
  <2> QED BY <2>1, <2>2
<1>2. ASSUME NEW c \in Conn, \/ Gc(c) \/ HelloTimer(c) \/ ReadMsg(c) \/ ReadEnd(c)
                             \/ ScanTimeout(c) \/ ScanSkip(c)
      PROVE  UNCHANGED handed
  BY <1>2 DEF Gc, HelloTimer, ReadMsg, ReadEnd, ScanTimeout, ScanSkip
<1>3. CASE Select \/ PipeRead \/ DrainStep \/ Listen \/ Tick
  BY <1>3 DEF Select, PipeRead, DrainStep, Listen, Tick
<1>4. ASSUME NEW r \in Request, DrainEnqueue(r) \/ DrainNotFound(r) PROVE UNCHANGED handed
  BY <1>4 DEF DrainEnqueue, DrainNotFound
<1>5. ASSUME NEW t \in Thread, ThreadRuns(t) PROVE UNCHANGED handed
  BY <1>5 DEF ThreadRuns
<1>6. CASE NodeStep \/ UNCHANGED gatewayVars
  BY <1>6 DEF NodeStep, gatewayVars
<1> QED BY <1>1, <1>2, <1>3, <1>4, <1>5, <1>6
        DEF GatewayNext, MainLoop, Connect, Answer, Volunteer, Leave

(* What is queued was not written yet.                                       *)
LEMMA CountsStep ==
    ASSUME GatewayInv, Hand, Counted, [GatewayNext]_gatewayVars, NEW d \in Conn
    PROVE  Counts(request_list'[d], handed)
<1>t. /\ TypeOK /\ LoopTypes /\ request_list \in [Conn -> Seq(Entry)]
      /\ request_list[d] \in Seq(Entry) /\ Counts(request_list[d], handed)
  BY DEF GatewayInv, TypeOK, Counted
<1>a. ASSUME NEW c \in Conn, NEW e \in Entry, e.data \in Request => handed[e.data] = 0,
             request_list' = [request_list EXCEPT ![c] = Append(@, e)]
      PROVE  Counts(request_list'[d], handed)
  <2>1. request_list'[d] = request_list[d] \/ request_list'[d] = Append(request_list[d], e)
    BY <1>a, <1>t
  <2>2. Counts(Append(request_list[d], e), handed)
    BY <1>a, <1>t, CountsMoves
  <2> QED BY <1>t, <2>1, <2>2
<1>1. CASE \E r \in Request : DrainEnqueue(r)
  <2>1. PICK r \in Request : DrainEnqueue(r)
    BY <1>1
  <2>2. PICK c \in Conn : WorkEnqueue(c, r)
    BY <2>1, <1>t, EnqueueAtNode DEF TypeOK
  <2>3. handed[r] = 0
    BY <2>1, HandTakes DEF DrainEnqueue, Counted
  <2>4. MqttEntry(r) \in Entry /\ MqttEntry(r).data = r
    BY EntryTypes DEF MqttEntry
  <2>5. request_list' = [request_list EXCEPT ![c] = Append(@, MqttEntry(r))]
    BY <2>2 DEF WorkEnqueue, ENQUEUE_IOT_REQUEST
  <2> QED BY <1>a, <2>3, <2>4, <2>5
<1>2. ASSUME NEW c \in Conn, request_list' = [request_list EXCEPT ![c] = Append(@, HelloEntry)]
      PROVE  Counts(request_list'[d], handed)
  <2>1. HelloEntry \in Entry /\ HelloEntry.data \notin Request
    BY EntryTypes, NullAssumption DEF HelloEntry
  <2> QED BY <1>2, <1>a, <2>1
<1>3. ASSUME NEW c \in Conn, request_list[c] # <<>>,
             \/ request_list' = [request_list EXCEPT ![c] = Tail(@)]
             \/ request_list' = [request_list EXCEPT ![c] = MarkSent(@)]
      PROVE  Counts(request_list'[d], handed)
  <2>1. CASE c = d
    <3>1. request_list'[d] = Tail(request_list[d]) \/ request_list'[d] = MarkSent(request_list[d])
      BY <1>t, <1>3, <2>1
    <3>2. request_list[d] # <<>>
      BY <1>3, <2>1
    <3>3. Counts(Tail(request_list[d]), handed) /\ Counts(MarkSent(request_list[d]), handed)
      BY <1>t, <3>2, CountsMoves
    <3> QED BY <3>1, <3>3
  <2>2. CASE c # d
    BY <1>t, <1>3, <2>2
  <2> QED BY <2>1, <2>2
<1>4. ASSUME NEW c \in Conn, request_list' = [request_list EXCEPT ![c] = <<>>]
      PROVE  Counts(request_list'[d], handed)
  <2>1. Counts(<<>>, handed)
    BY EmptySeq DEF Counts
  <2>2. request_list'[d] = request_list[d] \/ request_list'[d] = <<>>
    BY <1>t, <1>4
  <2> QED BY <1>t, <2>1, <2>2
<1>5. CASE UNCHANGED request_list
  BY <1>t, <1>5
<1> QED BY <1>1, <1>2, <1>3, <1>4, <1>5, ListMoves

(* A request that is written was not written before.                         *)
LEMMA SendsCounts ==
    ASSUME GatewayInv, SentFree, Counted, NEW c \in Conn, Sends(c)
    PROVE  /\ request_list[c] # <<>> /\ work_state[c] = "FREE"
           /\ request_list'[c] = MarkSent(request_list[c])
           /\ request_list'[c][1].data = request_list[c][1].data
           /\ request_list[c][1].data \in Request =>
                 /\ handed[request_list[c][1].data] = 0
                 /\ handed' = [handed EXCEPT ![request_list[c][1].data] = 1]
           /\ request_list[c][1].data \notin Request => handed' = handed
<1> DEFINE q == request_list[c]
           h == q[1]
<1>1. /\ request_list[c] # <<>> /\ work_state[c] = "FREE" /\ link[c] = "open"
      /\ request_list \in [Conn -> Seq(Entry)] /\ q \in Seq(Entry)
      /\ handed \in [Request -> 0 .. 2]
      /\ request_list' = [request_list EXCEPT ![c] = MarkSent(@)]
  BY DEF Sends, ScanSend, SendHead, GatewayInv, TypeOK, HistoryTypes
<1>2. Head(q) = h /\ h \in Entry
  BY <1>1, HeadIsFirst
<1>3. h.status = "PENDING"
  BY <1>1, <1>2 DEF SentFree, Entry
<1>4. request_list'[c] = MarkSent(q)
  BY <1>1
<1>5. MarkSent(q)[1].data = h.data
  <2>1. /\ MarkSent(q) \in Seq(Entry) /\ MarkSent(q) # <<>>
        /\ Head(MarkSent(q)) = [Head(q) EXCEPT !.status = "SENT"]
    BY <1>1, SentHead
  <2>2. MarkSent(q)[1] = [h EXCEPT !.status = "SENT"]
    BY <1>2, <2>1, HeadIsFirst
  <2> QED BY <1>2, <2>2 DEF Entry
<1>6. h.data \in Request => handed[h.data] = 0
  <2>1. 1 \in 1 .. Len(q)
    BY <1>1, EmptySeq, LenProperties
  <2> QED BY <1>3, <2>1 DEF Counted, Counts
<1>7. handed' = IF h.data \in Request /\ handed[h.data] < 2
                THEN [handed EXCEPT ![h.data] = @ + 1] ELSE handed
  BY <1>2 DEF Sends
<1> HIDE DEF q, h
<1>8. ASSUME h.data \in Request PROVE handed' = [handed EXCEPT ![h.data] = 1]
  <2>1. handed[h.data] = 0 /\ 0 < 2 /\ 0 + 1 = 1
    BY <1>6, <1>8
  <2> QED BY <1>7, <1>8, <2>1
<1>9. h.data \notin Request => handed' = handed
  BY <1>7
<1> QED BY <1>1, <1>4, <1>5, <1>6, <1>8, <1>9 DEF q, h

LEMMA CountedStep ==
    ASSUME "CAPS" \notin Unasked, MaxDelay < BusyLimit,
           GatewayInv, Links, Greetings, Labelled, Conversation, SentFree, Hand, OneOwner,
           Counted, [GatewayNext]_gatewayVars
    PROVE  Counted'
<1>t. /\ handed \in [Request -> 0 .. 2] /\ request_list \in [Conn -> Seq(Entry)]
      /\ \A c \in Conn : Owed(c) => work_state[c] = "BUSY" /\ request_list[c] # <<>>
  BY DEF GatewayInv, TypeOK, HistoryTypes, Owed, Conversation, Talk
<1>h. \A c \in Conn : request_list[c] # <<>> => Holds(request_list[c], request_list[c][1].data)
  <2>1. ASSUME NEW c \in Conn, request_list[c] # <<>> PROVE 1 \in 1 .. Len(request_list[c])
    BY <1>t, <2>1, EmptySeq, LenProperties
  <2> QED BY <2>1 DEF Holds
<1>1. CASE \E t \in Thread, r \in Request : Submit(t, r)
  <2>1. PICK t \in Thread, r \in Request : Submit(t, r)
    BY <1>1
  <2>2. /\ handed' = [handed EXCEPT ![r] = 0] /\ UNCHANGED <<request_list, wire, inbox>>
        /\ ~Handoff!InHandoff(r) /\ \A c \in Conn : ~Holds(request_list[c], r)
    BY <2>1, WaitingMeans DEF Submit, sessionVars, queueVars, netVars
  <2>3. ASSUME NEW q \in Request, Handoff!InHandoff(q)' PROVE handed'[q] = 0
    <3>1. q = r \/ Handoff!InHandoff(q)
      BY <2>1, <2>3, HandReceives DEF Submit
    <3> QED BY <1>t, <2>2, <3>1 DEF Counted
  <2>4. ASSUME NEW c \in Conn PROVE Counts(request_list'[c], handed')
    <3>1. request_list'[c] = request_list[c] /\ request_list[c] \in Seq(Entry)
      BY <1>t, <2>2
    <3>2. Counts(request_list[c], [handed EXCEPT ![r] = 0])
      BY <1>t, <2>2, <3>1, CountsOther DEF Counted
    <3> QED BY <2>2, <3>1, <3>2
  <2>5. ASSUME NEW c \in Conn, Owed(c)', request_list'[c][1].data \in Request
        PROVE  handed'[request_list'[c][1].data] = 1
    <3>1. Owed(c) /\ request_list'[c] = request_list[c]
      BY <2>2, <2>5 DEF Owed
    <3>2. request_list[c][1].data # r
      BY <1>t, <1>h, <2>2, <3>1
    <3> QED BY <1>t, <2>2, <2>5, <3>1, <3>2 DEF Counted
  <2> QED BY <2>3, <2>4, <2>5 DEF Counted
<1>2. ASSUME ~\E t \in Thread, r \in Request : Submit(t, r)
      PROVE  \A q \in Request : Handoff!InHandoff(q)' => Handoff!InHandoff(q)
  BY <1>2, HandStep, HandTakes DEF DrainEnqueue, DrainNotFound
<1>3. CASE UNCHANGED handed /\ ~\E t \in Thread, r \in Request : Submit(t, r)
  <2>1. \A q \in Request : Handoff!InHandoff(q)' => handed'[q] = 0
    BY <1>2, <1>3 DEF Counted
  <2>2. \A c \in Conn : Counts(request_list'[c], handed')
    BY <1>3, CountsStep
  <2>3. ASSUME NEW c \in Conn, Owed(c)', request_list'[c][1].data \in Request
        PROVE  handed'[request_list'[c][1].data] = 1
    <3>1. CASE Sends(c)
      BY <1>t, <2>3, <3>1, SendsCounts
    <3>2. CASE Owed(c) /\ request_list'[c][1].data = request_list[c][1].data
      BY <1>3, <2>3, <3>2 DEF Counted
    <3> QED BY <2>3, <3>1, <3>2, OwedStep
  <2> QED BY <2>1, <2>2, <2>3 DEF Counted
<1>4. ASSUME NEW c \in Conn, Sends(c), ~\E t \in Thread, r \in Request : Submit(t, r)
      PROVE  Counted'
  <2> DEFINE r == request_list[c][1].data
  <2>1. /\ request_list[c] # <<>> /\ work_state[c] = "FREE"
        /\ request_list'[c] = MarkSent(request_list[c])
        /\ request_list'[c][1].data = r
        /\ r \in Request => handed[r] = 0 /\ handed' = [handed EXCEPT ![r] = 1]
        /\ r \notin Request => handed' = handed
    BY <1>4, SendsCounts
  <2>2. \A d \in Conn \ {c} : request_list'[d] = request_list[d]
    BY <1>4, <1>t DEF Sends
  <2>3. Holds(request_list[c], r) /\ Once(request_list[c])
    BY <1>h, <2>1 DEF OneOwner
  <2>4. r \in Request => /\ ~Handoff!InHandoff(r)
                         /\ \A d \in Conn \ {c} : ~Holds(request_list[d], r)
    BY <2>3 DEF OneOwner
  <2> HIDE DEF r
  <2>5. CASE r \notin Request
    BY <1>3, <1>4, <2>1, <2>5
  <2>6. CASE r \in Request
    <3>1. ASSUME NEW q \in Request, Handoff!InHandoff(q)' PROVE handed'[q] = 0
      <4>1. Handoff!InHandoff(q) /\ q # r
        BY <1>2, <1>4, <2>4, <2>6, <3>1
      <4> QED BY <1>t, <2>1, <2>6, <4>1 DEF Counted
    <3>2. ASSUME NEW d \in Conn PROVE Counts(request_list'[d], handed')
      <4>1. CASE d = c
        <5>1. request_list[c] \in Seq(Entry) /\ Counts(request_list[c], handed)
          BY <1>t DEF Counted
        <5>2. Counts(MarkSent(request_list[c]), [handed EXCEPT ![r] = 1])
          BY <1>t, <2>1, <2>3, <2>6, <5>1, CountsSent DEF r
        <5> QED BY <2>1, <2>6, <4>1, <5>2
      <4>2. CASE d # c
        <5>1. /\ request_list[d] \in Seq(Entry) /\ Counts(request_list[d], handed)
              /\ ~Holds(request_list[d], r)
          BY <1>t, <2>4, <2>6, <4>2 DEF Counted
        <5>2. Counts(request_list[d], [handed EXCEPT ![r] = 1])
          BY <1>t, <2>6, <5>1, CountsOther
        <5> QED BY <2>1, <2>2, <2>6, <4>2, <5>2
      <4> QED BY <4>1, <4>2
    <3>3. ASSUME NEW d \in Conn, Owed(d)', request_list'[d][1].data \in Request
          PROVE  handed'[request_list'[d][1].data] = 1
      <4>1. CASE Sends(d)
        BY <1>t, <3>3, <4>1, SendsCounts
      <4>2. CASE Owed(d) /\ request_list'[d][1].data = request_list[d][1].data
        <5>1. d # c
          BY <1>t, <2>1, <4>2
        <5>2. request_list[d][1].data # r
          BY <1>t, <1>h, <2>4, <2>6, <4>2, <5>1
        <5>3. handed[request_list[d][1].data] = 1
          BY <3>3, <4>2 DEF Counted
        <5> QED BY <1>t, <2>1, <2>6, <3>3, <4>2, <5>2, <5>3
      <4> QED BY <3>3, <4>1, <4>2, OwedStep
    <3> QED BY <3>1, <3>2, <3>3 DEF Counted
  <2> QED BY <2>5, <2>6
<1> QED BY <1>1, <1>3, <1>4, HandedStep

(***************************************************************************)
(* What the requester is told, and the crashes that do not happen           *)
(***************************************************************************)

(* The published answers and refusals.                                       *)
LEMMA ToldStep ==
    ASSUME GatewayInv, Greetings, Labelled, Conversation, [GatewayNext]_gatewayVars
    PROVE  \/ UNCHANGED told
           \/ \E t \in Thread, r \in Request : Submit(t, r)
           \/ \E r \in Request : DrainNotFound(r)
           \/ \E c \in Conn : ReadMsg(c) /\ inbox[c][1].msg \in {"GET", "SET"}
<1> USE DEF historyVars
<1>1. ASSUME NEW c \in Conn, ReadMsg(c), inbox[c][1].msg \notin {"GET", "SET"}
      PROVE  UNCHANGED told
  BY <1>1, AnswerRead, OtherRead
<1>2. ASSUME NEW c \in Conn, \/ Gc(c) \/ HelloTimer(c) \/ ReadEnd(c)
                             \/ ScanSend(c) \/ ScanTimeout(c) \/ ScanSkip(c)
      PROVE  UNCHANGED told
  BY <1>2 DEF Gc, HelloTimer, ReadEnd, ScanSend, ScanTimeout, ScanSkip
<1>3. CASE Select \/ PipeRead \/ DrainStep \/ Listen \/ Tick
  BY <1>3 DEF Select, PipeRead, DrainStep, Listen, Tick
<1>4. ASSUME NEW r \in Request, DrainEnqueue(r) PROVE UNCHANGED told
  BY <1>4 DEF DrainEnqueue
<1>5. ASSUME NEW t \in Thread, ThreadRuns(t) PROVE UNCHANGED told
  BY <1>5 DEF ThreadRuns
<1>6. CASE NodeStep \/ UNCHANGED gatewayVars
  BY <1>6 DEF NodeStep, gatewayVars
<1> QED BY <1>1, <1>2, <1>3, <1>4, <1>5, <1>6
        DEF GatewayNext, MainLoop, Connect, Answer, Volunteer, Leave

(* Every requester was told about its own request.                           *)
Told == told \in [Request -> Request \cup {NULL, "refused"}] /\ AnswersMatch

LEMMA ToldOwn ==
    ASSUME GatewayInv, Greetings, Labelled, Conversation, Told, [GatewayNext]_gatewayVars
    PROVE  Told'
<1> USE DEF Told, AnswersMatch
<1>1. ASSUME NEW t \in Thread, NEW r \in Request, Submit(t, r) PROVE Told'
  BY <1>1 DEF Submit
<1>2. ASSUME NEW r \in Request, DrainNotFound(r) PROVE Told'
  BY <1>2 DEF DrainNotFound
<1>3. ASSUME NEW c \in Conn, ReadMsg(c), inbox[c][1].msg \in {"GET", "SET"} PROVE Told'
  BY <1>3, AnswerRead
<1> QED BY <1>1, <1>2, <1>3, ToldStep

(* The handlers that could crash do not.                                     *)
LEMMA CrashStep ==
    ASSUME GatewayInv, Greetings, Labelled, Conversation, NeverCrashes,
           [GatewayNext]_gatewayVars
    PROVE  NeverCrashes'
<1> USE DEF NeverCrashes
<1>1. ASSUME NEW c \in Conn, ReadMsg(c) PROVE proc' = proc
  BY <1>1, AnswerRead, OtherRead DEF FinishHead
<1>2. ASSUME NEW c \in Conn, ScanSend(c) PROVE proc' = proc \/ proc' = "exited"
  BY <1>2 DEF ScanSend, SendHead
<1>3. ASSUME NEW c \in Conn, Gc(c) \/ HelloTimer(c) \/ ReadEnd(c) \/ ScanTimeout(c)
      PROVE  proc' = proc
  BY <1>3 DEF Gc, DelEvent, HelloTimer, HelloDead, HelloTick, ReadEnd, Disconnect, ScanTimeout,
              BusyTimeout, FinishHead
<1>4. ASSUME Quiet \/ Select \/ Tick \/ Listen PROVE proc' = proc
  BY <1>4 DEF Quiet, Select, Tick, Listen, Accept, sessionVars
<1>5. ASSUME NEW r \in Request, DrainEnqueue(r) PROVE proc' = proc
  BY <1>5 DEF DrainEnqueue, WorkEnqueue
<1>6. ASSUME NodeStep PROVE proc' = proc
  BY <1>6 DEF NodeStep, sessionVars
<1> QED BY <1>1, <1>2, <1>3, <1>4, <1>5, <1>6, QuietSteps
        DEF Said, Answer, Volunteer, Connect, Leave

(***************************************************************************)
(* The invariant of the service                                             *)
(***************************************************************************)

ServiceInv ==
    /\ GreetingInv
    /\ Labelled /\ Conversation /\ SentFree
    /\ Hand /\ OneOwner /\ Counted
    /\ Told /\ NeverCrashes

LEMMA ServiceStart == GatewayInit => ServiceInv
<1> SUFFICES ASSUME GatewayInit PROVE ServiceInv
  OBVIOUS
<1>1. GreetingInv
  BY GreetingStart
<1>2. \A c \in Conn : request_list[c] = <<>> /\ wire[c] = <<>> /\ inbox[c] = <<>>
  BY DEF GatewayInit, Init
<1>3. /\ \A c : Answers(<<>>) = {} /\ ~Holds(<<>>, c)
      /\ Once(<<>>) /\ \A h : Counts(<<>>, h)
  BY EmptySeq DEF Answers, Holds, Once, Counts
<1>4. Labelled
  BY EmptySeq DEF GatewayInit, Init, Labelled
<1>5. Conversation
  BY <1>2, <1>3, TalkSilent DEF Conversation
<1>6. SentFree
  BY <1>2 DEF SentFree
<1>7. Hand /\ \A r \in Request : ~Handoff!InHandoff(r)
  <2>1. /\ work_list = <<>> /\ tpc = [t \in Thread |-> "idle"]
        /\ treq = [t \in Thread |-> NULL] /\ cursor = 0
    BY DEF GatewayInit, Handoff!Init
  <2>2. Len(work_list) = 0 /\ ToSet(work_list) = {} /\ work_list \in Seq(Request)
    BY <2>1, EmptySeq DEF ToSet
  <2>3. Handoff!OwnedOnce
    BY <2>1, <2>2, OwnedOnceMeans
  <2>4. \A r \in Request : ~Handoff!InHandoff(r)
    BY <2>1, <2>2, InHandoffMeans, NullAssumption
  <2> QED BY <2>1, <2>2, <2>3, <2>4 DEF Hand
<1>8. OneOwner
  BY <1>2, <1>3, <1>7 DEF OneOwner
<1>9. Counted
  BY <1>2, <1>3, <1>7 DEF Counted, Owed
<1>10. Told /\ NeverCrashes
  BY DEF GatewayInit, Init, Told, AnswersMatch, NeverCrashes
<1> QED BY <1>1, <1>4, <1>5, <1>6, <1>7, <1>8, <1>9, <1>10 DEF ServiceInv

LEMMA ServiceInvStep ==
    ASSUME "CAPS" \notin Unasked, MaxDelay < BusyLimit, ServiceInv, [GatewayNext]_gatewayVars
    PROVE  ServiceInv'
<1> USE DEF ServiceInv
<1>1. GatewayInv /\ Links /\ Events /\ Greetings
  BY DEF GreetingInv
<1>2. GreetingInv'
  BY GreetingStep
<1>3. Labelled' /\ Conversation' /\ SentFree'
  BY <1>1, LabelledStep, ConversationStep, SentFreeStep
<1>4. Hand' /\ OneOwner'
  BY <1>1, HandStep, OneOwnerStep
<1>5. Counted'
  BY <1>1, CountedStep
<1>6. Told' /\ NeverCrashes'
  BY <1>1, ToldOwn, CrashStep
<1> QED BY <1>2, <1>3, <1>4, <1>5, <1>6

(* No node makes a handler dereference the head of an empty list or a HELLO's *)
(* missing mqtt_request_s, in neither build: what is read as a response is    *)
(* the response to the head, as long as nodes answer faster than the gateway  *)
(* gives up and announce themselves only when they connect.                   *)
THEOREM GatewayNeverCrashes ==
    ASSUME "CAPS" \notin Unasked, MaxDelay < BusyLimit
    PROVE  GatewaySafety => []NeverCrashes
<1>1. ServiceInv /\ [GatewayNext]_gatewayVars => ServiceInv'
  BY ServiceInvStep
<1>2. ServiceInv => NeverCrashes
  BY DEF ServiceInv
<1> QED BY <1>1, <1>2, ServiceStart, PTL DEF GatewaySafety

(* Under the same assumptions the answer published for a request is the      *)
(* answer to this request, whatever else the node sends, and for any number  *)
(* of messages in a read.  The run late_answer shows that it fails when a    *)
(* node may answer later than the gateway waits.                             *)
THEOREM GatewayAnswersMatch ==
    ASSUME "CAPS" \notin Unasked, MaxDelay < BusyLimit
    PROVE  GatewaySafety => []AnswersMatch
<1>1. ServiceInv /\ [GatewayNext]_gatewayVars => ServiceInv'
  BY ServiceInvStep
<1>2. ServiceInv => AnswersMatch
  BY DEF ServiceInv, Told
<1> QED BY <1>1, <1>2, ServiceStart, PTL DEF GatewaySafety

(***************************************************************************)
(* The gateway implements RequestService                                    *)
(***************************************************************************)

Stage == [r \in Request |-> IF ~Waiting(r) THEN "idle"
                            ELSE CASE handed[r] = 0 -> "accepted"
                                   [] handed[r] = 1 -> "handed"
                                   [] OTHER         -> "twice"]

LEMMA WaitingAfter ==
    \A r : Waiting(r)' <=> Handoff!InHandoff(r)' \/ \E c \in Conn : Holds(request_list'[c], r)
BY DEF Waiting, QueuedRequest, Holds

LEMMA StageMeans ==
    ASSUME NEW r \in Request
    PROVE  /\ Stage[r] = IF ~Waiting(r) THEN "idle"
                         ELSE IF handed[r] = 0 THEN "accepted"
                         ELSE IF handed[r] = 1 THEN "handed" ELSE "twice"
           /\ Stage'[r] = IF ~Waiting(r)' THEN "idle"
                          ELSE IF handed'[r] = 0 THEN "accepted"
                          ELSE IF handed'[r] = 1 THEN "handed" ELSE "twice"
BY DEF Stage

(* The actions of the service in terms of the gateway.                       *)
LEMMA ServiceActions ==
    ASSUME NEW r \in Request
    PROVE  /\ /\ Stage[r] = "idle" /\ Stage' = [Stage EXCEPT ![r] = "accepted"]
              /\ told' = [told EXCEPT ![r] = NULL]
              => Service!Submit(r)
           /\ /\ Stage[r] = "accepted" /\ Stage' = [Stage EXCEPT ![r] = "idle"]
              /\ told' = [told EXCEPT ![r] = "refused"]
              => Service!Refuse(r)
           /\ /\ Stage[r] = "accepted" /\ Stage' = [Stage EXCEPT ![r] = "handed"]
              /\ UNCHANGED told
              => Service!Hand(r)
           /\ /\ Stage[r] = "handed" /\ Stage' = [Stage EXCEPT ![r] = "idle"]
              /\ told' = [told EXCEPT ![r] = r]
              => Service!Answer(r)
BY DEF Stage, Service!Submit, Service!Refuse, Service!Hand, Service!Answer, Service!Move

(* When one request moves, its stage is all that changes.                    *)
LEMMA StageMoves ==
    ASSUME NEW r \in Request,
           \A q \in Request \ {r} : (Waiting(q)' <=> Waiting(q)) /\ handed'[q] = handed[q]
    PROVE  Stage' = [Stage EXCEPT ![r] = Stage'[r]]
<1>1. Stage = [q \in Request |-> Stage[q]] /\ Stage' = [q \in Request |-> Stage'[q]]
  BY DEF Stage
<1>2. \A q \in Request \ {r} : Stage'[q] = Stage[q]
  BY StageMeans
<1> HIDE DEF Stage
<1> QED BY <1>1, <1>2

(* Requests that end without a word are dropped together.                    *)
LEMMA StageDrops ==
    ASSUME UNCHANGED <<handed, told>>, \A r \in Request : Waiting(r)' => Waiting(r)
    PROVE  Service!Next
<1> DEFINE S == {r \in Request : Waiting(r) /\ ~Waiting(r)'}
<1>1. \A r \in S : Stage[r] # "idle"
  <2>1. ASSUME NEW r \in S PROVE r \in Request /\ Waiting(r)
    OBVIOUS
  <2> QED BY <2>1, StageMeans
<1>2. Stage' = [r \in Request |-> Stage'[r]]
  BY DEF Stage
<1>3. \A r \in Request : Stage'[r] = IF r \in S THEN "idle" ELSE Stage[r]
  BY StageMeans
<1>4. S \in SUBSET Request
  OBVIOUS
<1> HIDE DEF S, Stage
<1>5. PICK T \in SUBSET Request : T = S
  BY <1>4
<1>6. Stage' = [r \in Request |-> IF r \in T THEN "idle" ELSE Stage[r]]
  BY <1>2, <1>3, <1>5
<1>7. \A r \in T : Stage[r] # "idle"
  BY <1>1, <1>5
<1>8. Service!Drop(T)
  BY <1>6, <1>7 DEF Stage, Service!Drop
<1> QED BY <1>8 DEF Service!Next

(* The client's message: the request was not known, and it is now.           *)
LEMMA SubmitServes ==
    ASSUME ServiceInv, NEW t \in Thread, NEW r \in Request, Submit(t, r)
    PROVE  Service!Submit(r)
<1>t. handed \in [Request -> 0 .. 2] /\ Hand
  BY DEF ServiceInv, GreetingInv, GatewayInv, HistoryTypes
<1>1. /\ ~Waiting(r) /\ handed' = [handed EXCEPT ![r] = 0] /\ told' = [told EXCEPT ![r] = NULL]
      /\ request_list' = request_list
  BY DEF Submit, sessionVars, queueVars
<1>2. \A q \in Request : Handoff!InHandoff(q)' <=> Handoff!InHandoff(q) \/ q = r
  BY <1>t, HandReceives DEF Submit
<1>3. \A q \in Request : Waiting(q)' <=> Waiting(q) \/ q = r
  BY <1>1, <1>2 DEF Waiting, QueuedRequest
<1>4. Stage[r] = "idle" /\ Stage'[r] = "accepted"
  BY <1>t, <1>1, <1>3, StageMeans
<1>5. Stage' = [Stage EXCEPT ![r] = Stage'[r]]
  BY <1>t, <1>1, <1>3, StageMoves
<1> QED BY <1>1, <1>4, <1>5, ServiceActions

(* The refusal: no node has been given the request.                          *)
LEMMA RefusalServes ==
    ASSUME ServiceInv, NEW r \in Request, DrainNotFound(r)
    PROVE  Service!Refuse(r)
<1>t. Hand /\ OneOwner /\ Counted
  BY DEF ServiceInv
<1>1. /\ told' = [told EXCEPT ![r] = "refused"] /\ handed' = handed
      /\ request_list' = request_list /\ Handoff!DrainRefuse(r)
  BY DEF DrainNotFound, sessionVars, queueVars
<1>2. /\ Handoff!InHandoff(r)
      /\ \A q \in Request : Handoff!InHandoff(q)' <=> Handoff!InHandoff(q) /\ q # r
  BY <1>t, <1>1, HandTakes
<1>3. Waiting(r) /\ handed[r] = 0 /\ \A c \in Conn : ~Holds(request_list[c], r)
  BY <1>t, <1>2, WaitingMeans DEF OneOwner, Counted
<1>4. \A q \in Request : Waiting(q)' <=> Waiting(q) /\ q # r
  BY <1>1, <1>2, <1>3 DEF Waiting, QueuedRequest, Holds
<1>5. Stage[r] = "accepted" /\ Stage'[r] = "idle"
  BY <1>1, <1>3, <1>4, StageMeans
<1>6. Stage' = [Stage EXCEPT ![r] = Stage'[r]]
  BY <1>1, <1>4, StageMoves
<1> QED BY <1>1, <1>5, <1>6, ServiceActions

(* The scan: the request had not been written before.                        *)
LEMMA SendServes ==
    ASSUME ServiceInv, NEW c \in Conn, Sends(c),
           NEW r \in Request, r = request_list[c][1].data
    PROVE  Service!Hand(r)
<1>t. /\ GatewayInv /\ SentFree /\ Counted /\ request_list \in [Conn -> Seq(Entry)]
      /\ handed \in [Request -> 0 .. 2]
  BY DEF ServiceInv, GreetingInv, GatewayInv, TypeOK, HistoryTypes
<1>1. /\ request_list[c] # <<>> /\ request_list'[c] = MarkSent(request_list[c])
      /\ handed[r] = 0 /\ handed' = [handed EXCEPT ![r] = 1]
  BY <1>t, SendsCounts
<1>2. /\ UNCHANGED <<told, work_list, treq>>
      /\ \A d \in Conn \ {c} : request_list'[d] = request_list[d]
  BY <1>t DEF Sends, ScanSend, handoffVars
<1>3. \A q : Handoff!InHandoff(q)' <=> Handoff!InHandoff(q)
  BY <1>2 DEF Handoff!InHandoff
<1>4. \A q : Holds(MarkSent(request_list[c]), q) <=> Holds(request_list[c], q)
  BY <1>t, <1>1, HoldsSent
<1>5. \A d \in Conn : \A q : Holds(request_list'[d], q) <=> Holds(request_list[d], q)
  BY <1>1, <1>2, <1>4
<1>6. \A q : Waiting(q)' <=> Waiting(q)
  BY <1>3, <1>5 DEF Waiting, QueuedRequest, Holds
<1>7. Holds(request_list[c], r)
  <2>1. 1 \in 1 .. Len(request_list[c])
    BY <1>t, <1>1, EmptySeq, LenProperties
  <2> QED BY <2>1 DEF Holds
<1>8. Waiting(r)
  BY <1>7, WaitingMeans
<1>9. Stage[r] = "accepted" /\ Stage'[r] = "handed"
  BY <1>t, <1>1, <1>6, <1>8, StageMeans
<1>10. Stage' = [Stage EXCEPT ![r] = Stage'[r]]
  BY <1>t, <1>1, <1>6, StageMoves
<1> QED BY <1>2, <1>9, <1>10, ServiceActions

(* The response: it ends the one request that is at the node.                *)
LEMMA AnswerServes ==
    ASSUME ServiceInv, NEW c \in Conn, ReadMsg(c), inbox[c][1].msg \in {"GET", "SET"},
           NEW r \in Request, r = request_list[c][1].data
    PROVE  Service!Answer(r)
<1>t. /\ GatewayInv /\ Labelled /\ Conversation /\ OneOwner /\ Counted
      /\ request_list \in [Conn -> Seq(Entry)]
  BY DEF ServiceInv, GreetingInv, GatewayInv, TypeOK
<1>1. /\ request_list[c] # <<>> /\ FinishHead(c)
      /\ told' = [told EXCEPT ![r] = r]
  BY <1>t, AnswerRead
<1>2. UNCHANGED <<handed, work_list, treq>>
  BY DEF ReadMsg, handoffVars
<1>3. /\ request_list'[c] = Tail(request_list[c])
      /\ \A d \in Conn \ {c} : request_list'[d] = request_list[d]
  BY <1>t, <1>1 DEF FinishHead, delete_request
<1>4. Owed(c)
  <2>1. inbox[c] \in Seq(NodeMessage) /\ inbox[c] # <<>>
    BY <1>t, ReadStep
  <2>2. 1 \in Answers(inbox[c])
    BY <2>1, EmptySeq, LenProperties DEF Answers
  <2> QED BY <2>2 DEF Owed
<1>5. handed[r] = 1
  BY <1>t, <1>1, <1>4 DEF Counted
<1>6. /\ \A q : Holds(request_list[c], q) <=> Holds(Tail(request_list[c]), q) \/ r = q
      /\ ~Holds(Tail(request_list[c]), r)
  BY <1>t, <1>1, HoldsTail DEF OneOwner
<1>7. /\ Holds(request_list[c], r) /\ ~Handoff!InHandoff(r)
      /\ \A d \in Conn \ {c} : ~Holds(request_list[d], r)
  BY <1>t, <1>1, <1>6 DEF OneOwner
<1>8. \A q : Handoff!InHandoff(q)' <=> Handoff!InHandoff(q)
  BY <1>2 DEF Handoff!InHandoff
<1>9. Waiting(r)
  BY <1>7, WaitingMeans
<1>10. \A d \in Conn : \A q : Holds(request_list'[d], q) <=> Holds(request_list[d], q) /\ q # r
  <2>1. ASSUME NEW q PROVE Holds(request_list'[c], q) <=> Holds(request_list[c], q) /\ q # r
    BY <1>3, <1>6
  <2>2. ASSUME NEW d \in Conn \ {c}, NEW q
        PROVE  Holds(request_list'[d], q) <=> Holds(request_list[d], q) /\ q # r
    BY <1>3, <1>7, <2>2
  <2> QED BY <2>1, <2>2
<1>11. \A q \in Request : Waiting(q)' <=> Waiting(q) /\ q # r
  BY <1>7, <1>8, <1>10, WaitingMeans, WaitingAfter
<1>12. Stage[r] = "handed" /\ Stage'[r] = "idle"
  BY <1>2, <1>5, <1>9, <1>11, StageMeans
<1>13. Stage' = [Stage EXCEPT ![r] = Stage'[r]]
  BY <1>2, <1>11, StageMoves
<1> QED BY <1>1, <1>12, <1>13, ServiceActions

LEMMA ServiceStep ==
    ASSUME ServiceInv, [GatewayNext]_gatewayVars
    PROVE  Service!Next
<1>t. /\ GatewayInv /\ Greetings /\ Labelled /\ Conversation /\ Hand /\ OneOwner
      /\ SentFree /\ Counted
  BY DEF ServiceInv, GreetingInv
<1>1. ASSUME NEW t \in Thread, NEW r \in Request, Submit(t, r) PROVE Service!Next
  BY <1>1, SubmitServes DEF Service!Next
<1>2. ASSUME NEW r \in Request, DrainNotFound(r) PROVE Service!Next
  BY <1>2, RefusalServes DEF Service!Next
<1>3. ASSUME NEW c \in Conn, ReadMsg(c), inbox[c][1].msg \in {"GET", "SET"} PROVE Service!Next
  <2>1. PICK r \in Request : r = request_list[c][1].data
    BY <1>t, <1>3, AnswerRead
  <2> QED BY <1>3, <2>1, AnswerServes DEF Service!Next
<1>4. ASSUME NEW c \in Conn, Sends(c), request_list[c][1].data \in Request PROVE Service!Next
  <2>1. PICK r \in Request : r = request_list[c][1].data
    BY <1>4
  <2> QED BY <1>4, <2>1, SendServes DEF Service!Next
<1>5. CASE /\ UNCHANGED <<handed, told>>
           /\ ~\E t \in Thread, r \in Request : Submit(t, r)
  BY <1>t, <1>5, StageDrops, WaitingStep
<1>6. ASSUME NEW c \in Conn, Sends(c), request_list[c][1].data \notin Request,
             ~\E t \in Thread, r \in Request : Submit(t, r)
      PROVE  Service!Next
  BY <1>t, <1>5, <1>6, SendsCounts DEF Sends, ScanSend
<1>7. CASE UNCHANGED told /\ ~\E t \in Thread, r \in Request : Submit(t, r)
  BY <1>4, <1>5, <1>6, <1>7, HandedStep
<1> QED BY <1>t, <1>1, <1>2, <1>3, <1>7, ToldStep

(* The gateway implements the service: a request is written to a node at     *)
(* most once, the requester is told the answer to its own request or that    *)
(* there is no such node, and this only of requests that no node was given.  *)
(* The assumptions are those of the two theorems before.                     *)
THEOREM GatewayImplementsService ==
    ASSUME "CAPS" \notin Unasked, MaxDelay < BusyLimit
    PROVE  GatewaySafety => ServiceKept
<1>1. GatewayInit => Service!Init
  <2> SUFFICES ASSUME GatewayInit PROVE Service!Init
    OBVIOUS
  <2>1. \A r \in Request : ~Waiting(r)
    <3>1. \A c \in Conn : ~\E i \in 1 .. Len(request_list[c]) : TRUE
      BY EmptySeq DEF GatewayInit, Init
    <3>2. ToSet(work_list) = {} /\ \A t \in Thread : treq[t] = NULL
      BY EmptySeq DEF GatewayInit, Handoff!Init, ToSet
    <3> QED BY <3>1, <3>2, InHandoffMeans, NullAssumption DEF Waiting, QueuedRequest
  <2>2. Stage = [r \in Request |-> "idle"]
    BY <2>1 DEF Stage
  <2> QED BY <2>2 DEF Stage, Service!Init, GatewayInit
<1>2. ServiceInv /\ [GatewayNext]_gatewayVars => ServiceInv' /\ Service!Next
  BY ServiceInvStep, ServiceStep
<1> QED BY <1>1, <1>2, ServiceStart, PTL DEF GatewaySafety, ServiceKept, Service!Spec

(***************************************************************************)
(* A live node is kept                                                      *)
(***************************************************************************)

(* A live node that is BUSY owes an answer, and a due hello timer has been   *)
(* started again.                                                           *)
LiveBusy == \A c \in Conn : link[c] = "open" /\ work_state[c] = "BUSY" => Owed(c)

DueReset == \A c \in hello_due : hello_left[c] = HelloPeriod

LEMMA LiveBusyStep ==
    ASSUME ReadMax = 1, GatewayInv, Links, Greetings, Labelled, Conversation, LiveBusy,
           [GatewayNext]_gatewayVars
    PROVE  LiveBusy'
<1> SUFFICES ASSUME NEW c \in Conn, link'[c] = "open", work_state'[c] = "BUSY"
             PROVE  Owed(c)'
  BY DEF LiveBusy
<1>t. /\ TypeOK /\ QueueInv /\ LoopTypes
      /\ link \in [Conn -> {"free", "open", "closed", "dead"}]
      /\ inbox \in [Conn -> Seq(NodeMessage)] /\ wire \in [Conn -> Seq(Entry)]
      /\ work_state \in [Conn -> {"BUSY", "FREE"}] /\ request_list \in [Conn -> Seq(Entry)]
  BY DEF GatewayInv, TypeOK, NetTypes, ClockTypes
<1>s. CASE link'[c] = link[c] /\ work_state'[c] = work_state[c]
           /\ inbox'[c] = inbox[c] /\ wire'[c] = wire[c]
  BY <1>s DEF LiveBusy, Owed
<1>u. CASE UNCHANGED <<link, work_state, inbox, wire>>
  BY <1>u, <1>s
<1>1. ASSUME NEW d \in Conn, Gc(d) PROVE Owed(c)'
  <2>1. d # c
    BY <1>1, <1>t DEF Gc
  <2> QED BY <1>1, <1>s, <1>t, <2>1 DEF Gc, DelEvent
<1>2. CASE Quiet \/ Select \/ Tick
  BY <1>2, <1>u DEF Quiet, Select, Tick, sessionVars, netVars
<1>3. CASE Listen
  BY <1>3, <1>s, <1>t DEF Listen, Accept, netVars
<1>4. ASSUME NEW d \in Conn, HelloTimer(d) PROVE Owed(c)'
  BY <1>4, <1>u DEF HelloTimer, HelloDead, HelloTick, netVars
<1>5. ASSUME NEW d \in Conn, ReadMsg(d) PROVE Owed(c)'
  <2>1. CASE d # c
    BY <1>5, <1>s, <2>1, ReadStep
  <2>2. CASE d = c
    <3>1. inbox[c][1].msg \notin {"HELLO", "GET", "SET"}
      <4>1. ASSUME inbox[c][1].msg \in {"HELLO", "GET", "SET"} PROVE FALSE
        BY <1>5, <1>t, <2>2, <4>1, AnswerRead DEF FinishHead
      <4> QED BY <4>1
    <3>2. work_state[c] = "BUSY"
      BY <1>5, <1>t, <2>2, <3>1, OtherRead
    <3>3. Owed(c) /\ wire'[c] = wire[c]
      BY <1>5, <2>2, <3>2, ReadStep DEF LiveBusy
    <3>4. CASE Answers(inbox[c]) # {}
      <4>1. PICK i \in Answers(inbox[c]) : TRUE
        BY <3>4
      <4>2. /\ Len(inbox[c]) \in Nat /\ inbox'[c] \in Seq(NodeMessage)
            /\ Len(inbox'[c]) = Len(inbox[c]) - 1
            /\ \A j \in 1 .. Len(inbox'[c]) : inbox'[c][j] = inbox[c][j + 1]
        <5>1. PICK k \in 1 .. Len(inbox[c]) :
                 /\ k <= ReadMax
                 /\ Len(inbox'[c]) = Len(inbox[c]) - k
                 /\ \A j \in 1 .. Len(inbox'[c]) : inbox'[c][j] = inbox[c][j + k]
          BY <1>5, <2>2, ReadStep
        <5>2. k = 1
          BY <5>1
        <5> QED BY <1>5, <2>2, <5>1, <5>2, ReadStep
      <4>3. i \in 1 .. Len(inbox[c]) /\ i # 1 /\ inbox[c][i].msg \in {"HELLO", "GET", "SET"}
        BY <3>1, <4>1 DEF Answers
      <4>4. i - 1 \in 1 .. Len(inbox'[c]) /\ (i - 1) + 1 = i
        BY <4>2, <4>3
      <4>5. i - 1 \in Answers(inbox'[c])
        BY <4>2, <4>3, <4>4 DEF Answers
      <4> QED BY <4>5 DEF Owed
    <3> QED BY <3>3, <3>4 DEF Owed
  <2> QED BY <2>1, <2>2
<1>6. ASSUME NEW d \in Conn, ReadEnd(d) PROVE Owed(c)'
  BY <1>6, <1>s, <1>t DEF ReadEnd, Disconnect, netVars
<1>7. ASSUME NEW d \in Conn, ScanSend(d) PROVE Owed(c)'
  <2>1. CASE d # c
    BY <1>7, <1>s, <1>t, <2>1 DEF ScanSend, SendHead
  <2>2. CASE d = c
    <3>1. Running' /\ link[c] = "open" /\ request_list[c] # <<>>
      BY <1>7, <1>t, <2>2 DEF ScanSend, SendHead, Running
    <3>2. wire'[c] = Append(wire[c], Head(request_list[c]))
      BY <1>7, <1>t, <2>2, <3>1 DEF ScanSend
    <3>3. Head(request_list[c]) \in Entry
      BY <1>t, <3>1, HeadIsFirst
    <3>4. wire[c] \in Seq(Entry)
      BY <1>t
    <3>5. Append(wire[c], Head(request_list[c])) # <<>>
      BY <3>3, <3>4, AppendProperties
    <3> QED BY <3>2, <3>5 DEF Owed
  <2> QED BY <2>1, <2>2
<1>8. ASSUME NEW d \in Conn, ScanTimeout(d) PROVE Owed(c)'
  BY <1>8, <1>s, <1>t DEF ScanTimeout, BusyTimeout, FinishHead, netVars
<1>9. ASSUME NEW r \in Request, DrainEnqueue(r) PROVE Owed(c)'
  BY <1>9, <1>u DEF DrainEnqueue, WorkEnqueue, netVars
<1>10. ASSUME NEW d \in Conn, NEW n \in Name, Connect(d, n) PROVE Owed(c)'
  <2>1. work_state' = work_state /\ link[d] = "free"
    BY <1>10 DEF Connect, NodeStep, sessionVars
  <2>2. work_state[d] # "BUSY"
    BY <2>1 DEF Links, GatewayInv, QueueInv, BusyHeadSent, NoOrphanRequest
  <2>3. c # d
    BY <2>1, <2>2
  <2> QED BY <1>10, <1>s, <1>t, <2>1, <2>3 DEF Connect, Say
<1>11. ASSUME NEW d \in Conn, Said(d) PROVE Owed(c)'
  <2>1. work_state' = work_state /\ link' = link
    BY <1>11 DEF Said, Answer, Volunteer, NodeStep, sessionVars
  <2>2. CASE c # d
    BY <1>11, <1>s, <1>t, <2>1, <2>2 DEF Said, Answer, Volunteer, Say
  <2>3. ASSUME c = d, Answer(d) PROVE Owed(c)'
    <3>1. /\ wire[c] # <<>> /\ Head(wire[c]) \in Entry
      BY <1>t, <2>3, HeadIsFirst DEF Answer
    <3> DEFINE m == [msg |-> Head(wire[c]).type, of |-> Head(wire[c]).data, name |-> NULL]
    <3>2. m \in NodeMessage /\ m.msg \in {"HELLO", "GET", "SET"}
      BY <3>1 DEF NodeMessage, Message, Entry
    <3>3. inbox'[c] = Append(inbox[c], m)
      BY <1>t, <2>3 DEF Answer, Say
    <3> HIDE DEF m
    <3>4. Len(inbox[c]) + 1 \in Answers(Append(inbox[c], m))
      BY <1>t, <3>2, AnswersAppend
    <3> QED BY <3>3, <3>4 DEF Owed
  <2>4. ASSUME c = d, NEW n \in Name, NEW msg \in Unasked, Volunteer(d, msg, n) PROVE Owed(c)'
    <3> DEFINE m == [msg |-> msg, of |-> NULL, name |-> n]
    <3>1. m \in NodeMessage /\ m.msg \notin {"HELLO", "GET", "SET"}
      BY UnaskedAssumption DEF NodeMessage, Message
    <3>2. inbox'[c] = Append(inbox[c], m) /\ wire'[c] = wire[c]
      BY <1>t, <2>4 DEF Volunteer, Say
    <3> HIDE DEF m
    <3>3. Answers(Append(inbox[c], m)) = Answers(inbox[c])
      BY <1>t, <3>1, AnswersAppend
    <3> QED BY <2>1, <3>2, <3>3 DEF Owed, LiveBusy
  <2> QED BY <1>11, <2>2, <2>3, <2>4 DEF Said
<1>12. ASSUME NEW d \in Conn, NEW how \in {"closed", "dead"}, Leave(d, how) PROVE Owed(c)'
  <2>1. c # d
    BY <1>12, <1>t DEF Leave
  <2> QED BY <1>12, <1>s, <1>t, <2>1 DEF Leave, NodeStep, sessionVars
<1> QED BY <1>1, <1>2, <1>3, <1>4, <1>5, <1>6, <1>7, <1>8, <1>9, <1>10, <1>11, <1>12, QuietSteps

LEMMA DueResetStep ==
    ASSUME GatewayInv, DueReset, [GatewayNext]_gatewayVars
    PROVE  DueReset'
<1>t. hello_left \in [Conn -> 1 .. HelloPeriod] /\ TypeOK
  BY DEF GatewayInv, ClockTypes
<1> USE DEF DueReset
<1>u. CASE UNCHANGED hello_left /\ hello_due' \subseteq hello_due
  BY <1>u
<1>1. ASSUME NEW c \in Conn, Gc(c) PROVE DueReset'
  BY <1>1, <1>t DEF Gc
<1>2. CASE Quiet \/ Select \/ Listen
  BY <1>2, <1>u DEF Quiet, Select, Listen, helloVars
<1>3. CASE Tick
  BY <1>3 DEF Tick, TypeOK, GatewayInv
<1>4. ASSUME NEW c \in Conn, HelloTimer(c) PROVE DueReset'
  BY <1>4, <1>u DEF HelloTimer
<1>5. ASSUME NEW c \in Conn, ReadMsg(c) \/ ReadEnd(c) \/ ScanSend(c) \/ ScanTimeout(c)
      PROVE  DueReset'
  BY <1>5, <1>u DEF ReadMsg, ReadEnd, ScanSend, ScanTimeout, helloVars
<1>6. ASSUME NEW r \in Request, DrainEnqueue(r) PROVE DueReset'
  BY <1>6, <1>u DEF DrainEnqueue, helloVars
<1>7. ASSUME NodeStep PROVE DueReset'
  BY <1>7, <1>u DEF NodeStep, helloVars
<1> QED BY <1>1, <1>2, <1>3, <1>4, <1>5, <1>6, <1>7, QuietSteps
        DEF Said, Answer, Volunteer, Connect, Leave

(* A HELLO in the list of a live node reaches it, and its answer comes back, *)
(* before the hello timer gives the node up.  Each entry in front takes one  *)
(* slot: the scan of the next tick and the time the node takes.  Rest is     *)
(* what is left of the slot of the head, Left the time until the node is     *)
(* given up.                                                                *)
Slot == MaxDelay + 1

ScanComing(c) == scan_due \/ Event("SCAN", c) \in todo

Rest(c) == IF work_state[c] = "BUSY" THEN MaxDelay - age[c]
           ELSE IF ScanComing(c) THEN MaxDelay ELSE Slot

Left(c) == hello_count[c] * HelloPeriod + (IF c \in hello_due THEN 0 ELSE hello_left[c])

InTime(c) == \E p \in 1 .. Len(request_list[c]) :
    request_list[c][p].type = "HELLO" /\ (p - 1) * Slot + Rest(c) < Left(c)

(* A live node that was not asked a whole round ago has a HELLO on the way.  *)
Missed(c) == c \in nodes /\ link[c] = "open" /\ hello_count[c] < HELLO_COUNT_DEFAULT

OnTime == \A c \in Conn : Missed(c) => InTime(c)

(* The time left is measured in whole ticks.                                 *)
LEMMA TimeTypes ==
    ASSUME GatewayInv, NEW c \in Conn
    PROVE  /\ Rest(c) \in Int /\ Left(c) \in Int /\ Slot \in Int
           /\ HelloPeriod \in Nat /\ MaxDelay \in Nat /\ BusyLimit \in Nat
           /\ hello_count[c] \in 0 .. 3 /\ hello_left[c] \in Nat /\ age[c] \in Nat
           /\ work_state[c] \in {"BUSY", "FREE"} /\ request_list[c] \in Seq(Entry)
           /\ Len(request_list[c]) \in Nat
<1>1. /\ age[c] \in 0 .. BusyLimit /\ hello_left[c] \in 1 .. HelloPeriod
      /\ hello_count[c] \in 0 .. 3 /\ work_state[c] \in {"BUSY", "FREE"}
      /\ request_list[c] \in Seq(Entry)
  BY DEF GatewayInv, ClockTypes, TypeOK, HELLO_COUNT_DEFAULT
<1>2. HelloPeriod \in Nat /\ BusyLimit \in Nat /\ MaxDelay \in Nat
  BY ClockAssumption, DelayAssumption
<1>3. Rest(c) \in Int /\ Slot \in Int
  BY <1>1, <1>2 DEF Rest, Slot
<1>4. Left(c) \in Int
  <2> DEFINE a == hello_count[c]
             b == IF c \in hello_due THEN 0 ELSE hello_left[c]
  <2>1. a \in Int /\ b \in Int
    BY <1>1, <1>2
  <2> HIDE DEF a, b
  <2>2. a * HelloPeriod + b \in Int
    BY <1>2, <2>1
  <2> QED BY <2>2 DEF Left, a, b
<1> QED BY <1>1, <1>2, <1>3, <1>4, LenProperties

LEMMA TimeTypesAfter ==
    ASSUME GatewayInv', NEW c \in Conn
    PROVE  Rest(c)' \in Int /\ Left(c)' \in Int
<1>1. /\ age'[c] \in 0 .. BusyLimit /\ hello_left'[c] \in 1 .. HelloPeriod
      /\ hello_count'[c] \in 0 .. 3
  BY DEF GatewayInv, ClockTypes, TypeOK, HELLO_COUNT_DEFAULT
<1>2. HelloPeriod \in Nat /\ BusyLimit \in Nat /\ MaxDelay \in Nat
  BY ClockAssumption, DelayAssumption
<1>3. Rest(c)' \in Int
  BY <1>1, <1>2 DEF Rest, Slot
<1>4. Left(c)' \in Int
  <2> DEFINE a == hello_count'[c]
             b == IF c \in hello_due' THEN 0 ELSE hello_left'[c]
  <2>1. a \in Int /\ b \in Int
    BY <1>1, <1>2
  <2> HIDE DEF a, b
  <2>2. a * HelloPeriod + b \in Int
    BY <1>2, <2>1
  <2> QED BY <2>2 DEF Left, a, b
<1> QED BY <1>3, <1>4

(* The list keeps its entries, at their places.                              *)
Keeps(q, new) == \A i \in 1 .. Len(q) : i \in 1 .. Len(new) /\ new[i].type = q[i].type

LEMMA KeepsMoves ==
    ASSUME NEW q \in Seq(Entry)
    PROVE  /\ Keeps(q, q)
           /\ q # <<>> => Keeps(q, MarkSent(q))
           /\ \A e \in Entry : Keeps(q, Append(q, e))
<1>1. Keeps(q, q)
  BY DEF Keeps
<1>2. ASSUME q # <<>> PROVE Keeps(q, MarkSent(q))
  <2>1. /\ MarkSent(q) \in Seq(Entry) /\ MarkSent(q) # <<>> /\ Len(MarkSent(q)) = Len(q)
        /\ \A i \in 2 .. Len(q) : MarkSent(q)[i] = q[i]
        /\ Head(MarkSent(q)) = [Head(q) EXCEPT !.status = "SENT"]
    BY <1>2, SentHead
  <2>2. MarkSent(q)[1] = [q[1] EXCEPT !.status = "SENT"] /\ q[1] \in Entry /\ Len(q) \in Nat
    BY <1>2, <2>1, HeadIsFirst, LenProperties
  <2>3. MarkSent(q)[1].type = q[1].type
    BY <2>2 DEF Entry
  <2>4. \A i \in 1 .. Len(q) : i = 1 \/ i \in 2 .. Len(q)
    BY <2>2
  <2> QED BY <2>1, <2>3, <2>4 DEF Keeps
<1>3. ASSUME NEW e \in Entry PROVE Keeps(q, Append(q, e))
  <2>1. /\ Len(Append(q, e)) = Len(q) + 1 /\ Len(q) \in Nat
        /\ \A i \in 1 .. Len(q) : Append(q, e)[i] = q[i]
    BY AppendProperties, LenProperties
  <2>2. \A i \in 1 .. Len(q) : i \in 1 .. Len(q) + 1
    BY <2>1
  <2> QED BY <2>1, <2>2 DEF Keeps
<1> QED BY <1>1, <1>2, <1>3

(* As long as the entries keep their places it is enough that the time left  *)
(* shrinks no faster than what is left of the slot.                          *)
LEMMA InTimeStays ==
    ASSUME GatewayInv, GatewayInv', NEW c \in Conn, InTime(c),
           Keeps(request_list[c], request_list'[c]),
           NEW k \in Int, Rest(c)' <= Rest(c) - k, Left(c)' >= Left(c) - k
    PROVE  InTime(c)'
<1>1. PICK p \in 1 .. Len(request_list[c]) :
          request_list[c][p].type = "HELLO" /\ (p - 1) * Slot + Rest(c) < Left(c)
  BY DEF InTime
<1>2. p \in 1 .. Len(request_list'[c]) /\ request_list'[c][p].type = "HELLO"
  BY <1>1 DEF Keeps
<1>3. /\ Rest(c) \in Int /\ Rest(c)' \in Int /\ Left(c) \in Int /\ Left(c)' \in Int
      /\ Slot \in Int /\ p \in Int
  BY TimeTypes, TimeTypesAfter
<1> DEFINE w == (p - 1) * Slot
<1>4. w \in Int
  BY <1>3
<1>5. w + Rest(c) < Left(c)
  BY <1>1
<1> HIDE DEF w
<1>6. w + Rest(c)' < Left(c)'
  BY <1>3, <1>4, <1>5
<1> QED BY <1>2, <1>6 DEF InTime, w, Slot

(* A scan that is due stays due while something is queued.                   *)
LEMMA ScanStays ==
    ASSUME ScanTimerArmed', NEW c \in Conn, 1 \in 1 .. Len(request_list'[c]),
           ScanDue, scan_due
    PROVE  scan_due'
<1>1. <<c, 1>> \in Queued'
  BY DEF Queued
<1>2. scan_armed'
  BY <1>1 DEF ScanTimerArmed
<1> QED BY <1>2 DEF ScanDue

(* Nothing happens to the connection c but that entries are added.           *)
Steady(c) ==
    /\ work_state'[c] = work_state[c] /\ age'[c] = age[c]
    /\ hello_count'[c] = hello_count[c] /\ hello_left'[c] = hello_left[c]
    /\ c \in hello_due' <=> c \in hello_due
    /\ c \in nodes /\ link[c] = "open"
    /\ Keeps(request_list[c], request_list'[c])

LEMMA SteadyInTime ==
    ASSUME GatewayInv, GatewayInv', OnTime, NEW c \in Conn, Missed(c)', Steady(c),
           1 \in 1 .. Len(request_list'[c]) /\ ScanComing(c)
               => ScanComing(c)' \/ work_state[c] = "BUSY"
    PROVE  InTime(c)'
<1>1. InTime(c)
  BY DEF Steady, Missed, OnTime
<1>2. 1 \in 1 .. Len(request_list'[c])
  <2>1. PICK p : p \in 1 .. Len(request_list'[c])
    BY <1>1 DEF InTime, Steady, Keeps
  <2>2. Len(request_list'[c]) \in Nat
    BY LenProperties DEF GatewayInv, TypeOK
  <2> QED BY <2>1, <2>2
<1>3. ScanComing(c) => ScanComing(c)' \/ work_state[c] = "BUSY"
  BY <1>2
<1>4. /\ Rest(c) \in Int /\ Left(c) \in Int /\ MaxDelay \in Nat
      /\ Rest(c)' \in Int /\ Left(c)' \in Int
  BY TimeTypes, TimeTypesAfter
<1>5. Left(c)' = Left(c)
  BY DEF Left, Steady
<1>6. Rest(c)' <= Rest(c)
  <2>1. CASE work_state[c] = "BUSY"
    <3>1. Rest(c)' = Rest(c)
      BY <2>1 DEF Rest, Steady
    <3> QED BY <1>4, <3>1
  <2>2. CASE work_state[c] # "BUSY"
    <3>1. /\ Rest(c) = IF ScanComing(c) THEN MaxDelay ELSE MaxDelay + 1
          /\ Rest(c)' = IF ScanComing(c)' THEN MaxDelay ELSE MaxDelay + 1
      BY <2>2 DEF Rest, Steady, Slot
    <3>2. ScanComing(c) => ScanComing(c)'
      BY <1>3, <2>2
    <3> HIDE DEF ScanComing
    <3> QED BY <1>4, <3>1, <3>2
  <2> QED BY <2>1, <2>2
<1>7. Rest(c)' <= Rest(c) - 0 /\ Left(c)' >= Left(c) - 0 /\ 0 \in Int
  BY <1>4, <1>5, <1>6
<1>8. Keeps(request_list[c], request_list'[c])
  BY DEF Steady
<1> QED BY <1>1, <1>7, <1>8, InTimeStays

(* A live node does not run out of time while a HELLO is on the way.         *)
LEMMA TimeLeft ==
    ASSUME MaxDelay < BusyLimit, GatewayInv, Conversation, LiveBusy,
           NEW c \in Conn, link[c] = "open"
    PROVE  /\ 0 <= Rest(c) /\ Rest(c) <= Slot
           /\ work_state[c] = "BUSY" => age[c] <= MaxDelay /\ age[c] < BusyLimit
           /\ InTime(c) => 0 < Left(c)
<1>t. /\ Rest(c) \in Int /\ Left(c) \in Int /\ Slot \in Int /\ MaxDelay \in Nat
      /\ age[c] \in Nat /\ BusyLimit \in Nat /\ Len(request_list[c]) \in Nat
  BY TimeTypes
<1>1. work_state[c] = "BUSY" => age[c] <= MaxDelay
  BY DEF LiveBusy, Owed, Conversation, Talk
<1>2. work_state[c] = "BUSY" => age[c] < BusyLimit
  BY <1>t, <1>1
<1>3. 0 <= Rest(c) /\ Rest(c) <= Slot
  BY <1>t, <1>1 DEF Rest, Slot
<1>4. ASSUME InTime(c) PROVE 0 < Left(c)
  <2>1. PICK p \in 1 .. Len(request_list[c]) : (p - 1) * Slot + Rest(c) < Left(c)
    BY <1>4 DEF InTime
  <2> DEFINE n == p - 1
  <2>2. n \in Nat /\ Slot \in Nat
    BY <1>t DEF Slot
  <2> HIDE DEF n
  <2>3. n * Slot \in Nat
    BY <2>2
  <2> DEFINE w == n * Slot
  <2>4. w \in Nat /\ w + Rest(c) < Left(c)
    BY <2>1, <2>3 DEF n
  <2> HIDE DEF w
  <2> QED BY <1>t, <1>3, <2>4
<1> QED BY <1>1, <1>2, <1>3, <1>4

(* A list is never longer than all of them together.                         *)
LEMMA LenWithinTotal ==
    ASSUME IsFiniteSet(Queued), NEW c \in Conn, request_list[c] \in Seq(Entry)
    PROVE  Len(request_list[c]) <= Total
<1>1. PICK k \in Nat : k = Len(request_list[c])
  BY LenProperties
<1>2. {c} \X (1 .. k) \subseteq Queued
  BY <1>1 DEF Queued
<1>3. Cardinality({c} \X (1 .. k)) = k
  <2> DEFINE S == {c}
             T == 1 .. k
  <2>1. IsFiniteSet(T) /\ Cardinality(T) = k
    BY FS_Interval
  <2>2. IsFiniteSet(S) /\ Cardinality(S) = 1
    BY FS_Singleton
  <2> HIDE DEF S, T
  <2>3. Cardinality(S \X T) = Cardinality(S) * Cardinality(T)
    BY <2>1, <2>2, FS_Product
  <2> QED BY <2>1, <2>2, <2>3 DEF S, T
<1>4. Cardinality({c} \X (1 .. k)) <= Cardinality(Queued)
  BY <1>2, FS_Subset
<1> QED BY <1>1, <1>3, <1>4 DEF Total

(* A few products.                                                           *)
LEMMA Products ==
    ASSUME NEW a \in Nat, NEW b \in Nat, NEW s \in Nat
    PROVE  /\ (a + 1) * s = a * s + s
           /\ a + 1 <= b => a * s + s <= b * s
<1>1. (a + 1) * s = a * s + s
  OBVIOUS
<1>2. ASSUME a + 1 <= b PROVE a * s + s <= b * s
  <2>1. PICK d \in Nat : d = b - (a + 1)
    BY <1>2
  <2>2. b = (a + 1) + d
    BY <2>1
  <2>3. b * s = (a + 1) * s + d * s
    BY <2>2
  <2>4. d * s \in Nat /\ a * s \in Nat
    OBVIOUS
  <2> QED BY <1>1, <2>3, <2>4
<1> QED BY <1>1, <1>2

(* A HELLO that is queued after a whole round without one missing goes to    *)
(* the end of a list that is short enough, and one that is queued after a     *)
(* missed round does not change the time left.                              *)
LEMMA HelloInTime ==
    ASSUME MaxQueued * (MaxDelay + 1) < 3 * HelloPeriod,
           GatewayInv, GatewayInv', TimerInv, TimerInv', Events, DueReset, OnTime,
           NEW c \in Conn, 0 <= Rest(c), Rest(c) <= Slot,
           HelloTimer(c), HelloTick(c), Missed(c)'
    PROVE  InTime(c)'
<1>t. /\ Rest(c) \in Int /\ Left(c) \in Int /\ Slot \in Nat
      /\ HelloPeriod \in Nat /\ hello_count[c] \in 0 .. 3
      /\ request_list[c] \in Seq(Entry) /\ MaxQueued \in Nat
  BY TimeTypes, CountAssumption DEF Slot
<1>u. Rest(c)' \in Int /\ Left(c)' \in Int
  BY TimeTypesAfter
<1>1. /\ request_list' = [request_list EXCEPT ![c] = Append(@, HelloEntry)]
      /\ hello_count' = [hello_count EXCEPT ![c] = @ - 1] /\ hello_count[c] # 0
      /\ Total < MaxQueued /\ UNCHANGED <<nodes, work_state>>
  BY DEF HelloTick, ENQUEUE_IOT_REQUEST, idVars
<1>2. /\ UNCHANGED <<link, age, hello_left>> /\ ScanDue
      /\ hello_due' = hello_due \ {c} /\ todo' = todo \ {Event("TIMER", c)}
  BY DEF HelloTimer, Handled, netVars
<1>3. c \in hello_due /\ hello_left[c] = HelloPeriod
  BY DEF HelloTimer, At, Events, DueReset
<1>4. request_list'[c] = Append(request_list[c], HelloEntry)
  BY <1>1 DEF GatewayInv, TypeOK
<1>5. PICK n \in Nat : n = Len(request_list[c])
  BY <1>t, LenProperties
<1>6. /\ Len(request_list'[c]) = n + 1 /\ request_list'[c][n + 1] = HelloEntry
  BY <1>t, <1>4, <1>5, EntryTypes, AppendProperties
<1>7. PICK a \in 0 .. 2 : hello_count[c] = a + 1
  <2>1. hello_count[c] - 1 \in 0 .. 2 /\ hello_count[c] = (hello_count[c] - 1) + 1
    BY <1>t, <1>1
  <2> QED BY <2>1
<1>8. hello_count'[c] = a
  <2>1. hello_count'[c] = hello_count[c] - 1
    BY <1>1 DEF GatewayInv, TypeOK
  <2> QED BY <1>7, <2>1
<1>9. Left(c) = (a + 1) * HelloPeriod /\ Left(c)' = a * HelloPeriod + HelloPeriod
  <2>1. Left(c) = (a + 1) * HelloPeriod + 0
    BY <1>3, <1>7 DEF Left
  <2>2. hello_left'[c] = HelloPeriod /\ c \notin hello_due'
    BY <1>2, <1>3
  <2>3. Left(c)' = a * HelloPeriod + HelloPeriod
    BY <1>8, <2>2 DEF Left
  <2>4. (a + 1) * HelloPeriod \in Int
    BY <1>t
  <2> QED BY <2>1, <2>3, <2>4
<1>10. Left(c)' = Left(c)
  <2>1. (a + 1) * HelloPeriod = a * HelloPeriod + HelloPeriod
    BY <1>t, Products
  <2> QED BY <1>9, <2>1
<1>11. scan_due => scan_due'
  <2>1. 1 \in 1 .. n + 1
    OBVIOUS
  <2> QED BY <1>2, <1>6, <2>1, ScanStays DEF TimerInv
<1>12. Rest(c)' <= Rest(c)
  <2>1. ScanComing(c) => ScanComing(c)'
    BY <1>2, <1>11 DEF ScanComing, Event
  <2>2. Rest(c)' = Rest(c) \/ (Rest(c)' = MaxDelay /\ Rest(c) = MaxDelay + 1)
    <3> HIDE DEF ScanComing
    <3>1. UNCHANGED <<work_state, age>>
      BY <1>1, <1>2
    <3> QED BY <2>1, <3>1 DEF Rest, Slot
  <2> PICK x \in Int : x = Rest(c)'
    BY <1>u
  <2> PICK z \in Int : z = Rest(c)
    BY <1>t
  <2>3. x = z \/ (x = MaxDelay /\ z = MaxDelay + 1)
    BY <2>2
  <2>4. x <= z
    BY <2>3, DelayAssumption
  <2> QED BY <2>4
<1>13. CASE a = 2
  <2>1. n + 1 <= MaxQueued
    <3>1. n <= Total
      BY <1>t, <1>5, LenWithinTotal DEF TimerInv, CountInv
    <3>2. Total \in Nat
      BY TotalNat DEF TimerInv, CountInv
    <3> QED BY <1>t, <1>1, <3>1, <3>2
  <2>2. n * Slot + Slot <= MaxQueued * Slot
    BY <1>t, <2>1, Products
  <2>3. Left(c)' = 3 * HelloPeriod
    BY <1>t, <1>9, <1>10, <1>13
  <2> DEFINE w == n * Slot
             v == MaxQueued * Slot
  <2>4. w \in Nat /\ v \in Nat
    BY <1>t
  <2>5. w + Slot <= v /\ v < Left(c)'
    BY <2>2, <2>3 DEF Slot
  <2> HIDE DEF w, v
  <2>6. w + Rest(c)' < Left(c)'
    <3> PICK s \in Nat : s = Slot
      BY <1>t
    <3> PICK x \in Int : x = Rest(c)'
      BY <1>u
    <3> PICK y \in Int : y = Left(c)'
      BY <1>u
    <3> PICK z \in Int : z = Rest(c)
      BY <1>t
    <3>1. x <= z /\ z <= s /\ w + s <= v /\ v < y
      BY <1>12, <2>5
    <3>2. w + x < y
      BY <2>4, <3>1
    <3> QED BY <3>2
  <2> DEFINE p == n + 1
  <2>7. /\ p \in 1 .. Len(request_list'[c]) /\ p - 1 = n
        /\ request_list'[c][p].type = "HELLO"
    BY <1>6 DEF HelloEntry
  <2> HIDE DEF p
  <2>8. (p - 1) * Slot + Rest(c)' < Left(c)'
    BY <2>6, <2>7 DEF w
  <2> QED BY <2>7, <2>8 DEF InTime, Slot
<1>14. CASE a # 2
  <2>1. InTime(c)
    <3>1. c \in nodes /\ link[c] = "open"
      BY <1>1, <1>2 DEF Missed
    <3>2. hello_count[c] < HELLO_COUNT_DEFAULT
      BY <1>7, <1>14 DEF HELLO_COUNT_DEFAULT
    <3> QED BY <3>1, <3>2 DEF OnTime, Missed
  <2>2. Keeps(request_list[c], request_list'[c])
    BY <1>t, <1>4, EntryTypes, KeepsMoves
  <2>3. Rest(c)' <= Rest(c) - 0 /\ Left(c)' >= Left(c) - 0
    <3> PICK x \in Int : x = Rest(c)'
      BY <1>u
    <3> PICK y \in Int : y = Left(c)'
      BY <1>u
    <3> PICK z \in Int : z = Rest(c)
      BY <1>t
    <3>1. x <= z /\ Left(c) = y
      BY <1>10, <1>12
    <3>2. x <= z - 0 /\ y >= y - 0
      BY <3>1
    <3> QED BY <3>1, <3>2
  <2> QED BY <2>1, <2>2, <2>3, InTimeStays
<1> QED BY <1>13, <1>14

(* An answer brings a new round or shortens the list by one slot.            *)
LEMMA ReadInTime ==
    ASSUME MaxDelay < BusyLimit,
           GatewayInv, GatewayInv', TimerInv', Greetings, Labelled, Conversation, LiveBusy, OnTime,
           NEW c \in Conn, ReadMsg(c), Missed(c)'
    PROVE  InTime(c)'
<1>1. /\ UNCHANGED <<nodes, link, age, hello_left, hello_due>> /\ ScanDue
      /\ todo' = todo \ {Event("IOT", c)}
  BY ReadStep DEF ReadMsg, helloVars
<1>2. c \in nodes /\ link[c] = "open" /\ hello_count'[c] < HELLO_COUNT_DEFAULT
  BY <1>1 DEF Missed
<1>3. CASE inbox[c][1].msg \notin {"HELLO", "GET", "SET"}
  <2>1. UNCHANGED <<queueVars, hello_count>>
    BY <1>3, OtherRead
  <2>2. InTime(c)
    BY <1>2, <2>1 DEF Missed, OnTime
  <2>3. request_list[c] # <<>>
    BY <2>2, EmptySeq DEF InTime
  <2>4. UNCHANGED work_state
    BY <1>3, <2>3, OtherRead
  <2>5. Keeps(request_list[c], request_list'[c])
    BY <2>1 DEF Keeps, queueVars
  <2>6. Steady(c)
    BY <1>1, <1>2, <2>1, <2>4, <2>5 DEF Steady
  <2>7. 1 \in 1 .. Len(request_list'[c]) /\ ScanComing(c) => ScanComing(c)'
    BY <1>1, ScanStays DEF ScanComing, Event, TimerInv
  <2> QED BY <2>6, <2>7, SteadyInTime
<1>4. CASE inbox[c][1].msg \in {"HELLO", "GET", "SET"}
  <2>1. /\ request_list[c] # <<>> /\ work_state[c] = "BUSY" /\ FinishHead(c)
        /\ IF inbox[c][1].msg = "HELLO"
           THEN hello_count' = [hello_count EXCEPT ![c] = HELLO_COUNT_DEFAULT]
           ELSE UNCHANGED hello_count /\ request_list[c][1].type # "HELLO"
    BY <1>4, AnswerRead
  <2>2. UNCHANGED hello_count /\ request_list[c][1].type # "HELLO"
    BY <1>2, <2>1, TimeTypes DEF HELLO_COUNT_DEFAULT, GatewayInv, TypeOK
  <2>3. InTime(c)
    BY <1>2, <2>2 DEF Missed, OnTime
  <2>4. request_list'[c] = Tail(request_list[c]) /\ work_state'[c] = "FREE"
    BY <2>1 DEF FinishHead, delete_request, GatewayInv, TypeOK
  <2>5. PICK n \in Nat : n = Len(request_list[c])
    BY TimeTypes
  <2>6. /\ Len(request_list'[c]) = n - 1
        /\ \A i \in 1 .. n - 1 : request_list'[c][i] = request_list[c][i + 1]
    BY <2>1, <2>4, <2>5, TimeTypes, HeadTailProperties
  <2>7. PICK p \in 1 .. n :
            request_list[c][p].type = "HELLO" /\ (p - 1) * Slot + Rest(c) < Left(c)
    BY <2>3, <2>5 DEF InTime
  <2>8. p # 1
    BY <2>2, <2>7
  <2>9. PICK m \in Nat : p = m + 2
    <3>1. p - 2 \in Nat /\ p = (p - 2) + 2
      BY <2>7, <2>8
    <3> QED BY <3>1
  <2>10. m + 1 \in 1 .. n - 1 /\ (m + 1) + 1 = p /\ p - 1 = m + 1 /\ (m + 1) - 1 = m
    BY <2>7, <2>9
  <2>11. m + 1 \in 1 .. Len(request_list'[c]) /\ request_list'[c][m + 1].type = "HELLO"
    BY <2>6, <2>7, <2>10
  <2>12. Left(c)' = Left(c)
    BY <1>1, <2>2 DEF Left
  <2>13. Rest(c)' = MaxDelay \/ Rest(c)' = Slot
    BY <2>4 DEF Rest
  <2> PICK s \in Nat : s = Slot
    BY TimeTypes, DelayAssumption DEF Slot
  <2> PICK x \in Int : x = Rest(c)'
    BY TimeTypesAfter
  <2> PICK z \in Int : z = Rest(c)
    BY TimeTypes
  <2> PICK y \in Int : y = Left(c)
    BY TimeTypes
  <2>14. x <= s
    BY <2>13, DelayAssumption DEF Slot
  <2>15. 0 <= z
    BY <1>2, TimeLeft
  <2>16. (m + 1) * s = m * s + s /\ m * s \in Nat
    BY Products
  <2>17. (m + 1) * s + z < y
    BY <2>7, <2>10
  <2>18. m * s + x < y
    BY <2>14, <2>15, <2>16, <2>17
  <2>19. (m + 1 - 1) * Slot + Rest(c)' < Left(c)'
    BY <2>10, <2>12, <2>18
  <2> QED BY <2>11, <2>19 DEF InTime, Slot
<1> QED BY <1>3, <1>4

(* Writing the head to the node starts its slot.                            *)
LEMMA SendInTime ==
    ASSUME GatewayInv, GatewayInv', SentFree, OnTime,
           NEW c \in Conn, ScanSend(c), Missed(c)'
    PROVE  InTime(c)'
<1>1. /\ c \in nodes /\ work_state[c] = "FREE" /\ request_list[c] # <<>>
      /\ UNCHANGED <<nodes, link, hello_count, hello_left, hello_due>>
      /\ age' = [age EXCEPT ![c] = 0] /\ Event("SCAN", c) \in todo
  BY DEF ScanSend, SendHead, idVars, helloVars, At
<1>2. link[c] = "open" /\ InTime(c)
  BY <1>1 DEF Missed, OnTime
<1>3. Head(request_list[c]).status = "PENDING"
  <2>1. Head(request_list[c]) = request_list[c][1] /\ request_list[c][1] \in Entry
    BY <1>1, TimeTypes, HeadIsFirst
  <2>2. request_list[c][1].status # "SENT"
    BY <1>1, <1>2 DEF SentFree
  <2> QED BY <2>1, <2>2 DEF Entry
<1>4. /\ request_list' = [request_list EXCEPT ![c] = MarkSent(@)]
      /\ work_state' = [work_state EXCEPT ![c] = "BUSY"]
  BY <1>3 DEF ScanSend, SendHead
<1>5. Keeps(request_list[c], request_list'[c])
  BY <1>1, <1>4, TimeTypes, KeepsMoves DEF GatewayInv, TypeOK
<1>6. Rest(c) = MaxDelay
  BY <1>1 DEF Rest, ScanComing
<1>7. Rest(c)' = MaxDelay - 0
  <2>1. work_state'[c] = "BUSY" /\ age'[c] = 0
    BY <1>1, <1>4 DEF GatewayInv, TypeOK, ClockTypes
  <2> QED BY <2>1 DEF Rest
<1>8. Left(c)' = Left(c)
  BY <1>1 DEF Left
<1>9. Rest(c)' <= Rest(c) - 0 /\ Left(c)' >= Left(c) - 0
  <2> PICK y \in Int : y = Left(c)
    BY TimeTypes
  <2>1. MaxDelay - 0 <= MaxDelay - 0 /\ y >= y - 0
    BY DelayAssumption
  <2> QED BY <1>6, <1>7, <1>8, <2>1
<1> QED BY <1>2, <1>5, <1>9, InTimeStays

(* A tick is taken off the slot and off the time left alike.                 *)
LEMMA TickInTime ==
    ASSUME MaxDelay < BusyLimit, GatewayInv, GatewayInv', TimerInv, Conversation, LiveBusy,
           OnTime, NEW c \in Conn, Tick, Missed(c)'
    PROVE  InTime(c)'
<1>1. /\ UNCHANGED <<nodes, link, hello_count, work_state, request_list>>
      /\ TopOfLoop /\ Ready = {} /\ scan_due' = scan_armed
  BY DEF Tick, sessionVars, idVars, queueVars
<1>2. c \in nodes /\ link[c] = "open" /\ InTime(c)
  BY <1>1 DEF Missed, OnTime
<1>3. inbox[c] = <<>> /\ c \notin hello_due /\ ~scan_due
  BY <1>1, <1>2, NothingReady
<1>4. PICK b \in 1 .. HelloPeriod : b = hello_left[c]
  BY DEF GatewayInv, ClockTypes
<1>5. Left(c)' = Left(c) - 1
  <2>1. PICK h \in Nat : h = hello_count[c] * HelloPeriod
    <3>1. hello_count[c] \in Nat /\ HelloPeriod \in Nat
      BY TimeTypes
    <3> QED BY <3>1
  <2>2. Left(c) = h + b
    BY <1>3, <1>4, <2>1 DEF Left
  <2>3. c \in hello_due' <=> b = 1
    BY <1>2, <1>4 DEF Tick
  <2>4. b # 1 => hello_left'[c] = b - 1
    BY <1>2, <1>4 DEF Tick
  <2>5. Left(c)' = h + (b - 1)
    BY <1>1, <1>4, <2>1, <2>3, <2>4 DEF Left
  <2> QED BY <1>4, <2>2, <2>5
<1>6. Rest(c)' <= Rest(c) - 1
  <2>1. CASE work_state[c] = "BUSY"
    <3>1. Answers(inbox[c]) = {}
      BY <1>3, EmptySeq DEF Answers
    <3>2. wire[c] # <<>>
      BY <1>2, <2>1, <3>1 DEF LiveBusy, Owed
    <3>3. PICK a \in Nat : a = age[c]
      BY TimeTypes
    <3>4. a < MaxDelay /\ a < BusyLimit
      BY <1>2, <2>1, <3>2, <3>3, TimeLeft DEF Tick
    <3>5. age'[c] = a + 1
      BY <2>1, <3>3, <3>4 DEF Tick
    <3>6. Rest(c) = MaxDelay - a /\ Rest(c)' = MaxDelay - (a + 1)
      BY <1>1, <2>1, <3>3, <3>5 DEF Rest
    <3>7. MaxDelay - (a + 1) <= MaxDelay - a - 1
      BY DelayAssumption
    <3> QED BY <3>6, <3>7
  <2>2. CASE work_state[c] # "BUSY"
    <3>1. scan_due'
      <4>1. 1 \in 1 .. Len(request_list[c])
        BY <1>2, TimeTypes DEF InTime
      <4>2. <<c, 1>> \in Queued
        BY <4>1 DEF Queued
      <4> QED BY <1>1, <4>2 DEF TimerInv, ScanTimerArmed
    <3>2. ~ScanComing(c)
      BY <1>1, <1>3 DEF ScanComing, TopOfLoop
    <3>3. Rest(c) = MaxDelay + 1 /\ Rest(c)' = MaxDelay
      BY <1>1, <2>2, <3>1, <3>2 DEF Rest, Slot, ScanComing
    <3>4. \A z : z = MaxDelay + 1 => MaxDelay <= z - 1
      BY DelayAssumption
    <3> QED BY <3>3, <3>4
  <2> QED BY <2>1, <2>2
<1>7. Left(c)' >= Left(c) - 1
  <2> PICK y \in Int : y = Left(c)
    BY TimeTypes
  <2>1. y - 1 >= y - 1
    OBVIOUS
  <2> QED BY <1>5, <2>1
<1>8. Keeps(request_list[c], request_list'[c])
  BY <1>1 DEF Keeps
<1> QED BY <1>2, <1>6, <1>7, <1>8, InTimeStays

LEMMA OnTimeStep ==
    ASSUME MaxDelay < BusyLimit, MaxQueued * (MaxDelay + 1) < 3 * HelloPeriod,
           GatewayInv, GatewayInv', TimerInv, TimerInv', Links, Events, Greetings, Labelled,
           Conversation, SentFree, LiveBusy, DueReset, OnTime, [GatewayNext]_gatewayVars
    PROVE  OnTime'
<1> SUFFICES ASSUME NEW c \in Conn, Missed(c)' PROVE InTime(c)'
  BY DEF OnTime
<1>c. c \in nodes' /\ link'[c] = "open" /\ hello_count'[c] < HELLO_COUNT_DEFAULT
  BY DEF Missed
<1>t. /\ TypeOK /\ LoopTypes /\ ClockTypes /\ request_list \in [Conn -> Seq(Entry)]
      /\ link \in [Conn -> {"free", "open", "closed", "dead"}]
  BY DEF GatewayInv, TypeOK, ClockTypes
<1>k. Keeps(request_list[c], request_list[c])
  BY DEF Keeps
<1> DEFINE ScanKept == 1 \in 1 .. Len(request_list'[c]) /\ ScanComing(c)
                           => ScanComing(c)' \/ work_state[c] = "BUSY"
<1>s. ASSUME Event("SCAN", c) \in todo => Event("SCAN", c) \in todo',
             ScanDue \/ UNCHANGED scan_due
      PROVE  ScanKept
  BY <1>s, ScanStays DEF ScanComing, TimerInv
<1>i. ASSUME Steady(c), ScanKept PROVE InTime(c)'
  BY <1>i, SteadyInTime
<1> HIDE DEF ScanKept
<1>1. ASSUME NEW d \in Conn, Gc(d) PROVE InTime(c)'
  <2>1. c # d /\ c \in nodes
    BY <1>1, <1>c DEF Gc, DelEvent
  <2>2. Steady(c)
    BY <1>1, <1>c, <1>k, <1>t, <2>1
       DEF Gc, DelEvent, del_node_requests, Steady, TypeOK, ClockTypes
  <2>3. ScanKept
    BY <1>1, <1>s DEF Gc
  <2> QED BY <1>i, <2>2, <2>3
<1>2. CASE Quiet
  <2>1. Steady(c)
    BY <1>2, <1>c, <1>k DEF Quiet, Steady, sessionVars, idVars, queueVars, netVars, helloVars
  <2>2. UNCHANGED <<scan_due, request_list>>
    BY <1>2 DEF Quiet, sessionVars, queueVars
  <2>3. CASE Event("SCAN", c) \in todo => Event("SCAN", c) \in todo'
    BY <1>i, <1>s, <2>1, <2>2, <2>3
  <2>4. CASE work_state[c] = "BUSY" \/ request_list[c] = <<>>
    <3>1. request_list[c] = <<>> => 1 \notin 1 .. Len(request_list'[c])
      BY <2>2, EmptySeq
    <3>2. ScanKept
      BY <2>4, <3>1 DEF ScanKept
    <3> QED BY <1>i, <2>1, <3>2
  <2> QED BY <1>2, <2>3, <2>4 DEF Quiet, Event
<1>3. CASE Select
  <2>1. Steady(c)
    BY <1>3, <1>c, <1>k DEF Select, Steady, sessionVars, idVars, queueVars, netVars, helloVars
  <2>2. todo = {} /\ todo' = Ready /\ c \in nodes
    BY <1>3, <1>c DEF Select, TopOfLoop, sessionVars, idVars
  <2>3. ScanComing(c) => ScanComing(c)'
    <3>1. scan_due => Event("SCAN", c) \in Ready
      BY <2>2 DEF Ready, IsReady, Watched, Event
    <3> QED BY <2>2, <3>1 DEF ScanComing
  <2> QED BY <1>i, <2>1, <2>3 DEF ScanKept
<1>4. CASE Listen
  <2>1. PICK d \in Conn : Accept(d)
    BY <1>4 DEF Listen, Backlog
  <2>2. /\ UNCHANGED <<link, age, hello_left, hello_due, scan_due>>
        /\ todo' = todo \ {Event("LISTEN", NULL)}
    BY <1>4 DEF Listen, Handled, netVars, helloVars
  <2>3. c # d
    BY <1>c, <1>t, <2>1 DEF Accept, TypeOK, HELLO_COUNT_DEFAULT
  <2>4. Steady(c)
    BY <1>c, <1>k, <1>t, <2>1, <2>2, <2>3 DEF Accept, Steady, TypeOK, queueVars
  <2>5. ScanKept
    BY <1>s, <2>2 DEF Event
  <2> QED BY <1>i, <2>4, <2>5
<1>5. CASE Tick
  BY <1>5, TickInTime
<1>6. ASSUME NEW d \in Conn, HelloTimer(d) PROVE InTime(c)'
  <2>1. /\ UNCHANGED <<link, nodes, age, hello_left, work_state>> /\ ScanDue
        /\ todo' = todo \ {Event("TIMER", d)} /\ hello_due' = hello_due \ {d}
    BY <1>6 DEF HelloTimer, HelloDead, HelloTick, Handled, netVars, idVars
  <2>2. CASE c # d
    <3>1. request_list'[c] = request_list[c] /\ hello_count'[c] = hello_count[c]
      BY <1>6, <1>t, <2>2
         DEF HelloTimer, HelloDead, HelloTick, ENQUEUE_IOT_REQUEST, TypeOK, queueVars
    <3>2. Steady(c)
      BY <1>c, <1>k, <2>1, <2>2, <3>1 DEF Steady
    <3>3. ScanKept
      BY <1>s, <2>1 DEF Event
    <3> QED BY <1>i, <3>2, <3>3
  <2>3. ASSUME c = d, HelloDead(c) PROVE FALSE
    <3>1. hello_count[c] = 0 /\ UNCHANGED hello_count
      BY <2>3 DEF HelloDead
    <3>2. link[c] = "open" /\ InTime(c)
      BY <1>c, <2>1, <3>1 DEF Missed, OnTime
    <3>3. c \in hello_due
      BY <1>6, <2>3 DEF HelloTimer, At, Events
    <3>4. Left(c) = 0 * HelloPeriod + 0
      BY <3>1, <3>3 DEF Left
    <3>5. Left(c) = 0
      BY <3>4, ClockAssumption
    <3> QED BY <3>2, <3>5, TimeLeft
  <2>4. ASSUME c = d, HelloTick(c) PROVE InTime(c)'
    <3>1. 0 <= Rest(c) /\ Rest(c) <= Slot
      BY <1>c, <2>1, TimeLeft
    <3>2. HelloTimer(c)
      BY <1>6, <2>4
    <3> QED BY <2>4, <3>1, <3>2, HelloInTime
  <2> QED BY <1>6, <2>2, <2>3, <2>4 DEF HelloTimer
<1>7. ASSUME NEW d \in Conn, ReadMsg(d) PROVE InTime(c)'
  <2>1. CASE c = d
    BY <1>7, <2>1, ReadInTime
  <2>2. CASE c # d
    <3>1. /\ UNCHANGED <<nodes, link, age, hello_left, hello_due>>
          /\ request_list'[c] = request_list[c] /\ work_state'[c] = work_state[c]
          /\ todo' = todo \ {Event("IOT", d)}
      BY <1>7, <2>2, ReadStep DEF helloVars
    <3>2. hello_count'[c] = hello_count[c]
      <4>1. ProcessMsg(d, inbox[d][1])
        BY <1>7, ReadStep
      <4> QED BY <1>t, <2>2, <4>1 DEF ProcessMsg, HelloMsg, CapsMsg, GetResp, SetResp, TypeOK,
                                      sessionVars
    <3>3. Steady(c)
      BY <1>c, <1>k, <3>1, <3>2 DEF Steady
    <3>4. ScanKept
      BY <1>7, <1>s, <3>1 DEF ReadMsg, Event
    <3> QED BY <1>i, <3>3, <3>4
  <2> QED BY <2>1, <2>2
<1>8. ASSUME NEW d \in Conn, ReadEnd(d) PROVE InTime(c)'
  <2>1. /\ UNCHANGED <<nodes, link, age, hello_count, hello_left, hello_due, request_list, scan_due>>
        /\ todo' = todo \ {Event("IOT", d)} /\ work_state' = [work_state EXCEPT ![d] = "FREE"]
    BY <1>8 DEF ReadEnd, Disconnect, Handled, netVars, helloVars, queueVars
  <2>2. c # d
    BY <1>8, <1>c, <2>1 DEF ReadEnd, At, Events
  <2>3. Steady(c)
    BY <1>c, <1>k, <1>t, <2>1, <2>2 DEF Steady, TypeOK
  <2>4. ScanKept
    BY <1>s, <2>1 DEF Event
  <2> QED BY <1>i, <2>3, <2>4
<1>9. ASSUME NEW d \in Conn, ScanSend(d) PROVE InTime(c)'
  <2>1. CASE c = d
    BY <1>9, <2>1, SendInTime
  <2>2. CASE c # d
    <3>1. /\ UNCHANGED <<nodes, link, hello_count, hello_left, hello_due, scan_due>>
          /\ todo' = todo \ {Event("SCAN", d)} /\ age'[c] = age[c]
          /\ request_list'[c] = request_list[c] /\ work_state'[c] = work_state[c]
      BY <1>9, <1>t, <2>2
         DEF ScanSend, SendHead, Handled, idVars, helloVars, TypeOK, ClockTypes
    <3>2. Steady(c)
      BY <1>c, <1>k, <3>1 DEF Steady
    <3>3. ScanKept
      BY <1>s, <2>2, <3>1 DEF Event
    <3> QED BY <1>i, <3>2, <3>3
  <2> QED BY <2>1, <2>2
<1>10. ASSUME NEW d \in Conn, ScanTimeout(d) PROVE InTime(c)'
  <2>1. /\ UNCHANGED <<nodes, link, age, hello_count, hello_left, hello_due>> /\ ScanDue
        /\ todo' = todo \ {Event("SCAN", d)} /\ work_state[d] = "BUSY"
        /\ age[d] >= BusyLimit /\ FinishHead(d)
    BY <1>10 DEF ScanTimeout, BusyTimeout, FinishHead, Handled, idVars, netVars, helloVars
  <2>2. c # d
    <3>1. ASSUME c = d PROVE FALSE
      <4>1. age[c] < BusyLimit
        BY <1>c, <2>1, <3>1, TimeLeft
      <4> QED BY <2>1, <3>1, <4>1, TimeTypes
    <3> QED BY <3>1
  <2>3. request_list'[c] = request_list[c] /\ work_state'[c] = work_state[c]
    BY <1>t, <2>1, <2>2 DEF FinishHead, delete_request, TypeOK
  <2>4. Steady(c)
    BY <1>c, <1>k, <2>1, <2>3 DEF Steady
  <2>5. ScanKept
    BY <1>s, <2>1, <2>2 DEF Event
  <2> QED BY <1>i, <2>4, <2>5
<1>11. ASSUME NEW r \in Request, DrainEnqueue(r) PROVE InTime(c)'
  <2>1. PICK d \in nodes : WorkEnqueue(d, r)
    BY <1>11, <1>t, EnqueueAtNode
  <2>2. /\ UNCHANGED <<nodes, link, age, hello_count, hello_left, hello_due, work_state, todo>>
        /\ ScanDue /\ request_list' = [request_list EXCEPT ![d] = Append(@, MqttEntry(r))]
    BY <1>11, <2>1 DEF DrainEnqueue, WorkEnqueue, ENQUEUE_IOT_REQUEST, idVars, netVars, helloVars
  <2>3. Keeps(request_list[c], request_list'[c])
    BY <1>k, <1>t, <2>2, EntryTypes, KeepsMoves
  <2>4. Steady(c)
    BY <1>c, <2>2, <2>3 DEF Steady
  <2>5. ScanKept
    BY <1>s, <2>2
  <2> QED BY <1>i, <2>4, <2>5
<1>12. ASSUME NEW d \in Conn, \/ Said(d) \/ \E n \in Name : Connect(d, n)
                              \/ \E how \in {"closed", "dead"} : Leave(d, how)
       PROVE  InTime(c)'
  <2>1. NodeStep
    BY <1>12 DEF Said, Answer, Volunteer, Connect, Leave
  <2>2. link[c] = "open"
    <3>1. CASE Said(d)
      BY <1>c, <3>1 DEF Said, Answer, Volunteer
    <3>2. CASE \E how \in {"closed", "dead"} : Leave(d, how)
      BY <1>c, <1>t, <3>2 DEF Leave
    <3>3. CASE \E n \in Name : Connect(d, n)
      <4>1. c # d
        BY <1>c, <2>1, <3>3 DEF Connect, Links, NodeStep, sessionVars, idVars
      <4> QED BY <1>c, <1>t, <3>3, <4>1 DEF Connect
    <3> QED BY <1>12, <3>1, <3>2, <3>3
  <2>3. Steady(c)
    BY <1>c, <1>k, <2>1, <2>2 DEF NodeStep, Steady, sessionVars, idVars, queueVars, helloVars
  <2>4. ScanKept
    BY <1>s, <2>1 DEF NodeStep
  <2> QED BY <1>i, <2>3, <2>4
<1> QED BY <1>1, <1>2, <1>3, <1>4, <1>5, <1>6, <1>7, <1>8, <1>9, <1>10, <1>11, <1>12,
           QuietSteps

(* A live node is not marked for deletion.                                   *)
LEMMA LiveKeptStep ==
    ASSUME MaxDelay < BusyLimit, GatewayInv, Links, Events, Conversation, LiveBusy, OnTime,
           LiveNodeKept, [GatewayNext]_gatewayVars
    PROVE  LiveNodeKept'
<1> USE DEF LiveNodeKept
<1>t. TypeOK /\ link \in [Conn -> {"free", "open", "closed", "dead"}]
  BY DEF GatewayInv, ClockTypes
<1>s. ASSUME del_mark' \subseteq del_mark, UNCHANGED link PROVE LiveNodeKept'
  BY <1>s
<1>1. ASSUME NEW c \in Conn, Gc(c) PROVE LiveNodeKept'
  BY <1>1, <1>t DEF Gc, DelEvent, TypeOK
<1>2. CASE Quiet \/ Select \/ Listen \/ Tick
  BY <1>2, <1>s DEF Quiet, Select, Listen, Tick, Accept, sessionVars, idVars, netVars
<1>3. ASSUME NEW c \in Conn, HelloTimer(c) PROVE LiveNodeKept'
  <2>1. CASE HelloTick(c)
    BY <1>3, <1>s, <2>1 DEF HelloTimer, HelloTick, idVars, netVars
  <2>2. CASE HelloDead(c)
    <3>1. hello_count[c] = 0 /\ c \in nodes /\ del_mark' = del_mark \cup {c}
      BY <2>2 DEF HelloDead
    <3>2. c \in hello_due
      BY <1>3 DEF HelloTimer, At, Events
    <3>3. ASSUME link[c] = "open" PROVE FALSE
      <4>1. InTime(c)
        BY <3>1, <3>3 DEF Missed, OnTime, HELLO_COUNT_DEFAULT
      <4>2. Left(c) = 0 * HelloPeriod + 0
        BY <3>1, <3>2 DEF Left
      <4>3. Left(c) = 0
        BY <4>2, ClockAssumption
      <4> QED BY <3>3, <4>1, <4>3, TimeLeft
    <3> QED BY <1>3, <3>1, <3>3 DEF HelloTimer, netVars
  <2> QED BY <1>3, <2>1, <2>2 DEF HelloTimer
<1>4. ASSUME NEW c \in Conn, ReadMsg(c) PROVE LiveNodeKept'
  BY <1>4, <1>s, ReadStep
<1>5. ASSUME NEW c \in Conn, ReadEnd(c) PROVE LiveNodeKept'
  BY <1>5 DEF ReadEnd, Disconnect, At, Events, netVars
<1>6. ASSUME NEW c \in Conn, ScanSend(c) \/ ScanTimeout(c) PROVE LiveNodeKept'
  BY <1>6, <1>s DEF ScanSend, SendHead, ScanTimeout, BusyTimeout, FinishHead, idVars, netVars
<1>7. ASSUME NEW r \in Request, DrainEnqueue(r) PROVE LiveNodeKept'
  BY <1>7, <1>s DEF DrainEnqueue, WorkEnqueue, idVars, netVars
<1>8. ASSUME NEW c \in Conn, Said(c) PROVE LiveNodeKept'
  BY <1>8, <1>s DEF Said, Answer, Volunteer, NodeStep, sessionVars, idVars
<1>9. ASSUME NEW c \in Conn, NEW n \in Name, Connect(c, n) PROVE LiveNodeKept'
  <2>1. c \notin del_mark /\ UNCHANGED del_mark
    BY <1>9, <1>t DEF Connect, Links, NodeStep, sessionVars, idVars, TypeOK
  <2> QED BY <1>9, <1>t, <2>1 DEF Connect
<1>10. ASSUME NEW c \in Conn, NEW how \in {"closed", "dead"}, Leave(c, how)
       PROVE  LiveNodeKept'
  BY <1>10, <1>t DEF Leave, NodeStep, sessionVars, idVars
<1> QED BY <1>1, <1>2, <1>3, <1>4, <1>5, <1>6, <1>7, <1>8, <1>9, <1>10, QuietSteps

(* What holds of live nodes when messages are read one at a time.            *)
LiveInv ==
    /\ GreetingInv /\ Labelled /\ Conversation /\ SentFree
    /\ LiveBusy /\ DueReset /\ OnTime /\ LiveNodeKept

LEMMA LiveStart == GatewayInit => LiveInv
<1> SUFFICES ASSUME GatewayInit PROVE LiveInv
  OBVIOUS
<1>1. GreetingInv /\ Labelled /\ Conversation /\ SentFree
  BY ServiceStart DEF ServiceInv
<1>2. LiveBusy /\ DueReset /\ OnTime /\ LiveNodeKept
  BY DEF GatewayInit, Init, LiveBusy, DueReset, OnTime, Missed, LiveNodeKept
<1> QED BY <1>1, <1>2 DEF LiveInv

(* The gateway only gives up a connection whose node is gone, however many    *)
(* requests it has to pass on, as long as one round of all that may be       *)
(* queued, each with the time a node takes to answer and one scan, is        *)
(* shorter than three hello periods, and a read takes one message.           *)
THEOREM GatewayKeepsLiveNodes ==
    ASSUME "CAPS" \notin Unasked, ReadMax = 1, MaxQueued <= CountMod,
           MaxDelay < BusyLimit, MaxQueued * (MaxDelay + 1) < 3 * HelloPeriod
    PROVE  GatewaySafety => []LiveNodeKept
<1>1. GatewayInit => LiveInv
  BY LiveStart
<1>2. LiveInv /\ TimerInv /\ TimerInv' /\ [GatewayNext]_gatewayVars => LiveInv'
  <2> SUFFICES ASSUME LiveInv, TimerInv, TimerInv', [GatewayNext]_gatewayVars PROVE LiveInv'
    OBVIOUS
  <2> USE DEF LiveInv
  <2>1. /\ GatewayInv /\ GatewayInv' /\ Links /\ Events /\ Greetings /\ Labelled
        /\ Conversation /\ SentFree /\ LiveBusy /\ DueReset /\ OnTime /\ LiveNodeKept
    BY GatewayStep DEF GreetingInv
  <2>2. GreetingInv' /\ Labelled' /\ Conversation' /\ SentFree'
    BY <2>1, GreetingStep, LabelledStep, ConversationStep, SentFreeStep
  <2>3. LiveBusy' /\ DueReset'
    BY <2>1, LiveBusyStep, DueResetStep
  <2>4. OnTime'
    BY <2>1, OnTimeStep
  <2>5. LiveNodeKept'
    BY <2>1, LiveKeptStep
  <2> QED BY <2>2, <2>3, <2>4, <2>5
<1>3. LiveInv => LiveNodeKept
  BY DEF LiveInv
<1>4. Spec => []TimerInv
  BY TimerInvariant
<1> QED BY <1>1, <1>2, <1>3, <1>4, GatewayIsSession, PTL DEF GatewaySafety

=============================================================================
