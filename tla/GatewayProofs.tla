----------------------------- MODULE GatewayProofs -----------------------------
(***************************************************************************)
(* Gateway is the composition it claims to be: every step of the process is *)
(* a step of NodeSession or leaves its variables alone, and likewise for    *)
(* WorkHandoff.  What is proved about these two modules therefore holds in  *)
(* the whole gateway.                                                       *)
(***************************************************************************)
EXTENDS Gateway, NodeSessionProofs

(***************************************************************************)
(* What the proofs need of the network and of the select loop               *)
(***************************************************************************)

(* A node announces a name in a CAPS.                                        *)
NodeMessage == {m \in Message : m.msg = "CAPS" => m.name \in Name}

(* Messages on the two directions of the sockets are well formed.            *)
NetTypes ==
    /\ inbox \in [Conn -> Seq(NodeMessage)]
    /\ wire \in [Conn -> Seq(Entry)]

(* The main thread has the hand-off open only while it handles the pipe.     *)
PipeFirst == mpc # "loop" => PipeIsNext

(* The events of a pass come from descriptors that are watched, and while    *)
(* they are handled no entry leaves events_list.                             *)
LoopTypes == todo \in SUBSET Watched /\ PipeFirst

(* Everything a node can say is a message.                                   *)
LEMMA SayTypes ==
    ASSUME NetTypes, NEW c \in Conn, NEW msg, NEW r, NEW n, Say(c, msg, r, n),
           [msg |-> msg, of |-> r, name |-> n] \in NodeMessage
    PROVE  inbox' \in [Conn -> Seq(NodeMessage)]
<1>1. Append(inbox[c], [msg |-> msg, of |-> r, name |-> n]) \in Seq(NodeMessage)
  BY AppendProperties DEF NetTypes
<1> QED BY <1>1 DEF NetTypes, Say

(* The nodes and the handlers put nothing else on the wire.                  *)
LEMMA NetStep ==
    ASSUME TypeOK, NetTypes, [GatewayNext]_gatewayVars
    PROVE  NetTypes'
<1> USE DEF NetTypes
<1>e. <<>> \in Seq(NodeMessage) /\ <<>> \in Seq(Entry)
  BY EmptySeq
<1>1. ASSUME NEW c \in Conn, Gc(c) PROVE NetTypes'
  BY <1>1, <1>e DEF Gc
<1>2. ASSUME NEW c \in Conn, ReadMsg(c) PROVE NetTypes'
  <2>1. PICK k \in 1 .. ReadMax :
            /\ k <= Len(inbox[c])
            /\ inbox' = [inbox EXCEPT ![c] = SubSeq(@, k + 1, Len(@))]
    BY <1>2 DEF ReadMsg
  <2>2. /\ k \in Nat /\ Len(inbox[c]) \in Nat
        /\ \A i \in 1 .. Len(inbox[c]) : inbox[c][i] \in NodeMessage
    BY ClockAssumption, LenProperties, ElementOfSeq
  <2>3. \A i \in k + 1 .. Len(inbox[c]) : inbox[c][i] \in NodeMessage
    BY <2>2
  <2>4. SubSeq(inbox[c], k + 1, Len(inbox[c])) \in Seq(NodeMessage)
    BY <2>2, <2>3, SubSeqProperties
  <2> QED BY <1>2, <2>1, <2>4 DEF ReadMsg
<1>3. ASSUME NEW c \in Conn, ScanSend(c) PROVE NetTypes'
  <2>1. Head(request_list[c]) \in Entry
    BY <1>3, HeadTailProperties DEF ScanSend, SendHead, TypeOK
  <2>2. Append(wire[c], Head(request_list[c])) \in Seq(Entry)
    BY <2>1, AppendProperties
  <2> QED BY <1>3, <2>2 DEF ScanSend
<1>4. ASSUME NEW c \in Conn, NEW n \in Name, Connect(c, n) PROVE NetTypes'
  <2>1. [msg |-> "CAPS", of |-> NULL, name |-> n] \in NodeMessage
    BY DEF NodeMessage, Message
  <2> QED BY <1>4, <2>1, SayTypes DEF Connect
<1>5. ASSUME NEW c \in Conn, Answer(c) PROVE NetTypes'
  <2>1. Head(wire[c]) \in Entry /\ Tail(wire[c]) \in Seq(Entry)
    BY <1>5, HeadTailProperties DEF Answer
  <2>2. [msg |-> Head(wire[c]).type, of |-> Head(wire[c]).data, name |-> NULL] \in NodeMessage
    BY <2>1 DEF Entry, NodeMessage, Message
  <2>3. inbox' \in [Conn -> Seq(NodeMessage)]
    BY <1>5, <2>2, SayTypes DEF Answer
  <2> QED BY <1>5, <2>1, <2>3 DEF Answer
<1>6. ASSUME NEW c \in Conn, NEW n \in Name, NEW msg \in Unasked, Volunteer(c, msg, n)
      PROVE  NetTypes'
  <2>1. [msg |-> msg, of |-> NULL, name |-> n] \in NodeMessage
    BY UnaskedAssumption DEF NodeMessage, Message
  <2> QED BY <1>6, <2>1, SayTypes DEF Volunteer
<1>7. ASSUME NEW c \in Conn, NEW how, Leave(c, how) PROVE NetTypes'
  BY <1>7, <1>e DEF Leave
<1>8. CASE UNCHANGED <<inbox, wire>>
  BY <1>8
<1>9. ASSUME NEW c \in Conn, \/ HelloTimer(c) \/ ReadEnd(c) \/ ScanTimeout(c) \/ ScanSkip(c)
       PROVE  NetTypes'
  BY <1>9, <1>8 DEF netVars, HelloTimer, ReadEnd, ScanTimeout, ScanSkip
<1>10. CASE Select \/ PipeRead \/ DrainStep \/ Listen
  BY <1>10, <1>8 DEF netVars, Select, PipeRead, DrainStep, Listen
<1>11. ASSUME NEW r \in Request, DrainEnqueue(r) \/ DrainNotFound(r) PROVE NetTypes'
  BY <1>11, <1>8 DEF netVars, DrainEnqueue, DrainNotFound
<1>12. CASE \/ Tick \/ UNCHANGED gatewayVars
            \/ \E t \in Thread : ThreadRuns(t) \/ \E r \in Request : Submit(t, r)
  BY <1>12, <1>8 DEF netVars, gatewayVars, Tick, ThreadRuns, Submit
<1> QED BY <1>1, <1>2, <1>3, <1>4, <1>5, <1>6, <1>7, <1>9, <1>10, <1>11, <1>12
        DEF GatewayNext, MainLoop

(* Which event comes first says what else is still to come.                 *)
LEMMA FirstEvent ==
    ASSUME todo \in SUBSET Watched, NEW kind, NEW c, At(kind, c)
    PROVE  /\ kind = "SCAN" => \A d \in todo : d.kind \in {"SCAN", "PIPE", "LISTEN"}
           /\ kind = "PIPE" => \A d \in todo : d.kind \in {"PIPE", "LISTEN"}
           /\ kind = "LISTEN" => todo = {Event("LISTEN", NULL)}
<1>1. ASSUME NEW d \in todo PROVE d.kind \in DOMAIN Phase /\ ~(Phase[d.kind] < Phase[kind])
  BY <1>1 DEF At, Before, Event, Watched, Phase
<1>2. CASE kind = "LISTEN"
  <2>1. \A d \in todo : d = Event("LISTEN", NULL)
    BY <1>1, <1>2 DEF Phase, Watched, Event
  <2> QED BY <1>2, <2>1 DEF At
<1> QED BY <1>1, <1>2 DEF Phase

(* Connections enter and leave events_list at accept() and at the collector  *)
(* only, the latter between two passes; within a pass todo only shrinks.     *)
LEMMA LoopFrame ==
    ASSUME [GatewayNext]_gatewayVars
    PROVE  /\ UNCHANGED <<nodes, order>> \/ Listen \/ \E c \in Conn : Gc(c)
           /\ todo' \subseteq todo \/ Select
<1> USE DEF idVars, sessionVars
<1>1. CASE Select \/ PipeRead \/ DrainStep \/ Listen \/ Tick
  BY <1>1 DEF Select, PipeRead, DrainStep, Listen, Tick, Handled
<1>2. ASSUME NEW c \in Conn, \/ Gc(c) \/ HelloTimer(c) \/ ReadEnd(c)
                             \/ ScanSend(c) \/ ScanTimeout(c) \/ ScanSkip(c)
      PROVE  /\ UNCHANGED <<nodes, order>> \/ Gc(c)
             /\ todo' \subseteq todo
  BY <1>2 DEF Gc, HelloTimer, ReadEnd, ScanSend, ScanTimeout, ScanSkip, Handled, HelloDead,
              HelloTick, Disconnect, SendHead, BusyTimeout, FinishHead
<1>3. ASSUME NEW c \in Conn, ReadMsg(c)
      PROVE  UNCHANGED <<nodes, order>> /\ todo' \subseteq todo
  <2>1. UNCHANGED order /\ todo' \subseteq todo /\ ProcessMsg(c, Head(inbox[c]))
    BY <1>3 DEF ReadMsg, Handled
  <2>2. UNCHANGED nodes
    BY <2>1 DEF ProcessMsg, HelloMsg, CapsMsg, GetResp, SetResp, AssertFails, FinishHead, Crash
  <2> QED BY <2>1, <2>2
<1>4. ASSUME NEW r \in Request, DrainEnqueue(r) \/ DrainNotFound(r)
      PROVE  UNCHANGED <<nodes, order, todo>>
  BY <1>4 DEF DrainEnqueue, DrainNotFound, WorkEnqueue
<1>5. ASSUME NEW t \in Thread, ThreadRuns(t) \/ \E r \in Request : Submit(t, r)
      PROVE  UNCHANGED <<nodes, order, todo>>
  BY <1>5 DEF ThreadRuns, Submit
<1>6. ASSUME NodeStep PROVE UNCHANGED <<nodes, order, todo>>
  BY <1>6 DEF NodeStep
<1>7. CASE UNCHANGED gatewayVars
  BY <1>7 DEF gatewayVars
<1> QED BY <1>1, <1>2, <1>3, <1>4, <1>5, <1>6, <1>7
        DEF GatewayNext, MainLoop, Connect, Answer, Volunteer, Leave

(* What the loop does with the pipe, from read() to the unlock, is one event. *)
LEMMA PipeStep ==
    ASSUME LoopTypes, [GatewayNext]_gatewayVars
    PROVE  PipeFirst'
<1> USE DEF LoopTypes, PipeFirst
<1>s. ASSUME UNCHANGED <<mpc, todo>> PROVE PipeFirst'
  BY <1>s DEF PipeIsNext
<1>1. CASE Select
  BY <1>1 DEF Select, TopOfLoop, PipeIsNext, handoffVars
<1>2. CASE PipeRead
  <2>1. \A d \in todo : d.kind \in {"PIPE", "LISTEN"}
    BY <1>2, FirstEvent DEF PipeRead
  <2> QED BY <1>2, <2>1 DEF PipeRead, At, PipeIsNext
<1>3. CASE DrainStep
  BY <1>3 DEF DrainStep, PipeIsNext, Handoff!MainLock, Handoff!DrainPass, Handoff!MainUnlock
<1>4. CASE Listen
  <2>1. todo = {Event("LISTEN", NULL)}
    BY <1>4, FirstEvent DEF Listen
  <2> QED BY <1>4, <2>1 DEF Listen, PipeIsNext, Event, handoffVars
<1>5. ASSUME NEW c \in Conn, \/ HelloTimer(c) \/ ReadMsg(c) \/ ReadEnd(c)
                             \/ ScanSend(c) \/ ScanTimeout(c) \/ ScanSkip(c)
      PROVE  PipeFirst'
  <2>1. \E kind \in {"TIMER", "IOT", "SCAN"} : At(kind, c)
    BY <1>5 DEF HelloTimer, ReadMsg, ReadEnd, ScanSend, ScanTimeout, ScanSkip
  <2>2. mpc = "loop"
    BY <2>1 DEF At, Event, PipeIsNext
  <2>3. UNCHANGED mpc
    BY <1>5 DEF HelloTimer, ReadMsg, ReadEnd, ScanSend, ScanTimeout, ScanSkip, handoffVars
  <2> QED BY <2>2, <2>3
<1>6. ASSUME NEW c \in Conn, Gc(c) PROVE PipeFirst'
  BY <1>6 DEF Gc, TopOfLoop, PipeIsNext, handoffVars
<1>7. ASSUME NEW r \in Request, DrainEnqueue(r) \/ DrainNotFound(r) PROVE PipeFirst'
  BY <1>7, <1>s DEF DrainEnqueue, DrainNotFound, Handoff!DrainFound, Handoff!DrainRefuse
<1>8. ASSUME NEW t \in Thread, ThreadRuns(t) PROVE PipeFirst'
  BY <1>8, <1>s DEF ThreadRuns, Handoff!ThreadStep, Handoff!ThreadLock, Handoff!ThreadAdd,
                    Handoff!ThreadSignal, Handoff!mainVars
<1>9. ASSUME NEW t \in Thread, NEW r \in Request, Submit(t, r) PROVE PipeFirst'
  BY <1>9, <1>s DEF Submit, Handoff!Receive, Handoff!mainVars
<1>10. CASE Tick
  BY <1>10, <1>s DEF Tick, handoffVars
<1>11. ASSUME NodeStep PROVE PipeFirst'
  BY <1>11, <1>s DEF NodeStep, handoffVars
<1>12. CASE UNCHANGED gatewayVars
  BY <1>12, <1>s DEF gatewayVars, handoffVars
<1> QED BY <1>1, <1>2, <1>3, <1>4, <1>5, <1>6, <1>7, <1>8, <1>9, <1>10, <1>11, <1>12
        DEF GatewayNext, MainLoop, Connect, Answer, Volunteer, Leave

(* Events are watched, from select() to the end of the pass.                 *)
LEMMA LoopStep ==
    ASSUME LoopTypes, [GatewayNext]_gatewayVars
    PROVE  LoopTypes'
<1>1. todo' \in SUBSET Watched'
  <2>1. CASE Select
    BY <2>1 DEF Select, Ready, Watched, sessionVars, idVars
  <2>2. CASE todo' \subseteq todo /\ UNCHANGED nodes
    BY <2>2 DEF LoopTypes, Watched
  <2>3. CASE Listen
    <3>1. todo' = {}
      BY <2>3, FirstEvent DEF Listen, Handled, LoopTypes
    <3> QED BY <3>1
  <2>4. ASSUME NEW c \in Conn, Gc(c) PROVE todo' \in SUBSET Watched'
    BY <2>4 DEF Gc, TopOfLoop
  <2> QED BY <2>1, <2>2, <2>3, <2>4, LoopFrame
<1> QED BY <1>1, PipeStep DEF LoopTypes

(***************************************************************************)
(* The handlers                                                             *)
(***************************************************************************)

(* Whatever the select loop, the threads, the clock or a node does is one of *)
(* the handlers of NodeSession, or changes nothing there.                    *)
LEMMA SessionStep ==
    ASSUME TypeOK, NetTypes, [GatewayNext]_gatewayVars
    PROVE  [Next]_sessionVars
<1>1. ASSUME NEW c \in Conn, Gc(c) PROVE Next
  BY <1>1 DEF Gc, Next
<1>2. ASSUME NEW c \in Conn, HelloTimer(c) PROVE Next
  BY <1>2 DEF HelloTimer, Next
<1>3. ASSUME NEW c \in Conn, ReadMsg(c) PROVE [Next]_sessionVars
  <2>1. Head(inbox[c]) \in NodeMessage
    BY <1>3, HeadTailProperties DEF ReadMsg, NetTypes
  <2>2. ProcessMsg(c, Head(inbox[c]))
    BY <1>3 DEF ReadMsg
  <2>3. ASSUME NEW m \in NodeMessage, ProcessMsg(c, m) PROVE [Next]_sessionVars
    <3>1. CASE m.msg = "HELLO" /\ HelloMsg(c)
      BY <3>1 DEF Next
    <3>2. CASE m.msg = "CAPS" /\ CapsMsg(c, m.name)
      BY <3>2 DEF Next, NodeMessage
    <3>3. CASE GetResp(c, TRUE)
      BY <3>3 DEF Next
    <3>4. CASE SetResp(c, TRUE)
      BY <3>4 DEF Next
    <3>5. CASE UNCHANGED sessionVars
      BY <3>5
    <3> QED BY <2>3, <3>1, <3>2, <3>3, <3>4, <3>5 DEF ProcessMsg
  <2> QED BY <2>1, <2>2, <2>3
<1>4. ASSUME NEW c \in Conn, ReadEnd(c) PROVE Next
  BY <1>4 DEF ReadEnd, Next
<1>5. ASSUME NEW c \in Conn, ScanSend(c) PROVE Next
  BY <1>5 DEF ScanSend, Next
<1>6. ASSUME NEW c \in Conn, ScanTimeout(c) PROVE Next
  BY <1>6 DEF ScanTimeout, Next
<1>7. CASE Listen
  BY <1>7 DEF Listen, Backlog, Next
<1>8. ASSUME NEW r \in Request, DrainEnqueue(r) PROVE Next
  <2> DEFINE c == FirstNamed(Target[r])
  <2>1. WorkEnqueue(c, r)
    BY <1>8 DEF DrainEnqueue
  <2> HIDE DEF c
  <2>2. c \in Conn
    BY <2>1 DEF WorkEnqueue, TypeOK
  <2> QED BY <2>1, <2>2 DEF Next
<1>9. CASE Select \/ PipeRead \/ DrainStep \/ Tick
  BY <1>9 DEF Select, PipeRead, DrainStep, Tick
<1>10. ASSUME NEW c \in Conn, ScanSkip(c) PROVE UNCHANGED sessionVars
  BY <1>10 DEF ScanSkip
<1>11. ASSUME NEW r \in Request, DrainNotFound(r) PROVE UNCHANGED sessionVars
  BY <1>11 DEF DrainNotFound
<1>12. ASSUME NEW t \in Thread, ThreadRuns(t) \/ \E r \in Request : Submit(t, r)
       PROVE  UNCHANGED sessionVars
  BY <1>12 DEF ThreadRuns, Submit
<1>13. ASSUME NodeStep PROVE UNCHANGED sessionVars
  BY <1>13 DEF NodeStep
<1>14. CASE UNCHANGED gatewayVars
  BY <1>14 DEF gatewayVars
<1> QED BY <1>1, <1>2, <1>3, <1>4, <1>5, <1>6, <1>7, <1>8, <1>9, <1>10, <1>11, <1>12,
           <1>13, <1>14 DEF GatewayNext, MainLoop, Connect, Answer, Volunteer, Leave

(***************************************************************************)
(* The types of the gateway                                                 *)
(***************************************************************************)

(* events_list has each connection once.                                     *)
OrderTypes == order \in Seq(nodes) /\ ToSet(order) = nodes /\ IsInjective(order)

ClockTypes ==
    /\ link \in [Conn -> {"free", "open", "closed", "dead"}]
    /\ spoke \in SUBSET Conn
    /\ hello_left \in [Conn -> 1 .. HelloPeriod]
    /\ hello_due \in SUBSET nodes
    /\ scan_due \in BOOLEAN
    /\ age \in [Conn -> 0 .. BusyLimit]

HistoryTypes ==
    /\ handed \in [Request -> 0 .. 2]
    /\ told \in [Request -> Request \cup {NULL, "refused"}]

(* A new entry is added in front, and list_del takes the one that goes.      *)
LEMMA OrderStep ==
    ASSUME TypeOK, OrderTypes, [GatewayNext]_gatewayVars
    PROVE  OrderTypes'
<1>d. /\ Len(order) \in Nat /\ DOMAIN order = 1 .. Len(order)
      /\ \A i, j \in 1 .. Len(order) : i # j => order[i] # order[j]
  BY LenProperties DEF OrderTypes, IsInjective
<1>1. CASE Listen
  <2>1. PICK c \in Conn : c \notin nodes /\ nodes' = nodes \cup {c} /\ order' = <<c>> \o order
    BY <1>1 DEF Listen, Accept, Backlog
  <2>2. order \in Seq(nodes') /\ c \in nodes' /\ c \notin ToSet(order)
    BY <2>1, SeqMonotonic DEF OrderTypes
  <2>3. /\ order' \in Seq(nodes')
        /\ Len(order') = Len(order) + 1
        /\ order'[1] = c
        /\ \A j \in 2 .. Len(order) + 1 : order'[j] = order[j - 1]
    BY <2>1, <2>2, InFront
  <2>4. /\ \A i, j \in 1 .. Len(order') : i # j => order'[i] # order'[j]
        /\ \A d \in ToSet(order') : d = c \/ d \in ToSet(order)
    <3>1. order' = <<c>> \o order \/ order' = Append(order, c)
      BY <2>1
    <3>2. \A i, j \in 1 .. Len(order) : i # j => order[i] # order[j]
      BY <1>d
    <3> HIDE <1>d, <2>1
    <3> QED BY <2>2, <3>1, <3>2, AddedOnce
  <2>5. ASSUME NEW d \in nodes' PROVE d \in ToSet(order')
    <3>1. CASE d = c
      BY <1>d, <2>3, <3>1, Members
    <3>2. CASE d # c
      <4>1. PICK j \in 1 .. Len(order) : order[j] = d
        BY <2>1, <2>5, <3>2, Members DEF OrderTypes
      <4>2. j + 1 \in 2 .. Len(order) + 1 /\ (j + 1) - 1 = j
        BY <1>d
      <4>3. order'[j + 1] = d
        BY <2>3, <4>1, <4>2
      <4>4. j + 1 \in 1 .. Len(order')
        BY <1>d, <2>3
      <4> QED BY <2>3, <4>3, <4>4, Members
    <3> QED BY <3>1, <3>2
  <2>6. DOMAIN order' = 1 .. Len(order')
    BY <2>3, LenProperties
  <2> QED BY <2>1, <2>3, <2>4, <2>5, <2>6 DEF OrderTypes, IsInjective
<1>2. ASSUME NEW c \in Conn, Gc(c) PROVE OrderTypes'
  <2>1. PICK i \in 1 .. Len(order) : order[i] = c /\ order' = RemoveAt(order, i)
    BY <1>2 DEF Gc
  <2>2. nodes' = nodes \ {c}
    BY <1>2 DEF Gc, DelEvent
  <2>3. order' \in Seq(nodes)
    BY <2>1, Removed DEF OrderTypes
  <2>4. /\ \A k, j \in 1 .. Len(order') : k # j => order'[k] # order'[j]
        /\ ToSet(order') = nodes'
    BY <1>d, <2>1, <2>2, RemovedOnce DEF OrderTypes
  <2>5. DOMAIN order' = 1 .. Len(order') /\ order' \in [1 .. Len(order') -> nodes]
    BY <2>3, LenProperties
  <2>6. \A k \in 1 .. Len(order') : order'[k] \in nodes'
    BY <2>3, <2>4, Members
  <2>7. order' \in Seq(nodes')
    <3>1. Len(order') \in Nat /\ order' \in [1 .. Len(order') -> nodes']
      BY <2>3, <2>5, <2>6, LenProperties
    <3> QED BY <3>1
  <2> QED BY <2>4, <2>5, <2>7 DEF OrderTypes, IsInjective
<1>3. CASE UNCHANGED <<nodes, order>>
  BY <1>3 DEF OrderTypes
<1> QED BY <1>1, <1>2, <1>3, LoopFrame

(* The timers, the ages and the ends of the sockets.                         *)
LEMMA ClockStep ==
    ASSUME TypeOK, TypeOK', ClockTypes, [GatewayNext]_gatewayVars
    PROVE  ClockTypes'
<1> USE DEF ClockTypes, netVars, helloVars
<1>a. 0 \in 0 .. BusyLimit /\ HelloPeriod \in 1 .. HelloPeriod
  BY ClockAssumption
<1>s. ScanDue => scan_due' \in BOOLEAN
  BY DEF ScanDue, TypeOK
<1>n. UNCHANGED nodes \/ Listen \/ \E c \in Conn : Gc(c)
  BY LoopFrame
<1>1. ASSUME NEW c \in Conn, Gc(c) PROVE ClockTypes'
  BY <1>1, <1>a, <1>s DEF Gc, DelEvent
<1>2. CASE Listen
  BY <1>2 DEF Listen, Accept
<1>3. CASE Tick
  <2>1. hello_left' \in [Conn -> 1 .. HelloPeriod]
    <3>1. \A c \in Conn : hello_left[c] # 1 => hello_left[c] - 1 \in 1 .. HelloPeriod
      BY ClockAssumption
    <3> QED BY <1>3, <1>a, <3>1 DEF Tick
  <2>2. age' \in [Conn -> 0 .. BusyLimit]
    <3>1. \A c \in Conn : age[c] < BusyLimit => age[c] + 1 \in 0 .. BusyLimit
      BY ClockAssumption
    <3> QED BY <1>3, <3>1 DEF Tick
  <2>3. hello_due' \subseteq nodes' /\ scan_due' \in BOOLEAN /\ spoke' \subseteq Conn
    BY <1>3 DEF Tick, sessionVars, idVars, TypeOK
  <2> QED BY <1>3, <2>1, <2>2, <2>3 DEF Tick
<1>4. CASE UNCHANGED nodes
  <2>1. CASE \/ Select \/ PipeRead \/ DrainStep \/ UNCHANGED gatewayVars
             \/ \E t \in Thread : ThreadRuns(t) \/ \E r \in Request : Submit(t, r)
    BY <1>4, <2>1 DEF Select, PipeRead, DrainStep, ThreadRuns, Submit, gatewayVars
  <2>2. ASSUME NEW c \in Conn, HelloTimer(c) PROVE ClockTypes'
    BY <1>4, <1>s, <2>2 DEF HelloTimer
  <2>3. ASSUME NEW c \in Conn, ReadMsg(c) \/ ReadEnd(c) PROVE ClockTypes'
    BY <1>4, <1>s, <2>3 DEF ReadMsg, ReadEnd
  <2>4. ASSUME NEW c \in Conn, ScanSend(c) \/ ScanTimeout(c) \/ ScanSkip(c) PROVE ClockTypes'
    BY <1>4, <1>a, <1>s, <2>4 DEF ScanSend, ScanTimeout, ScanSkip
  <2>5. ASSUME NEW r \in Request, DrainEnqueue(r) \/ DrainNotFound(r) PROVE ClockTypes'
    BY <1>4, <1>s, <2>5 DEF DrainEnqueue, DrainNotFound
  <2>6. ASSUME NEW c \in Conn, NEW n \in Name, Connect(c, n) PROVE ClockTypes'
    BY <1>4, <2>6 DEF Connect, NodeStep
  <2>7. ASSUME NEW c \in Conn, NEW how \in {"closed", "dead"}, Leave(c, how) PROVE ClockTypes'
    BY <1>4, <2>7 DEF Leave, NodeStep
  <2>8. ASSUME NEW c \in Conn, \/ Answer(c)
                               \/ \E n \in Name, msg \in Unasked : Volunteer(c, msg, n)
        PROVE  ClockTypes'
    BY <1>4, <2>8 DEF Answer, Volunteer, NodeStep
  <2> QED BY <1>1, <1>2, <1>3, <2>1, <2>2, <2>3, <2>4, <2>5, <2>6, <2>7, <2>8
          DEF GatewayNext, MainLoop
<1> QED BY <1>1, <1>2, <1>4, <1>n

(* What is counted and remembered about each request.                       *)
LEMMA HistoryStep ==
    ASSUME TypeOK, NetTypes, HistoryTypes, [GatewayNext]_gatewayVars
    PROVE  HistoryTypes'
<1> USE DEF HistoryTypes, historyVars
<1>1. ASSUME NEW c \in Conn, ReadMsg(c) PROVE HistoryTypes'
  <2>1. Head(inbox[c]) \in Message
    BY <1>1, HeadTailProperties DEF ReadMsg, NetTypes, NodeMessage
  <2>2. ASSUME NEW m \in Message, ProcessMsg(c, m) PROVE told' \in [Request -> Request \cup {NULL, "refused"}]
    BY <2>2 DEF ProcessMsg, Message
  <2> QED BY <1>1, <2>1, <2>2 DEF ReadMsg
<1>2. ASSUME NEW c \in Conn, ScanSend(c) PROVE HistoryTypes'
  BY <1>2 DEF ScanSend
<1>3. ASSUME NEW c \in Conn, \/ Gc(c) \/ HelloTimer(c) \/ ReadEnd(c)
                             \/ ScanTimeout(c) \/ ScanSkip(c)
      PROVE  HistoryTypes'
  BY <1>3 DEF Gc, HelloTimer, ReadEnd, ScanTimeout, ScanSkip
<1>4. CASE Select \/ PipeRead \/ DrainStep \/ Listen \/ Tick
  BY <1>4 DEF Select, PipeRead, DrainStep, Listen, Tick
<1>5. ASSUME NEW r \in Request, DrainEnqueue(r) \/ DrainNotFound(r) PROVE HistoryTypes'
  BY <1>5 DEF DrainEnqueue, DrainNotFound
<1>6. ASSUME NEW t \in Thread, ThreadRuns(t) \/ \E r \in Request : Submit(t, r)
      PROVE  HistoryTypes'
  BY <1>6 DEF ThreadRuns, Submit
<1>7. ASSUME NodeStep PROVE HistoryTypes'
  BY <1>7 DEF NodeStep
<1>8. CASE UNCHANGED gatewayVars
  BY <1>8 DEF gatewayVars
<1> QED BY <1>1, <1>2, <1>3, <1>4, <1>5, <1>6, <1>7, <1>8
        DEF GatewayNext, MainLoop, Connect, Answer, Volunteer, Leave

(***************************************************************************)
(* The hand-off                                                             *)
(***************************************************************************)

handoff == <<Handoff!handoffVars, KnownNames>>

(* Whatever the gateway does is a step of the hand-off, a change of the      *)
(* connected nodes while no drain is under way, or no change at all.         *)
LEMMA HandoffStep ==
    ASSUME LoopTypes, [GatewayNext]_gatewayVars
    PROVE  [Handoff!Next]_handoff
<1> USE DEF LoopTypes, PipeFirst
<1>k. ASSUME UNCHANGED sessionVars PROVE UNCHANGED KnownNames
  BY <1>k DEF sessionVars, idVars, KnownNames
<1>h. ASSUME UNCHANGED handoffVars PROVE UNCHANGED Handoff!handoffVars
  BY <1>h DEF handoffVars, Handoff!handoffVars, Handoff!threadVars, Handoff!mainVars
<1>s. ASSUME UNCHANGED <<sessionVars, handoffVars>> PROVE [Handoff!Next]_handoff
  BY <1>s, <1>k, <1>h DEF handoff
<1>n. ASSUME mpc = "loop", UNCHANGED handoffVars PROVE [Handoff!Next]_handoff
  <2>1. KnownNames' \in SUBSET Name
    BY DEF KnownNames
  <2> QED BY <1>n, <1>h, <2>1 DEF Handoff!Next, Handoff!NodesChange
<1>p. ASSUME UNCHANGED KnownNames, Handoff!MainStep PROVE [Handoff!Next]_handoff
  BY <1>p DEF Handoff!Next, Handoff!Step
<1>1. CASE Select
  BY <1>1, <1>s DEF Select
<1>2. CASE PipeRead
  BY <1>2, <1>k, <1>p DEF PipeRead, Handoff!MainStep
<1>3. CASE DrainStep
  BY <1>3, <1>k, <1>p DEF DrainStep, Handoff!MainStep, Handoff!Requests, Request
<1>4. CASE Listen
  <2>1. todo = {Event("LISTEN", NULL)}
    BY <1>4, FirstEvent DEF Listen, LoopTypes
  <2> QED BY <1>4, <1>n, <2>1 DEF Listen, Event, PipeIsNext
<1>5. ASSUME NEW c \in Conn, \/ HelloTimer(c) \/ ReadMsg(c) \/ ReadEnd(c)
                             \/ ScanSend(c) \/ ScanTimeout(c) \/ ScanSkip(c)
      PROVE  [Handoff!Next]_handoff
  <2>1. \E kind \in {"TIMER", "IOT", "SCAN"} : At(kind, c)
    BY <1>5 DEF HelloTimer, ReadMsg, ReadEnd, ScanSend, ScanTimeout, ScanSkip
  <2>2. mpc = "loop"
    BY <2>1 DEF At, Event, PipeIsNext
  <2>3. UNCHANGED handoffVars
    BY <1>5 DEF HelloTimer, ReadMsg, ReadEnd, ScanSend, ScanTimeout, ScanSkip
  <2> QED BY <1>n, <2>2, <2>3
<1>6. ASSUME NEW c \in Conn, Gc(c) PROVE [Handoff!Next]_handoff
  BY <1>6, <1>n DEF Gc, TopOfLoop, PipeIsNext
<1>7. ASSUME NEW r \in Request, DrainEnqueue(r) PROVE [Handoff!Next]_handoff
  <2>1. UNCHANGED KnownNames
    BY <1>7 DEF DrainEnqueue, WorkEnqueue, idVars, KnownNames
  <2> QED BY <1>7, <1>p, <2>1 DEF DrainEnqueue, Handoff!MainStep, Handoff!Requests, Request
<1>8. ASSUME NEW r \in Request, DrainNotFound(r) PROVE [Handoff!Next]_handoff
  BY <1>8, <1>k, <1>p DEF DrainNotFound, Handoff!MainStep, Handoff!Requests, Request
<1>9. ASSUME NEW t \in Thread, ThreadRuns(t) PROVE [Handoff!Next]_handoff
  BY <1>9, <1>k DEF ThreadRuns, Handoff!Next, Handoff!Step
<1>10. ASSUME NEW t \in Thread, NEW r \in Request, Submit(t, r) PROVE [Handoff!Next]_handoff
  BY <1>10, <1>k DEF Submit, Handoff!Next, Handoff!Step, Handoff!Requests, Request
<1>11. CASE Tick
  BY <1>11, <1>s DEF Tick
<1>12. ASSUME NodeStep PROVE [Handoff!Next]_handoff
  BY <1>12, <1>s DEF NodeStep
<1>13. CASE UNCHANGED gatewayVars
  BY <1>13, <1>s DEF gatewayVars
<1> QED BY <1>1, <1>2, <1>3, <1>4, <1>5, <1>6, <1>7, <1>8, <1>9, <1>10, <1>11, <1>12,
           <1>13 DEF GatewayNext, MainLoop, Connect, Answer, Volunteer, Leave

(***************************************************************************)
(* The invariant of the gateway                                             *)
(***************************************************************************)

(* What holds whatever the nodes send and however long they take.           *)
GatewayInv ==
    /\ TypeOK /\ QueueInv
    /\ NetTypes /\ LoopTypes /\ OrderTypes /\ ClockTypes /\ HistoryTypes

LEMMA GatewayStart == GatewayInit => GatewayInv
<1> SUFFICES ASSUME GatewayInit PROVE GatewayInv
  OBVIOUS
<1>1. TypeOK /\ QueueInv
  BY SessionStart DEF GatewayInit
<1>2. NetTypes
  BY EmptySeq DEF GatewayInit, NetTypes
<1>3. LoopTypes
  BY DEF GatewayInit, Handoff!Init, LoopTypes, PipeFirst
<1>4. OrderTypes
  <2>1. order \in Seq(nodes) /\ Len(order) = 0 /\ nodes = {}
    BY EmptySeq DEF GatewayInit, Init
  <2>2. DOMAIN order = 1 .. 0
    BY <2>1, LenProperties
  <2> QED BY <2>1, <2>2 DEF OrderTypes, ToSet, IsInjective
<1>5. ClockTypes
  <2>1. 0 \in 0 .. BusyLimit /\ HelloPeriod \in 1 .. HelloPeriod
    BY ClockAssumption
  <2> QED BY <2>1 DEF GatewayInit, Init, ClockTypes
<1>6. HistoryTypes
  BY DEF GatewayInit, HistoryTypes
<1> QED BY <1>1, <1>2, <1>3, <1>4, <1>5, <1>6 DEF GatewayInv

LEMMA GatewayStep ==
    ASSUME GatewayInv, [GatewayNext]_gatewayVars
    PROVE  GatewayInv'
<1> USE DEF GatewayInv
<1>1. [Next]_sessionVars
  BY SessionStep
<1>2. TypeOK' /\ QueueInv'
  BY <1>1, TypeStep, QueueInvStep DEF QueueInv
<1> QED BY <1>2, NetStep, LoopStep, OrderStep, ClockStep, HistoryStep

(***************************************************************************)
(* The theorems                                                             *)
(***************************************************************************)

(* The select loop runs the handlers of NodeSession and nothing else changes *)
(* what they keep.                                                           *)
THEOREM GatewayIsSession == GatewaySafety => Spec
<1>1. GatewayInv /\ [GatewayNext]_gatewayVars => GatewayInv' /\ [Next]_sessionVars
  BY GatewayStep, SessionStep DEF GatewayInv
<1>2. GatewayInit => Init
  BY DEF GatewayInit
<1> QED BY <1>1, <1>2, GatewayStart, PTL DEF GatewaySafety, Spec

(* The gateway runs the hand-off, with the nodes that are connected.         *)
THEOREM GatewayIsHandoff == GatewaySafety => Handoff!HandoffSafety
<1>1. GatewayInit => LoopTypes
  BY DEF GatewayInit, Handoff!Init, LoopTypes, PipeFirst
<1>2. GatewayInit => Handoff!HandoffInit
  BY DEF GatewayInit, Init, Handoff!HandoffInit, Handoff!Init, KnownNames
<1>3. LoopTypes /\ [GatewayNext]_gatewayVars => LoopTypes' /\ [Handoff!Next]_handoff
  BY LoopStep, HandoffStep
<1> QED BY <1>1, <1>2, <1>3, PTL DEF GatewaySafety, Handoff!HandoffSafety, handoff

(* The invariant holds in the running gateway.                               *)
THEOREM GatewayInvariant == GatewaySafety => []GatewayInv
BY GatewayStart, GatewayStep, PTL DEF GatewaySafety

(* Every connection is in events_list once, the events of a pass are about    *)
(* entries that are still there, and the drain runs only while the pipe is    *)
(* handled, for any number of connections that come and go.                  *)
THEOREM GatewayTypeCorrect == GatewaySafety => []GatewayTypeOK
<1>1. GatewayInv => GatewayTypeOK
  <2> SUFFICES ASSUME GatewayInv PROVE GatewayTypeOK
    OBVIOUS
  <2>1. inbox \in [Conn -> Seq(Message)]
    <3>1. \A c \in Conn : inbox[c] \in Seq(Message)
      BY SeqMonotonic DEF GatewayInv, NetTypes, NodeMessage
    <3> QED BY <3>1 DEF GatewayInv, NetTypes
  <2> QED BY <2>1 DEF GatewayInv, NetTypes, LoopTypes, PipeFirst, OrderTypes, ClockTypes,
                      HistoryTypes, GatewayTypeOK
<1> QED BY <1>1, GatewayInvariant, PTL

(* A BUSY node of the running gateway always has a sent head, so the scan    *)
(* reads the timestamp of a request.                                         *)
THEOREM GatewayBusyHeadSent == GatewaySafety => []BusyHeadSent
BY GatewayIsSession, BusyNodeHasSentHead, PTL

(* In the running gateway the scan timer is armed exactly while a request is *)
(* queued, as long as no more are queued than the counter has values.        *)
THEOREM GatewayTimerFollowsQueue ==
    ASSUME MaxQueued <= CountMod
    PROVE  GatewaySafety => []ScanTimerArmed
<1>1. Spec => []ScanTimerArmed
  BY TimerFollowsQueue
<1> QED BY <1>1, GatewayIsSession, PTL
=============================================================================
