-------------------------------- MODULE Gateway --------------------------------
(***************************************************************************)
(* The whole gateway process: the handlers of NodeSession and the hand-off  *)
(* of WorkHandoff driven by the select loop, a clock, and the nodes at the  *)
(* other end of the sockets.                                                *)
(*                                                                          *)
(* One pass of the loop collects the marked connections, takes a snapshot   *)
(* of the ready descriptors (todo) and handles them in the order of         *)
(* events_list: for every connection, newest first, its hello timer and     *)
(* then its socket; after them the scan timer, the pipe and the listening   *)
(* socket.  A scan is one event for each connection.                        *)
(*                                                                          *)
(* Time advances in ticks of the scan timer, and only while the loop waits  *)
(* in select: handling an event takes no time.                              *)
(***************************************************************************)
EXTENDS NodeSession, SequencesExt

CONSTANTS
    Thread, Target, MainThread, SignalLen, BufSize, MaxSignals,  \* see WorkHandoff
    HelloPeriod,  \* ticks between two hellos to a node, 20 in the code
    BusyLimit,    \* ticks a node may stay BUSY, 20 in the code
    MaxDelay,     \* bound of the model: ticks a live node takes to answer
    ReadMax,      \* whole messages that fit into one read of BUFFSIZ bytes
    MaxInbox,     \* bound of the model: messages of a node not yet read
    Unasked       \* what a node sends of its own accord: "NOTIF", "CAPS"

ASSUME ClockAssumption == {HelloPeriod, BusyLimit, ReadMax, MaxInbox} \subseteq Nat \ {0}
ASSUME DelayAssumption == MaxDelay \in Nat
ASSUME UnaskedAssumption == Unasked \subseteq {"NOTIF", "CAPS"}

VARIABLES
    work_list, mutex, pipe, tpc, treq, mpc, cursor, node_found, passed,
    link,        \* node's end: "free", "open", "closed" or "dead" without a word
    inbox,       \* messages the node sent that the gateway has not read
    wire,        \* requests written to the node that it has not answered
    order,       \* the connections in the order of events_list
    todo,        \* ready events of this pass that are not handled yet
    hello_left,  \* ticks until the hello timer expires
    hello_due,   \* connections whose hello timer is readable
    scan_due,    \* the scan timer is readable
    age,         \* ticks since the head was sent
    spoke,       \* nodes that said something unasked since the last tick
    handed,      \* history: how often a request was written to a live node
    told         \* history: what the requester was told, see RequestService

KnownNames == {client_name[c] : c \in nodes} \cap Name

Handoff == INSTANCE WorkHandoff WITH known <- KnownNames

handoffVars == <<work_list, mutex, pipe, tpc, treq, mpc, cursor, node_found, passed>>
netVars     == <<link, inbox, wire, spoke>>
helloVars   == <<hello_left, hello_due>>
historyVars == <<handed, told>>
gatewayVars == <<sessionVars, handoffVars, netVars, helloVars, historyVars,
                 order, todo, scan_due, age>>

QueuedRequest(r) ==
    \E c \in Conn : \E i \in 1 .. Len(request_list[c]) : request_list[c][i].data = r

Waiting(r) == Handoff!InHandoff(r) \/ QueuedRequest(r)

(* The scan timer expires at once when it is armed and never while disarmed. *)
ScanDue == scan_due' = (scan_armed' /\ (scan_due \/ ~scan_armed))

-----------------------------------------------------------------------------
(* The select loop *)

Event(kind, c) == [kind |-> kind, conn |-> c]

(* read_fd_set *)
Watched ==
    {Event(kind, c) : kind \in {"TIMER", "IOT", "SCAN"}, c \in nodes}
        \cup {Event("PIPE", NULL), Event("LISTEN", NULL)}

Backlog == {c \in Conn \ nodes : link[c] # "free"}

IsReady(e) ==
    \/ e.kind = "TIMER" /\ e.conn \in hello_due
    \/ e.kind = "IOT" /\ (inbox[e.conn] # <<>> \/ link[e.conn] = "closed")
    \/ e.kind = "SCAN" /\ scan_due
    \/ e.kind = "PIPE" /\ pipe > 0
    \/ e.kind = "LISTEN" /\ Backlog # {}

Ready == {e \in Watched : IsReady(e)}

(* Entries are added at the front of events_list: first come the             *)
(* connections, newest first and each timer before its socket, and last what *)
(* main() added before the loop.                                            *)
Phase == [TIMER |-> 1, IOT |-> 1, SCAN |-> 2, PIPE |-> 3, LISTEN |-> 4]

Newer(c, d) == \E j \in 1 .. Len(order) : \E i \in 1 .. j - 1 :
                   order[i] = c /\ order[j] = d

Before(d, e) ==
    \/ Phase[d.kind] < Phase[e.kind]
    \/ Phase[d.kind] = Phase[e.kind] /\ Newer(d.conn, e.conn)
    \/ d.conn = e.conn /\ d.kind = "TIMER" /\ e.kind = "IOT"

TopOfLoop == Running /\ todo = {}

At(kind, c) ==
    /\ Running
    /\ Event(kind, c) \in todo
    /\ \A d \in todo : ~Before(d, Event(kind, c))

Handled(kind, c) == todo' = todo \ {Event(kind, c)}

(* Mutant: the freed entry stays in events_list. *)
GcKeepsEntry(c) ==
    /\ TopOfLoop
    /\ DelEvent(c)
    /\ ScanDue
    /\ link' = [link EXCEPT ![c] = "free"]
    /\ inbox' = [inbox EXCEPT ![c] = <<>>]
    /\ wire' = [wire EXCEPT ![c] = <<>>]
    /\ UNCHANGED <<handoffVars, historyVars, helloVars, spoke, age, order, todo>>

(* gc_events_list, one connection at a time. *)
Gc(c) ==
    /\ TopOfLoop
    /\ DelEvent(c)
    /\ ScanDue
    /\ \E i \in 1 .. Len(order) : order[i] = c /\ order' = RemoveAt(order, i)
    /\ link' = [link EXCEPT ![c] = "free"]
    /\ inbox' = [inbox EXCEPT ![c] = <<>>]
    /\ wire' = [wire EXCEPT ![c] = <<>>]
    /\ spoke' = spoke \ {c}
    /\ hello_left' = [hello_left EXCEPT ![c] = HelloPeriod]
    /\ hello_due' = hello_due \ {c}
    /\ age' = [age EXCEPT ![c] = 0]
    /\ UNCHANGED <<handoffVars, historyVars, todo>>

Select ==
    /\ TopOfLoop
    /\ del_mark = {}
    /\ Ready # {}
    /\ todo' = Ready
    /\ scan_due' = FALSE
    /\ UNCHANGED <<sessionVars, handoffVars, netVars, helloVars, historyVars, order, age>>

HelloTimer(c) ==
    /\ At("TIMER", c)
    /\ HelloDead(c) \/ HelloTick(c)
    /\ ScanDue
    /\ hello_due' = hello_due \ {c}
    /\ Handled("TIMER", c)
    /\ UNCHANGED <<handoffVars, netVars, hello_left, historyVars, order, age>>

(* process_iot_msg on the first message of a read. *)
ProcessMsg(c, m) ==
    \/ m.msg = "HELLO" /\ HelloMsg(c) /\ UNCHANGED told
    \/ m.msg = "CAPS" /\ CapsMsg(c, m.name) /\ UNCHANGED told
    \/ /\ \/ m.msg = "GET" /\ GetResp(c, TRUE)
          \/ m.msg = "SET" /\ SetResp(c, TRUE)
       /\ told' = IF HasReqData(c) /\ Running'
                  THEN [told EXCEPT ![Head(request_list[c]).data] = m.of]
                  ELSE told
    \/ m.msg = "NOTIF" /\ UNCHANGED <<sessionVars, told>>

(* A read takes what has arrived; json_loadb parses the first message and    *)
(* the rest of the buffer is forgotten.  Abstraction: a read ends with a     *)
(* message.  In the code one that is split by the network, or longer than    *)
(* BUFFSIZ, fails to parse and is dropped like the rest of a buffer.         *)
ReadMsg(c) ==
    /\ At("IOT", c)
    /\ inbox[c] # <<>>
    /\ ProcessMsg(c, Head(inbox[c]))
    /\ \E k \in 1 .. ReadMax :
          /\ k <= Len(inbox[c])
          /\ inbox' = [inbox EXCEPT ![c] = SubSeq(@, k + 1, Len(@))]
    /\ ScanDue
    /\ Handled("IOT", c)
    /\ UNCHANGED <<handoffVars, link, wire, spoke, helloVars, handed, order, age>>

ReadEnd(c) ==
    /\ At("IOT", c)
    /\ inbox[c] = <<>>
    /\ Disconnect(c)
    /\ Handled("IOT", c)
    /\ UNCHANGED <<handoffVars, netVars, helloVars, historyVars, order, scan_due, age>>

(* try_do_some_work at one connection. *)
ScanSend(c) ==
    /\ At("SCAN", c)
    /\ SendHead(c)
    /\ LET e       == Head(request_list[c])
           reached == link[c] = "open" /\ Running'
       IN  /\ wire' = IF reached THEN [wire EXCEPT ![c] = Append(@, e)] ELSE wire
           /\ handed' = IF reached /\ e.data \in Request /\ handed[e.data] < 2
                        THEN [handed EXCEPT ![e.data] = @ + 1]
                        ELSE handed
    /\ age' = [age EXCEPT ![c] = 0]
    /\ Handled("SCAN", c)
    /\ UNCHANGED <<handoffVars, link, inbox, spoke, helloVars, told, order, scan_due>>

(* Mutant: the node's head is given up at the next scan. *)
ScanTimeoutAtOnce(c) ==
    /\ At("SCAN", c)
    /\ BusyTimeout(c)
    /\ ScanDue
    /\ Handled("SCAN", c)
    /\ UNCHANGED <<handoffVars, netVars, helloVars, historyVars, order, age>>

ScanTimeout(c) ==
    /\ At("SCAN", c)
    /\ age[c] >= BusyLimit
    /\ BusyTimeout(c)
    /\ ScanDue
    /\ Handled("SCAN", c)
    /\ UNCHANGED <<handoffVars, netVars, helloVars, historyVars, order, age>>

ScanSkip(c) ==
    /\ At("SCAN", c)
    /\ IF work_state[c] = "BUSY" THEN age[c] < BusyLimit
                                 ELSE request_list[c] = <<>>
    /\ Handled("SCAN", c)
    /\ UNCHANGED <<sessionVars, handoffVars, netVars, helloVars, historyVars,
                   order, scan_due, age>>

(* MQTT_MSG_EVENT.  The drain gives a request to the first connection in    *)
(* events_list that carries the name, marked for deletion or not.           *)
PipeRead ==
    /\ At("PIPE", NULL)
    /\ Handoff!ReadPipe
    /\ IF mpc' = "loop" THEN Handled("PIPE", NULL) ELSE UNCHANGED todo
    /\ UNCHANGED <<sessionVars, netVars, helloVars, historyVars, order, scan_due, age>>

FirstNamed(n) ==
    order[SelectInSeq(order, LAMBDA c : client_name[c] = n)]

DrainEnqueue(r) ==
    /\ Running
    /\ Handoff!DrainFound(r)
    /\ WorkEnqueue(FirstNamed(Target[r]), r)
    /\ ScanDue
    /\ UNCHANGED <<netVars, helloVars, historyVars, order, todo, age>>

DrainNotFound(r) ==
    /\ Running
    /\ Handoff!DrainRefuse(r)
    /\ told' = [told EXCEPT ![r] = "refused"]
    /\ UNCHANGED <<sessionVars, netVars, helloVars, handed, order, todo, scan_due, age>>

DrainStep ==
    /\ Running
    /\ \/ Handoff!MainLock /\ UNCHANGED todo
       \/ (\E r \in Request : Handoff!DrainPass(r)) /\ UNCHANGED todo
       \/ Handoff!MainUnlock /\ Handled("PIPE", NULL)
    /\ UNCHANGED <<sessionVars, netVars, helloVars, historyVars, order, scan_due, age>>

Listen ==
    /\ At("LISTEN", NULL)
    /\ \E c \in Backlog :
          /\ Accept(c)
          /\ order' = <<c>> \o order
    /\ Handled("LISTEN", NULL)
    /\ UNCHANGED <<handoffVars, netVars, helloVars, historyVars, scan_due, age>>

MainLoop ==
    \/ Select \/ PipeRead \/ DrainStep \/ Listen
    \/ \E c \in Conn : \/ Gc(c) \/ HelloTimer(c) \/ ReadMsg(c) \/ ReadEnd(c)
                       \/ ScanSend(c) \/ ScanTimeout(c) \/ ScanSkip(c)
    \/ \E r \in Request : DrainEnqueue(r) \/ DrainNotFound(r)

-----------------------------------------------------------------------------
(* The mosquitto threads, the clock and the nodes *)

Submit(t, r) ==
    /\ Running
    /\ ~Waiting(r)
    /\ Handoff!Receive(t, r)
    /\ handed' = [handed EXCEPT ![r] = 0]
    /\ told' = [told EXCEPT ![r] = NULL]
    /\ UNCHANGED <<sessionVars, netVars, helloVars, order, todo, scan_due, age>>

ThreadRuns(t) ==
    /\ Running
    /\ Handoff!ThreadStep(t)
    /\ UNCHANGED <<sessionVars, netVars, helloVars, historyVars, order, todo, scan_due, age>>

(* A second passes.  A live node answers within MaxDelay of them.            *)
Tick ==
    /\ TopOfLoop
    /\ Ready = {} /\ del_mark = {}
    /\ \A c \in Conn : link[c] = "open" /\ wire[c] # <<>> => age[c] < MaxDelay
    /\ hello_left' = [c \in Conn |-> IF c \notin nodes \/ hello_left[c] = 1
                                     THEN HelloPeriod
                                     ELSE hello_left[c] - 1]
    /\ hello_due' = {c \in nodes : hello_left[c] = 1}
    /\ scan_due' = scan_armed
    /\ age' = [c \in Conn |-> IF work_state[c] = "BUSY" /\ age[c] < BusyLimit
                              THEN age[c] + 1 ELSE age[c]]
    /\ spoke' = {}
    /\ UNCHANGED <<sessionVars, handoffVars, link, inbox, wire, historyVars, order, todo>>

NodeStep == UNCHANGED <<sessionVars, handoffVars, helloVars, historyVars,
                        order, todo, scan_due, age>>

Say(c, msg, r, n) ==
    /\ Len(inbox[c]) < MaxInbox
    /\ inbox' = [inbox EXCEPT ![c] = Append(@, [msg |-> msg, of |-> r, name |-> n])]

(* A node opens a connection and announces itself. *)
Connect(c, n) ==
    /\ link[c] = "free"
    /\ link' = [link EXCEPT ![c] = "open"]
    /\ Say(c, "CAPS", NULL, n)
    /\ UNCHANGED <<wire, spoke>>
    /\ NodeStep

(* It answers the oldest request it was sent. *)
Answer(c) ==
    /\ wire[c] # <<>>
    /\ Say(c, Head(wire[c]).type, Head(wire[c]).data, NULL)
    /\ wire' = [wire EXCEPT ![c] = Tail(@)]
    /\ UNCHANGED <<link, spoke>>
    /\ NodeStep

(* A sensor reports an event, or a node announces itself once more; at most  *)
(* once between two ticks.                                                  *)
Volunteer(c, msg, n) ==
    /\ link[c] = "open"
    /\ c \notin spoke
    /\ Say(c, msg, NULL, n)
    /\ spoke' = spoke \cup {c}
    /\ UNCHANGED <<link, wire>>
    /\ NodeStep

(* It closes the connection, or loses power and falls silent. *)
Leave(c, how) ==
    /\ link[c] = "open"
    /\ link' = [link EXCEPT ![c] = how]
    /\ wire' = [wire EXCEPT ![c] = <<>>]
    /\ UNCHANGED <<inbox, spoke>>
    /\ NodeStep

GatewayInit ==
    /\ Init
    /\ Handoff!Init
    /\ link = [c \in Conn |-> "free"]
    /\ inbox = [c \in Conn |-> <<>>]
    /\ wire = [c \in Conn |-> <<>>]
    /\ order = <<>>
    /\ todo = {}
    /\ hello_left = [c \in Conn |-> HelloPeriod]
    /\ hello_due = {}
    /\ scan_due = FALSE
    /\ age = [c \in Conn |-> 0]
    /\ spoke = {}
    /\ handed = [r \in Request |-> 0]
    /\ told = [r \in Request |-> NULL]

GatewayNext ==
    \/ MainLoop
    \/ \E t \in Thread : ThreadRuns(t) \/ \E r \in Request : Submit(t, r)
    \/ Tick
    \/ \E c \in Conn : \/ \E n \in Name : \/ Connect(c, n)
                                         \/ \E msg \in Unasked : Volunteer(c, msg, n)
                       \/ Answer(c)
                       \/ \E how \in {"closed", "dead"} : Leave(c, how)

(* The main loop and the threads run, seconds pass however busy the gateway  *)
(* is, and a live node answers, whatever else it sends.                   *)
Fairness ==
    /\ WF_gatewayVars(MainLoop)
    /\ \A t \in Thread : WF_gatewayVars(ThreadRuns(t))
    /\ SF_gatewayVars(Tick)
    /\ \A c \in Conn : SF_gatewayVars(Answer(c))

GatewaySafety == GatewayInit /\ [][GatewayNext]_gatewayVars
GatewaySpec   == GatewaySafety /\ Fairness

-----------------------------------------------------------------------------
(* Properties *)

Message == [msg : {"HELLO", "GET", "SET", "CAPS", "NOTIF"},
            of : Request \cup {NULL}, name : Name \cup {NULL}]

PipeIsNext ==
    /\ Event("PIPE", NULL) \in todo
    /\ \A d \in todo : d.kind \in {"PIPE", "LISTEN"}

(* The types of the variables.  events_list has each connection once, the    *)
(* events of a pass are about connections that are in the list (nothing is   *)
(* freed within a pass), and the main thread drains work_list only while it  *)
(* handles the pipe.                                                         *)
GatewayTypeOK ==
    /\ link \in [Conn -> {"free", "open", "closed", "dead"}]
    /\ inbox \in [Conn -> Seq(Message)]
    /\ wire \in [Conn -> Seq(Entry)]
    /\ spoke \in SUBSET Conn
    /\ order \in Seq(nodes) /\ ToSet(order) = nodes /\ IsInjective(order)
    /\ todo \in SUBSET Watched
    /\ mpc # "loop" => PipeIsNext
    /\ hello_left \in [Conn -> 1 .. HelloPeriod]
    /\ hello_due \in SUBSET nodes
    /\ scan_due \in BOOLEAN
    /\ age \in [Conn -> 0 .. BusyLimit]
    /\ handed \in [Request -> 0 .. 2]
    /\ told \in [Request -> Request \cup {NULL, "refused"}]

Service == INSTANCE RequestService WITH
    Requests <- Request,
    stage    <- [r \in Request |-> IF ~Waiting(r) THEN "idle"
                                    ELSE CASE handed[r] = 0 -> "accepted"
                                           [] handed[r] = 1 -> "handed"
                                           [] OTHER         -> "twice"]

(* The gateway keeps the promise of RequestService: no request is written to *)
(* a node twice, an answer reaches the requester of the request it answers,  *)
(* and only a request that no node was given is refused.                     *)
ServiceKept == Service!Spec

(* The answer published for a request is the node's answer to this request:  *)
(* "Check that the first request in the list matches"                        *)
(* (gw_iotnode_interface.c:282-284).                                         *)
AnswersMatch == \A r \in Request : told[r] \in {NULL, "refused", r}

(* No handler dereferences the head of an empty list or a HELLO's missing    *)
(* mqtt_request_s.                                                           *)
NeverCrashes == proc # "crashed"

(* "Client missed 3 HELLOS" (main.c:667): the gateway only gives up a        *)
(* connection whose node is gone.                                            *)
LiveNodeKept == \A c \in del_mark : link[c] # "open"

(* What subscribers of the broadcasts believe to be up is connected: however *)
(* a node went away, by the time its entry is freed they have been told.     *)
(* That needs that a node announces itself only when it connects: a CAPS     *)
(* that is handled after the hello timer has marked its connection           *)
(* (main.c:671) would be the last word.                                      *)
UpIsConnected == \A n \in Name : view[n] = "up" => n \in KnownNames

(* Every request that was accepted ends: it is answered, refused or dropped. *)
RequestEnds == \A r \in Request : Waiting(r) ~> ~Waiting(r)

(* The hello timer notices a node that fell silent.                          *)
SilentNodeRemoved == \A c \in Conn : (link[c] = "dead") ~> (link[c] # "dead")
=============================================================================
