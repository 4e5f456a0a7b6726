------------------------------ MODULE NodeSession ------------------------------
(***************************************************************************)
(* What the gateway keeps about the IoT nodes connected to it, and every    *)
(* handler of the main thread that changes it.                              *)
(*                                                                          *)
(* A connection is one IOT_EVENT entry of events_list together with the     *)
(* TIMER_EVENT entry created with it.  Its iot_data_s is spread over the    *)
(* functions below; all the connections share mqtt_msg_count (a uint8_t)    *)
(* and the timer that makes the main loop scan the request lists.           *)
(*                                                                          *)
(* Nothing is assumed here about when a handler runs or what a node sends:  *)
(* any message may arrive, any timer may fire and any request may be        *)
(* queued in any state.  Module Gateway adds the sockets, the clock and     *)
(* the select loop, and is a special case of this specification.            *)
(***************************************************************************)
EXTENDS Integers, Sequences, FiniteSets

CONSTANTS
    Conn,        \* connections (sockets) the gateway can have open
    Name,        \* names that nodes announce in their CAPS message
    GetReq,      \* MQTT GET requests, each standing for its own requester
    SetReq,      \* MQTT SET requests
    NULL,        \* no name, no request
    LogEnable,   \* TRUE iff compiled with -DLOG_ENABLE: ASSERT_DEBUG exits
    CountMod,    \* mqtt_msg_count counts modulo this (256 in the code)
    MaxQueued    \* bound of the model: requests queued at the same time

Request == GetReq \cup SetReq

ASSUME ConnAssumption == IsFiniteSet(Conn)
ASSUME NullAssumption == NULL \notin Name \cup Request
ASSUME KindAssumption == GetReq \cap SetReq = {}
ASSUME BuildAssumption == LogEnable \in BOOLEAN
ASSUME CountAssumption == CountMod \in Nat /\ CountMod > 1 /\ MaxQueued \in Nat

VARIABLES
    nodes,           \* connections that have an IOT_EVENT in events_list
    del_mark,        \* connections marked for the garbage collector
    client_name,     \* name copied from the last CAPS, or left by malloc
    caps,            \* connections whose caps_list was filled by a CAPS
    hello_count,     \* hello periods left before the node counts as dead
    work_state,      \* "BUSY" or "FREE"
    request_list,    \* queue of the requests of a node, head first
    mqtt_msg_count,  \* the shared counter of queued requests
    scan_armed,      \* global_work_scan_timer_fd is armed
    heap_names,      \* names left behind in the freed IOT_EVENT chunks
    view,            \* what the last broadcast about a name told subscribers
    proc             \* "running", "exited" by an assertion, or "crashed"

queueVars == <<request_list, mqtt_msg_count, scan_armed>>
idVars    == <<nodes, del_mark, client_name, caps, heap_names, view>>
sessionVars == <<queueVars, idVars, hello_count, work_state, proc>>

-----------------------------------------------------------------------------
(* Types *)

HELLO_COUNT_DEFAULT == 3

Entry == [type   : {"HELLO", "GET", "SET"},
          status : {"PENDING", "SENT"},
          data   : Request \cup {NULL}]

HelloEntry   == [type |-> "HELLO", status |-> "PENDING", data |-> NULL]
MqttEntry(r) == [type   |-> IF r \in GetReq THEN "GET" ELSE "SET",
                 status |-> "PENDING",
                 data   |-> r]

(* Every queued request, by its connection and its place in the list. *)
Queued == UNION {{c} \X (1 .. Len(request_list[c])) : c \in Conn}
Total  == Cardinality(Queued)

Running == proc = "running"

-----------------------------------------------------------------------------
(* Effects shared by the handlers *)

(* Mutant: the counter is compared before it is incremented. *)
EnqueueArmsLate(c, e) ==
    /\ request_list' = [request_list EXCEPT ![c] = Append(@, e)]
    /\ mqtt_msg_count' = (mqtt_msg_count + 1) % CountMod
    /\ scan_armed' = (scan_armed \/ mqtt_msg_count = 1)

(* Mutant: list_add in place of list_add_tail. *)
EnqueueInFront(c, e) ==
    /\ request_list' = [request_list EXCEPT ![c] = <<e>> \o @]
    /\ mqtt_msg_count' = (mqtt_msg_count + 1) % CountMod
    /\ scan_armed' = (scan_armed \/ mqtt_msg_count' = 1)

ENQUEUE_IOT_REQUEST(c, e) ==
    /\ request_list' = [request_list EXCEPT ![c] = Append(@, e)]
    /\ mqtt_msg_count' = (mqtt_msg_count + 1) % CountMod
    /\ scan_armed' = (scan_armed \/ mqtt_msg_count' = 1)

(* The handlers only ever delete the head of a list. *)
delete_request(c) ==
    /\ request_list' = [request_list EXCEPT ![c] = Tail(@)]
    /\ mqtt_msg_count' = (mqtt_msg_count - 1) % CountMod
    /\ scan_armed' = (scan_armed /\ mqtt_msg_count' # 0)

(* Mutant: "if" in place of "while", only the first request goes. *)
DelFirstRequest(c) == IF request_list[c] = <<>> THEN UNCHANGED queueVars
                                                ELSE delete_request(c)

(* Mutant: the requests are freed without counting them down. *)
DelUncounted(c) ==
    /\ request_list' = [request_list EXCEPT ![c] = <<>>]
    /\ UNCHANGED <<mqtt_msg_count, scan_armed>>

(* del_node_requests deletes one request after the other: the timer is      *)
(* disarmed as soon as the counter passes through zero.                     *)
del_node_requests(c) ==
    LET k == Len(request_list[c])
    IN  /\ request_list' = [request_list EXCEPT ![c] = <<>>]
        /\ mqtt_msg_count' = (mqtt_msg_count - k) % CountMod
        /\ scan_armed' = (scan_armed /\ \A j \in 1 .. k :
                                            (mqtt_msg_count - j) % CountMod # 0)

Publish(what, c) ==
    view' = IF client_name[c] \in Name
            THEN [view EXCEPT ![client_name[c]] = what]
            ELSE view

(* The three ASSERT_DEBUGs in front of a response of type t: they stop a    *)
(* LOG_ENABLE build and are empty in the default one.                       *)
Expected(c, t) ==
    /\ work_state[c] = "BUSY"
    /\ request_list[c] # <<>>
    /\ Head(request_list[c]).status = "SENT"
    /\ Head(request_list[c]).type = t

(* Mutant: only the type of the head is asserted. *)
AssertsType(c, t) ==
    LogEnable => request_list[c] # <<>> /\ Head(request_list[c]).type = t

AssertsPass(c, t) == LogEnable => Expected(c, t)

AssertFails ==
    /\ LogEnable
    /\ proc' = "exited"
    /\ UNCHANGED <<queueVars, idVars, work_state>>

(* Mutant: the node is not set FREE. *)
FinishHeadStillBusy(c) ==
    /\ delete_request(c)
    /\ UNCHANGED <<work_state, idVars, proc>>

(* delete_request(req); work_state = IOT_NODE_FREE; *)
FinishHead(c) ==
    /\ delete_request(c)
    /\ work_state' = [work_state EXCEPT ![c] = "FREE"]
    /\ UNCHANGED <<idVars, proc>>

(* The head exists and carries the mqtt_request_s a GET answer goes to.      *)
HasReqData(c) ==
    /\ request_list[c] # <<>>
    /\ Head(request_list[c]).data # NULL

(* Mutant: the status is written to the last request, list.prev. *)
MarkLastSent(q) == [q EXCEPT ![Len(q)].status = "SENT"]

MarkSent(q) == [q EXCEPT ![1].status = "SENT"]

(* req is computed from the head of an empty list, or req_data is NULL: the *)
(* code dereferences it or hands an interior pointer to free().             *)
Crash ==
    /\ proc' = "crashed"
    /\ UNCHANGED <<queueVars, idVars, work_state>>

-----------------------------------------------------------------------------
(* Handlers of the main loop *)

Init ==
    /\ nodes = {}
    /\ del_mark = {}
    /\ client_name = [c \in Conn |-> NULL]
    /\ caps = {}
    /\ hello_count = [c \in Conn |-> 0]
    /\ work_state = [c \in Conn |-> "FREE"]
    /\ request_list = [c \in Conn |-> <<>>]
    /\ mqtt_msg_count = 0
    /\ scan_armed = FALSE
    /\ heap_names = {NULL}
    /\ view = [n \in Name |-> "down"]
    /\ proc = "running"

(* LISTEN_SOCKET.  add_event leaves client_name as malloc returned it:      *)
(* unrelated bytes, or the name in a chunk that del_event has freed.        *)
Accept(c) ==
    /\ Running
    /\ c \notin nodes
    /\ nodes' = nodes \cup {c}
    /\ \E n \in heap_names : client_name' = [client_name EXCEPT ![c] = n]
    /\ hello_count' = [hello_count EXCEPT ![c] = HELLO_COUNT_DEFAULT]
    /\ work_state' = [work_state EXCEPT ![c] = "FREE"]
    /\ UNCHANGED <<queueVars, del_mark, caps, heap_names, view, proc>>

(* Mutant: the closed connection is not marked for deletion. *)
DisconnectUnmarked(c) ==
    /\ Running
    /\ c \in nodes
    /\ Publish("down", c)
    /\ work_state' = [work_state EXCEPT ![c] = "FREE"]
    /\ UNCHANGED <<queueVars, nodes, del_mark, client_name, caps, heap_names,
                   hello_count, proc>>

(* Mutant: the end of a connection is not announced. *)
DisconnectQuiet(c) ==
    /\ Running
    /\ c \in nodes
    /\ del_mark' = del_mark \cup {c}
    /\ work_state' = [work_state EXCEPT ![c] = "FREE"]
    /\ UNCHANGED <<queueVars, nodes, client_name, caps, heap_names, view,
                   hello_count, proc>>

(* IOT_EVENT, read() returned 0 or an error. *)
Disconnect(c) ==
    /\ Running
    /\ c \in nodes
    /\ del_mark' = del_mark \cup {c}
    /\ Publish("down", c)
    /\ work_state' = [work_state EXCEPT ![c] = "FREE"]
    /\ UNCHANGED <<queueVars, nodes, client_name, caps, heap_names,
                   hello_count, proc>>

(* Mutant: RESET_HELLO_COUNT is missing. *)
HelloMsgNoReset(c) ==
    /\ Running
    /\ c \in nodes
    /\ AssertsPass(c, "HELLO")
    /\ request_list[c] # <<>>
    /\ FinishHead(c)
    /\ UNCHANGED hello_count

(* IOT_EVENT, IOT_MSG_TYPE_HELLO. *)
HelloMsg(c) ==
    /\ Running
    /\ c \in nodes
    /\ hello_count' = [hello_count EXCEPT ![c] = HELLO_COUNT_DEFAULT]
    /\ \/ ~AssertsPass(c, "HELLO") /\ AssertFails
       \/ /\ AssertsPass(c, "HELLO")
          /\ request_list[c] # <<>>
          /\ FinishHead(c)
       \/ /\ ~LogEnable
          /\ request_list[c] = <<>>
          /\ UNCHANGED <<queueVars, idVars, work_state, proc>>

(* IOT_EVENT, IOT_MSG_TYPE_CAPS announcing n; a CAPS without a valid NAME   *)
(* leaves the name as it is.  The node counts as FREE from here on.         *)
CapsMsg(c, n) ==
    /\ Running
    /\ c \in nodes
    /\ client_name' = [client_name EXCEPT ![c] = n]
    /\ caps' = caps \cup {c}
    /\ view' = IF n \in Name THEN [view EXCEPT ![n] = "up"] ELSE view
    /\ work_state' = [work_state EXCEPT ![c] = "FREE"]
    /\ UNCHANGED <<queueVars, nodes, del_mark, heap_names, hello_count, proc>>

(* IOT_EVENT, IOT_MSG_TYPE_GET_RESP; wellformed tells whether REQ_ARRAY     *)
(* parses, otherwise the handler leaves everything as it is.                *)
GetResp(c, wellformed) ==
    /\ Running
    /\ c \in nodes
    /\ UNCHANGED hello_count
    /\ \/ ~AssertsPass(c, "GET") /\ AssertFails
       \/ /\ AssertsPass(c, "GET")
          /\ wellformed
          /\ HasReqData(c)
          /\ FinishHead(c)
       \/ /\ AssertsPass(c, "GET")
          /\ wellformed
          /\ ~HasReqData(c)
          /\ Crash
       \/ /\ AssertsPass(c, "GET")
          /\ ~wellformed
          /\ UNCHANGED <<queueVars, idVars, work_state, proc>>

(* IOT_EVENT, IOT_MSG_TYPE_SET_RESP. *)
SetResp(c, wellformed) ==
    /\ Running
    /\ c \in nodes
    /\ UNCHANGED hello_count
    /\ \/ ~AssertsPass(c, "SET") /\ AssertFails
       \/ /\ AssertsPass(c, "SET")
          /\ wellformed
          /\ request_list[c] # <<>>
          /\ FinishHead(c)
       \/ /\ AssertsPass(c, "SET")
          /\ wellformed
          /\ request_list[c] = <<>>
          /\ Crash
       \/ /\ AssertsPass(c, "SET")
          /\ ~wellformed
          /\ UNCHANGED <<queueVars, idVars, work_state, proc>>

(* Mutant: only the timer is marked for deletion, not the connection. *)
HelloDeadTimerOnly(c) ==
    /\ Running
    /\ c \in nodes
    /\ hello_count[c] = 0
    /\ Publish("down", c)
    /\ UNCHANGED <<queueVars, nodes, del_mark, client_name, caps, heap_names,
                   hello_count, work_state, proc>>

(* TIMER_EVENT of a node that has used up its hellos.  The handler means to *)
(* set the node FREE but writes through the timer's entry instead.          *)
HelloDead(c) ==
    /\ Running
    /\ c \in nodes
    /\ hello_count[c] = 0
    /\ del_mark' = del_mark \cup {c}
    /\ Publish("down", c)
    /\ UNCHANGED <<queueVars, nodes, client_name, caps, heap_names,
                   hello_count, work_state, proc>>

(* Mutant: hello_count is decremented without looking at CLIENT_DEAD. *)
HelloTickAlways(c) ==
    /\ Running
    /\ c \in nodes
    /\ Total < MaxQueued
    /\ ENQUEUE_IOT_REQUEST(c, HelloEntry)
    /\ hello_count' = [hello_count EXCEPT ![c] = @ - 1]
    /\ UNCHANGED <<idVars, work_state, proc>>

(* TIMER_EVENT of any other node: queue one more HELLO. *)
HelloTick(c) ==
    /\ Running
    /\ c \in nodes
    /\ hello_count[c] # 0
    /\ Total < MaxQueued
    /\ ENQUEUE_IOT_REQUEST(c, HelloEntry)
    /\ hello_count' = [hello_count EXCEPT ![c] = @ - 1]
    /\ UNCHANGED <<idVars, work_state, proc>>

(* MQTT_MSG_EVENT: a request of work_list goes to the node of its name. *)
WorkEnqueue(c, r) ==
    /\ Running
    /\ c \in nodes
    /\ client_name[c] # NULL
    /\ Total < MaxQueued
    /\ ENQUEUE_IOT_REQUEST(c, MqttEntry(r))
    /\ UNCHANGED <<idVars, hello_count, work_state, proc>>

(* try_do_some_work at a node whose head was sent 20 seconds ago or more. *)
BusyTimeout(c) ==
    /\ Running
    /\ c \in nodes
    /\ work_state[c] = "BUSY"
    /\ FinishHead(c)
    /\ UNCHANGED hello_count

(* try_do_some_work at a FREE node: sendNodeMessage writes the head to the  *)
(* socket and marks it, whatever write() returned.                          *)
SendHead(c) ==
    /\ Running
    /\ c \in nodes
    /\ work_state[c] = "FREE"
    /\ request_list[c] # <<>>
    /\ UNCHANGED <<idVars, hello_count, mqtt_msg_count, scan_armed>>
    /\ \/ /\ LogEnable => Head(request_list[c]).status = "PENDING"
          /\ request_list' = [request_list EXCEPT ![c] = MarkSent(@)]
          /\ work_state' = [work_state EXCEPT ![c] = "BUSY"]
          /\ UNCHANGED proc
       \/ /\ LogEnable
          /\ Head(request_list[c]).status # "PENDING"
          /\ proc' = "exited"
          /\ UNCHANGED <<request_list, work_state>>

(* gc_events_list and del_event, for one marked node. *)
DelEvent(c) ==
    /\ Running
    /\ c \in nodes \cap del_mark
    /\ nodes' = nodes \ {c}
    /\ del_mark' = del_mark \ {c}
    /\ caps' = caps \ {c}
    /\ heap_names' = heap_names \cup {client_name[c]}
    /\ client_name' = [client_name EXCEPT ![c] = NULL]
    /\ hello_count' = [hello_count EXCEPT ![c] = 0]
    /\ work_state' = [work_state EXCEPT ![c] = "FREE"]
    /\ del_node_requests(c)
    /\ UNCHANGED <<view, proc>>

Next ==
    \E c \in Conn :
        \/ Accept(c)
        \/ Disconnect(c)
        \/ HelloMsg(c)
        \/ \E n \in Name \cup {client_name[c]} : CapsMsg(c, n)
        \/ \E wellformed \in BOOLEAN : GetResp(c, wellformed)
        \/ \E wellformed \in BOOLEAN : SetResp(c, wellformed)
        \/ HelloDead(c)
        \/ HelloTick(c)
        \/ \E r \in Request : WorkEnqueue(c, r)
        \/ BusyTimeout(c)
        \/ SendHead(c)
        \/ DelEvent(c)

Spec == Init /\ [][Next]_sessionVars

-----------------------------------------------------------------------------
(* Properties *)

(* The types of the variables; the free connections keep the values of Init. *)
TypeOK ==
    /\ nodes \in SUBSET Conn
    /\ del_mark \in SUBSET nodes
    /\ caps \in SUBSET nodes
    /\ client_name \in [Conn -> Name \cup {NULL}]
    /\ heap_names \in SUBSET (Name \cup {NULL})
    /\ view \in [Name -> {"up", "down"}]
    /\ hello_count \in [Conn -> 0 .. HELLO_COUNT_DEFAULT]
    /\ work_state \in [Conn -> {"BUSY", "FREE"}]
    /\ request_list \in [Conn -> Seq(Entry)]
    /\ mqtt_msg_count \in 0 .. CountMod - 1
    /\ scan_armed \in BOOLEAN
    /\ proc \in {"running", "exited", "crashed"}

(* try_do_some_work reads the timestamp of the head of a BUSY node without   *)
(* looking whether there is one (gw_iotnode_interface.c:704): whatever the   *)
(* nodes send, a BUSY node has a head, and that head has been sent.          *)
BusyHeadSent ==
    \A c \in Conn : work_state[c] = "BUSY" =>
        /\ request_list[c] # <<>>
        /\ Head(request_list[c]).status = "SENT"

(* event.h:118-119: all requests behind the head are PENDING, so two         *)
(* requests of a node are never on their way at the same time.               *)
OnlyHeadSent ==
    \A c \in Conn : \A i \in 2 .. Len(request_list[c]) :
        request_list[c][i].status = "PENDING"

(* A connection without an entry in events_list owns no request: del_event   *)
(* leaves none behind.                                                       *)
NoOrphanRequest == \A c \in Conn \ nodes : request_list[c] = <<>>

(* mqtt_msg_count is the number of requests over all the nodes, up to the    *)
(* width of the counter (workqueue.c:135-136).                               *)
CountIsTotal == mqtt_msg_count = Total % CountMod

(* The scan timer runs exactly while a request is queued somewhere           *)
(* (event.h:51, workqueue.c:144): a disarmed timer with a request left would *)
(* leave that request and its requester waiting.  This bears CountMod        *)
(* requests, for which the counter is 0, but not one more.                   *)
ScanTimerArmed == scan_armed <=> Queued # {}

(* A step that takes a request from the list of a connected node takes one   *)
(* that was sent.                                                            *)
UnsentKept ==
    \A c \in nodes \cap nodes' :
        Len(request_list'[c]) < Len(request_list[c])
            => Head(request_list[c]).status = "SENT"

(* A request leaves the list of a connected node only after it was sent.     *)
(* This is what the assertions in front of the deletions are for             *)
(* (gw_iotnode_interface.c:220-229).                                         *)
NoUnsentDropped == [][UnsentKept]_sessionVars
=============================================================================
