--------------------------- MODULE NodeSessionProofs ---------------------------
(***************************************************************************)
(* Proofs about NodeSession: the shape of the request lists, and what       *)
(* mqtt_msg_count and the scan timer say about them, for any number of      *)
(* connections, names and requests and for both builds.                     *)
(***************************************************************************)
EXTENDS NodeSession, ListsAndCounters, FiniteSetTheorems

(***************************************************************************)
(* Types                                                                    *)
(***************************************************************************)

(* What the two enqueuing handlers allocate is a well typed request.        *)
LEMMA EntryTypes ==
    /\ HelloEntry \in Entry
    /\ \A r \in Request : MqttEntry(r) \in Entry
BY DEF HelloEntry, MqttEntry, Entry

(* The effects on the request lists and on the counter keep their types. *)
QueueTypes ==
    /\ request_list \in [Conn -> Seq(Entry)]
    /\ mqtt_msg_count \in 0 .. CountMod - 1
    /\ scan_armed \in BOOLEAN

(* Whatever is added to mqtt_msg_count, it stays within its width.          *)
LEMMA ModType ==
    ASSUME NEW x \in Int
    PROVE  x % CountMod \in 0 .. CountMod - 1
BY CountAssumption

(* ENQUEUE_IOT_REQUEST keeps the types of the lists, counter and timer.     *)
LEMMA EnqueueTypes ==
    ASSUME QueueTypes, NEW c \in Conn, NEW e \in Entry, ENQUEUE_IOT_REQUEST(c, e)
    PROVE  QueueTypes'
<1>1. Append(request_list[c], e) \in Seq(Entry)
  BY AppendProperties DEF QueueTypes
<1>2. mqtt_msg_count' \in 0 .. CountMod - 1
  <2>1. mqtt_msg_count + 1 \in Int
    BY DEF QueueTypes
  <2> QED BY <2>1, ModType DEF ENQUEUE_IOT_REQUEST
<1> QED BY <1>1, <1>2 DEF QueueTypes, ENQUEUE_IOT_REQUEST

(* So does delete_request on the head of a list that is not empty.          *)
LEMMA DeleteTypes ==
    ASSUME QueueTypes, NEW c \in Conn, request_list[c] # <<>>, delete_request(c)
    PROVE  QueueTypes'
<1>1. Tail(request_list[c]) \in Seq(Entry)
  BY HeadTailProperties DEF QueueTypes
<1>2. mqtt_msg_count' \in 0 .. CountMod - 1
  <2>1. mqtt_msg_count - 1 \in Int
    BY DEF QueueTypes
  <2> QED BY <2>1, ModType DEF delete_request
<1> QED BY <1>1, <1>2 DEF QueueTypes, delete_request

(* So does del_node_requests.                                               *)
LEMMA ClearTypes ==
    ASSUME QueueTypes, NEW c \in Conn, del_node_requests(c)
    PROVE  QueueTypes'
<1>1. mqtt_msg_count' \in 0 .. CountMod - 1
  <2>1. mqtt_msg_count - Len(request_list[c]) \in Int
    BY LenProperties DEF QueueTypes
  <2> QED BY <2>1, ModType DEF del_node_requests
<1>2. scan_armed' \in BOOLEAN
  BY DEF QueueTypes, del_node_requests
<1>3. request_list' \in [Conn -> Seq(Entry)]
  BY EmptySeq DEF QueueTypes, del_node_requests
<1> QED BY <1>1, <1>2, <1>3 DEF QueueTypes

(* sendNodeMessage changes the status of the head and nothing else. *)
LEMMA SentHead ==
    ASSUME NEW q \in Seq(Entry), q # <<>>
    PROVE  /\ MarkSent(q) \in Seq(Entry)
           /\ Len(MarkSent(q)) = Len(q)
           /\ MarkSent(q) # <<>>
           /\ Head(MarkSent(q)) = [Head(q) EXCEPT !.status = "SENT"]
           /\ Head(MarkSent(q)).status = "SENT"
           /\ \A i \in 2 .. Len(q) : MarkSent(q)[i] = q[i]
<1> DEFINE h == [q[1] EXCEPT !.status = "SENT"]
           s == [q EXCEPT ![1] = h]
<1>1. Len(q) \in Nat /\ Len(q) >= 1 /\ 1 \in 1 .. Len(q) /\ DOMAIN q = 1 .. Len(q)
  BY LenProperties, EmptySeq
<1>2. q[1] \in Entry
  BY <1>1, ElementOfSeq
<1>3. h \in Entry /\ h.status = "SENT"
  BY <1>2 DEF Entry
<1>4. s \in Seq(Entry) /\ Len(s) = Len(q) /\ \A i \in 1 .. Len(q) : s[i] = IF i = 1 THEN h ELSE q[i]
  BY <1>1, <1>3, ExceptSeq
<1>5. s # <<>>
  BY <1>1, <1>4, EmptySeq
<1>6. Head(s) = h
  BY <1>1, <1>4, <1>5
<1>8. h = [Head(q) EXCEPT !.status = "SENT"]
  BY <1>1
<1>7. s = MarkSent(q)
  BY DEF MarkSent
<1> HIDE DEF h, s
<1>9. Head(s) = [Head(q) EXCEPT !.status = "SENT"] /\ Head(s).status = "SENT"
  BY <1>3, <1>6, <1>8
<1>10. \A i \in 2 .. Len(q) : s[i] = q[i]
  BY <1>1, <1>4
<1> QED BY <1>4, <1>5, <1>7, <1>9, <1>10

(* Every handler preserves the types of all the variables.                  *)
LEMMA TypeStep ==
    ASSUME TypeOK, BusyHeadSent, [Next]_sessionVars
    PROVE  TypeOK'
<1> USE DEF TypeOK
<1>q. QueueTypes
  BY DEF QueueTypes
<1>f. ASSUME NEW c \in Conn, request_list[c] # <<>>, FinishHead(c)
      PROVE  /\ QueueTypes'
             /\ work_state' \in [Conn -> {"BUSY", "FREE"}]
             /\ UNCHANGED <<idVars, proc>>
  BY <1>q, <1>f, DeleteTypes DEF FinishHead
<1>u. UNCHANGED queueVars => QueueTypes'
  BY <1>q DEF QueueTypes, queueVars
<1>1. ASSUME NEW c \in Conn, Accept(c) PROVE TypeOK'
  <2>1. PICK n \in heap_names : client_name' = [client_name EXCEPT ![c] = n]
    BY <1>1 DEF Accept
  <2>2. client_name' \in [Conn -> Name \cup {NULL}]
    BY <2>1
  <2>3. hello_count' \in [Conn -> 0 .. HELLO_COUNT_DEFAULT]
    BY <1>1 DEF Accept, HELLO_COUNT_DEFAULT
  <2>4. QueueTypes'
    BY <1>1, <1>u DEF Accept
  <2> QED BY <1>1, <2>2, <2>3, <2>4 DEF Accept, QueueTypes
<1>2. ASSUME NEW c \in Conn, Disconnect(c) PROVE TypeOK'
  BY <1>2, <1>u DEF Disconnect, Publish, QueueTypes
<1>3. ASSUME NEW c \in Conn, HelloMsg(c) PROVE TypeOK'
  <2>1. hello_count' \in [Conn -> 0 .. HELLO_COUNT_DEFAULT]
    BY <1>3 DEF HelloMsg, HELLO_COUNT_DEFAULT
  <2>2. CASE AssertFails
    BY <2>1, <2>2, <1>u DEF AssertFails, idVars, QueueTypes
  <2>3. CASE request_list[c] # <<>> /\ FinishHead(c)
    BY <2>1, <2>3, <1>f DEF idVars, QueueTypes
  <2>4. CASE UNCHANGED <<queueVars, idVars, work_state, proc>>
    BY <2>1, <2>4, <1>u DEF idVars, QueueTypes
  <2> QED BY <1>3, <2>2, <2>3, <2>4 DEF HelloMsg
<1>4. ASSUME NEW c \in Conn, NEW n \in Name \cup {client_name[c]}, CapsMsg(c, n)
      PROVE  TypeOK'
  BY <1>4, <1>u DEF CapsMsg, QueueTypes
<1>5. ASSUME NEW c \in Conn, NEW w \in BOOLEAN, GetResp(c, w) PROVE TypeOK'
  <2>1. CASE AssertFails
    BY <1>5, <2>1, <1>u DEF GetResp, AssertFails, idVars, QueueTypes
  <2>2. CASE HasReqData(c) /\ FinishHead(c)
    BY <1>5, <2>2, <1>f DEF GetResp, HasReqData, idVars, QueueTypes
  <2>3. CASE Crash
    BY <1>5, <2>3, <1>u DEF GetResp, Crash, idVars, QueueTypes
  <2>4. CASE UNCHANGED <<queueVars, idVars, work_state, proc>>
    BY <1>5, <2>4, <1>u DEF GetResp, idVars, QueueTypes
  <2> QED BY <1>5, <2>1, <2>2, <2>3, <2>4 DEF GetResp
<1>6. ASSUME NEW c \in Conn, NEW w \in BOOLEAN, SetResp(c, w) PROVE TypeOK'
  <2>1. CASE AssertFails
    BY <1>6, <2>1, <1>u DEF SetResp, AssertFails, idVars, QueueTypes
  <2>2. CASE request_list[c] # <<>> /\ FinishHead(c)
    BY <1>6, <2>2, <1>f DEF SetResp, idVars, QueueTypes
  <2>3. CASE Crash
    BY <1>6, <2>3, <1>u DEF SetResp, Crash, idVars, QueueTypes
  <2>4. CASE UNCHANGED <<queueVars, idVars, work_state, proc>>
    BY <1>6, <2>4, <1>u DEF SetResp, idVars, QueueTypes
  <2> QED BY <1>6, <2>1, <2>2, <2>3, <2>4 DEF SetResp
<1>7. ASSUME NEW c \in Conn, HelloDead(c) PROVE TypeOK'
  BY <1>7, <1>u DEF HelloDead, Publish, QueueTypes
<1>8. ASSUME NEW c \in Conn, HelloTick(c) PROVE TypeOK'
  <2>1. QueueTypes'
    BY <1>8, <1>q, EnqueueTypes, EntryTypes DEF HelloTick
  <2>2. hello_count' \in [Conn -> 0 .. HELLO_COUNT_DEFAULT]
    BY <1>8 DEF HelloTick, HELLO_COUNT_DEFAULT
  <2> QED BY <1>8, <2>1, <2>2 DEF HelloTick, idVars, QueueTypes
<1>9. ASSUME NEW c \in Conn, NEW r \in Request, WorkEnqueue(c, r) PROVE TypeOK'
  <2>1. QueueTypes'
    BY <1>9, <1>q, EnqueueTypes, EntryTypes DEF WorkEnqueue
  <2> QED BY <1>9, <2>1 DEF WorkEnqueue, idVars, QueueTypes
<1>10. ASSUME NEW c \in Conn, BusyTimeout(c) PROVE TypeOK'
  <2>1. request_list[c] # <<>> /\ FinishHead(c)
    BY <1>10 DEF BusyTimeout, BusyHeadSent
  <2> QED BY <1>10, <2>1, <1>f DEF BusyTimeout, idVars, QueueTypes
<1>11. ASSUME NEW c \in Conn, SendHead(c) PROVE TypeOK'
  <2>1. MarkSent(request_list[c]) \in Seq(Entry)
    BY <1>11, SentHead DEF SendHead
  <2>2. request_list' \in [Conn -> Seq(Entry)]
    BY <1>11, <2>1 DEF SendHead
  <2> QED BY <1>11, <2>2 DEF SendHead, idVars
<1>12. ASSUME NEW c \in Conn, DelEvent(c) PROVE TypeOK'
  <2>1. QueueTypes'
    BY <1>12, <1>q, ClearTypes DEF DelEvent
  <2>2. hello_count' \in [Conn -> 0 .. HELLO_COUNT_DEFAULT]
    BY <1>12 DEF DelEvent, HELLO_COUNT_DEFAULT
  <2>3. /\ nodes' \in SUBSET Conn
        /\ del_mark' \in SUBSET nodes'
        /\ caps' \in SUBSET nodes'
    BY <1>12 DEF DelEvent
  <2>4. heap_names' \in SUBSET (Name \cup {NULL})
    BY <1>12 DEF DelEvent
  <2>5. /\ client_name' \in [Conn -> Name \cup {NULL}]
        /\ work_state' \in [Conn -> {"BUSY", "FREE"}]
        /\ UNCHANGED <<view, proc>>
    BY <1>12 DEF DelEvent
  <2> QED BY <2>1, <2>2, <2>3, <2>4, <2>5 DEF QueueTypes
<1>13. CASE UNCHANGED sessionVars
  BY <1>13, <1>u DEF sessionVars, queueVars, idVars, QueueTypes
<1> QED BY <1>1, <1>2, <1>3, <1>4, <1>5, <1>6, <1>7, <1>8, <1>9, <1>10, <1>11,
           <1>12, <1>13 DEF Next

(***************************************************************************)
(* The shape of a request list                                              *)
(***************************************************************************)

(* The invariant of one list q of a node in work state w. *)
ListOK(q, w) ==
    /\ w = "BUSY" => q # <<>> /\ Head(q).status = "SENT"
    /\ \A i \in 2 .. Len(q) : q[i].status = "PENDING"

(* The two invariants of the lists are ListOK at every connection.          *)
LEMMA ListOKInv == (BusyHeadSent /\ OnlyHeadSent) <=>
                       \A c \in Conn : ListOK(request_list[c], work_state[c])
BY DEF BusyHeadSent, OnlyHeadSent, ListOK

(* Queueing one more PENDING entry. *)
LEMMA ListOKAppend ==
    ASSUME NEW q \in Seq(Entry), NEW w, ListOK(q, w),
           NEW e \in Entry, e.status = "PENDING"
    PROVE  ListOK(Append(q, e), w)
<1>1. /\ Len(Append(q, e)) = Len(q) + 1
      /\ Append(q, e) # <<>>
      /\ Append(q, e) \in Seq(Entry)
      /\ \A i \in 1 .. Len(q) : Append(q, e)[i] = q[i]
      /\ Append(q, e)[Len(q) + 1] = e
  BY AppendProperties
<1>2. Len(q) \in Nat
  BY LenProperties
<1>3. ASSUME w = "BUSY" PROVE Head(Append(q, e)).status = "SENT"
  BY <1>3, HeadTailAppend DEF ListOK
<1>4. ASSUME NEW i \in 2 .. Len(Append(q, e)) PROVE Append(q, e)[i].status = "PENDING"
  <2>1. CASE i = Len(q) + 1
    BY <1>1, <2>1
  <2>2. CASE i # Len(q) + 1
    <3>1. i \in 2 .. Len(q)
      BY <1>1, <1>2, <2>2
    <3> QED BY <1>1, <1>2, <3>1 DEF ListOK
  <2> QED BY <2>1, <2>2
<1> QED BY <1>1, <1>3, <1>4 DEF ListOK

(* Deleting the head of the list and setting the node FREE. *)
LEMMA ListOKTail ==
    ASSUME NEW q \in Seq(Entry), NEW w, ListOK(q, w), q # <<>>
    PROVE  ListOK(Tail(q), "FREE")
<1>1. /\ Len(Tail(q)) = Len(q) - 1
      /\ \A i \in 1 .. Len(Tail(q)) : Tail(q)[i] = q[i + 1]
  BY HeadTailProperties
<1>2. Len(q) \in Nat
  BY LenProperties
<1>3. ASSUME NEW i \in 2 .. Len(Tail(q)) PROVE Tail(q)[i].status = "PENDING"
  <2>1. i + 1 \in 2 .. Len(q) /\ i \in 1 .. Len(Tail(q))
    BY <1>1, <1>2
  <2> QED BY <1>1, <2>1 DEF ListOK
<1> QED BY <1>3 DEF ListOK

(* Sending the head and setting the node BUSY. *)
LEMMA ListOKSend ==
    ASSUME NEW q \in Seq(Entry), NEW w, ListOK(q, w), q # <<>>
    PROVE  ListOK(MarkSent(q), "BUSY")
BY SentHead DEF ListOK

(* Setting a node FREE (CAPS, a closed connection) leaves its list in order. *)
LEMMA ListOKFree ==
    ASSUME NEW q, NEW w, ListOK(q, w)
    PROVE  ListOK(q, "FREE")
BY DEF ListOK

(* The list that del_node_requests leaves is in order.                      *)
LEMMA ListOKEmpty == ListOK(<<>>, "FREE")
BY DEF ListOK

(* What a step can do to the list and the work state of the connection c. *)
ListStep(c) ==
    \/ UNCHANGED <<request_list, work_state>>
    \/ /\ UNCHANGED request_list
       /\ work_state' = [work_state EXCEPT ![c] = "FREE"]
    \/ /\ \E e \in Entry : /\ e.status = "PENDING"
                          /\ request_list' = [request_list EXCEPT ![c] = Append(@, e)]
       /\ UNCHANGED work_state
    \/ /\ request_list[c] # <<>>
       /\ request_list' = [request_list EXCEPT ![c] = Tail(@)]
       /\ work_state' = [work_state EXCEPT ![c] = "FREE"]
    \/ /\ request_list[c] # <<>>
       /\ request_list' = [request_list EXCEPT ![c] = MarkSent(@)]
       /\ work_state' = [work_state EXCEPT ![c] = "BUSY"]
    \/ /\ request_list' = [request_list EXCEPT ![c] = <<>>]
       /\ work_state' = [work_state EXCEPT ![c] = "FREE"]

(* Every step works on one connection; only del_event drops it from nodes,  *)
(* and del_event empties its list.                                          *)
WorksOn(c) ==
    /\ ListStep(c)
    /\ nodes \ {c} \subseteq nodes'
    /\ c \in nodes' \/ request_list'[c] = <<>>

(* Every handler of the main loop works on the list of one connection.      *)
LEMMA StepWorksOn ==
    ASSUME TypeOK, BusyHeadSent, [Next]_sessionVars
    PROVE  \/ UNCHANGED <<request_list, work_state, nodes>>
           \/ \E c \in Conn : WorksOn(c)
<1>e. HelloEntry.status = "PENDING" /\ \A r \in Request : MqttEntry(r).status = "PENDING"
  BY DEF HelloEntry, MqttEntry
<1>f. ASSUME NEW c \in nodes, request_list[c] # <<>>, FinishHead(c)
      PROVE  WorksOn(c)
  BY <1>f DEF FinishHead, delete_request, idVars, ListStep, WorksOn
<1>s. ASSUME NEW c \in nodes, UNCHANGED <<queueVars, idVars, work_state>>
      PROVE  WorksOn(c)
  BY <1>s DEF queueVars, idVars, ListStep, WorksOn
<1>1. ASSUME NEW c \in Conn, Accept(c) PROVE WorksOn(c)
  BY <1>1 DEF Accept, queueVars, ListStep, WorksOn
<1>2. ASSUME NEW c \in Conn, Disconnect(c) PROVE WorksOn(c)
  BY <1>2 DEF Disconnect, queueVars, ListStep, WorksOn
<1>3. ASSUME NEW c \in Conn, HelloMsg(c) PROVE WorksOn(c)
  BY <1>3, <1>f, <1>s DEF HelloMsg, AssertFails
<1>4. ASSUME NEW c \in Conn, NEW n \in Name \cup {client_name[c]}, CapsMsg(c, n)
      PROVE  WorksOn(c)
  BY <1>4 DEF CapsMsg, queueVars, ListStep, WorksOn
<1>5. ASSUME NEW c \in Conn, NEW w \in BOOLEAN, GetResp(c, w) PROVE WorksOn(c)
  BY <1>5, <1>f, <1>s DEF GetResp, HasReqData, AssertFails, Crash
<1>6. ASSUME NEW c \in Conn, NEW w \in BOOLEAN, SetResp(c, w) PROVE WorksOn(c)
  BY <1>6, <1>f, <1>s DEF SetResp, AssertFails, Crash
<1>7. ASSUME NEW c \in Conn, HelloDead(c) PROVE WorksOn(c)
  BY <1>7 DEF HelloDead, queueVars, ListStep, WorksOn
<1>8. ASSUME NEW c \in Conn, HelloTick(c) PROVE WorksOn(c)
  BY <1>8, <1>e, EntryTypes DEF HelloTick, ENQUEUE_IOT_REQUEST, idVars, ListStep, WorksOn
<1>9. ASSUME NEW c \in Conn, NEW r \in Request, WorkEnqueue(c, r) PROVE WorksOn(c)
  BY <1>9, <1>e, EntryTypes DEF WorkEnqueue, ENQUEUE_IOT_REQUEST, idVars, ListStep, WorksOn
<1>10. ASSUME NEW c \in Conn, BusyTimeout(c) PROVE WorksOn(c)
  BY <1>10, <1>f DEF BusyTimeout, BusyHeadSent
<1>11. ASSUME NEW c \in Conn, SendHead(c) PROVE WorksOn(c)
  BY <1>11 DEF SendHead, idVars, ListStep, WorksOn
<1>12. ASSUME NEW c \in Conn, DelEvent(c) PROVE WorksOn(c)
  BY <1>12 DEF DelEvent, del_node_requests, ListStep, WorksOn, TypeOK
<1>13. CASE UNCHANGED sessionVars
  BY <1>13 DEF sessionVars, queueVars, idVars
<1> QED BY <1>1, <1>2, <1>3, <1>4, <1>5, <1>6, <1>7, <1>8, <1>9, <1>10, <1>11,
           <1>12, <1>13 DEF Next

(***************************************************************************)
(* The invariant of the request lists                                       *)
(***************************************************************************)

QueueInv == BusyHeadSent /\ OnlyHeadSent /\ NoOrphanRequest

(* No handler leaves a BUSY node without a sent head, or a sent request     *)
(* behind the head.                                                         *)
LEMMA ListStepOK ==
    ASSUME TypeOK, BusyHeadSent, OnlyHeadSent, NEW c \in Conn, ListStep(c)
    PROVE  BusyHeadSent' /\ OnlyHeadSent'
<1>1. \A d \in Conn : /\ request_list[d] \in Seq(Entry)
                      /\ ListOK(request_list[d], work_state[d])
  BY ListOKInv DEF TypeOK
<1>2. \A d \in Conn : ListOK(request_list'[d], work_state'[d])
  <2> SUFFICES ASSUME NEW d \in Conn PROVE ListOK(request_list'[d], work_state'[d])
    OBVIOUS
  <2>1. CASE UNCHANGED <<request_list, work_state>>
    BY <1>1, <2>1
  <2>2. CASE /\ UNCHANGED request_list
             /\ work_state' = [work_state EXCEPT ![c] = "FREE"]
    BY <1>1, <2>2, ListOKFree DEF TypeOK
  <2>3. CASE /\ \E e \in Entry : /\ e.status = "PENDING"
                                /\ request_list' = [request_list EXCEPT ![c] = Append(@, e)]
             /\ UNCHANGED work_state
    BY <1>1, <2>3, ListOKAppend DEF TypeOK
  <2>4. CASE /\ request_list[c] # <<>>
             /\ request_list' = [request_list EXCEPT ![c] = Tail(@)]
             /\ work_state' = [work_state EXCEPT ![c] = "FREE"]
    BY <1>1, <2>4, ListOKTail DEF TypeOK
  <2>5. CASE /\ request_list[c] # <<>>
             /\ request_list' = [request_list EXCEPT ![c] = MarkSent(@)]
             /\ work_state' = [work_state EXCEPT ![c] = "BUSY"]
    BY <1>1, <2>5, ListOKSend DEF TypeOK
  <2>6. CASE /\ request_list' = [request_list EXCEPT ![c] = <<>>]
             /\ work_state' = [work_state EXCEPT ![c] = "FREE"]
    BY <1>1, <2>6, ListOKEmpty DEF TypeOK
  <2> QED BY <2>1, <2>2, <2>3, <2>4, <2>5, <2>6 DEF ListStep
<1> QED BY <1>2 DEF ListOK, BusyHeadSent, OnlyHeadSent

(* Every handler preserves the invariant of the request lists.              *)
LEMMA QueueInvStep ==
    ASSUME TypeOK, QueueInv, [Next]_sessionVars
    PROVE  QueueInv'
<1> USE DEF QueueInv
<1>1. CASE UNCHANGED <<request_list, work_state, nodes>>
  BY <1>1 DEF BusyHeadSent, OnlyHeadSent, NoOrphanRequest
<1>2. ASSUME NEW c \in Conn, WorksOn(c) PROVE QueueInv'
  <2>1. BusyHeadSent' /\ OnlyHeadSent'
    BY <1>2, ListStepOK DEF WorksOn
  <2>2. \A d \in Conn \ {c} : request_list'[d] = request_list[d]
    BY <1>2 DEF WorksOn, ListStep, TypeOK
  <2>3. NoOrphanRequest'
    BY <1>2, <2>2 DEF WorksOn, NoOrphanRequest
  <2> QED BY <2>1, <2>3
<1> QED BY <1>1, <1>2, StepWorksOn

(* The gateway starts without connections, requests or a running timer.      *)
LEMMA SessionStart == Init => TypeOK /\ QueueInv
<1> SUFFICES ASSUME Init PROVE TypeOK /\ QueueInv
  OBVIOUS
<1>1. TypeOK
  <2>1. request_list \in [Conn -> Seq(Entry)]
    BY EmptySeq DEF Init
  <2>2. hello_count \in [Conn -> 0 .. HELLO_COUNT_DEFAULT]
    BY DEF Init, HELLO_COUNT_DEFAULT
  <2>3. mqtt_msg_count \in 0 .. CountMod - 1
    BY CountAssumption DEF Init
  <2> QED BY <2>1, <2>2, <2>3 DEF Init, TypeOK
<1>2. QueueInv
  BY EmptySeq DEF Init, QueueInv, BusyHeadSent, OnlyHeadSent, NoOrphanRequest
<1> QED BY <1>1, <1>2

(* What the runs check of the request lists holds for every number of        *)
(* connections and requests, in both builds.                                 *)
THEOREM TypeAndQueueInvariant == Spec => [](TypeOK /\ QueueInv)
<1>1. TypeOK /\ QueueInv /\ [Next]_sessionVars => (TypeOK /\ QueueInv)'
  BY TypeStep, QueueInvStep DEF QueueInv
<1> QED BY <1>1, SessionStart, PTL DEF Spec

(* NodeSession!TypeOK for every value of the constants. *)
THEOREM TypeCorrect == Spec => []TypeOK
BY TypeAndQueueInvariant, PTL

(* try_do_some_work never reads the head of an empty list of a BUSY node.   *)
THEOREM BusyNodeHasSentHead == Spec => []BusyHeadSent
BY TypeAndQueueInvariant, PTL DEF QueueInv

(* At most the head of a list is on its way to the node. *)
THEOREM OneRequestInFlight == Spec => []OnlyHeadSent
BY TypeAndQueueInvariant, PTL DEF QueueInv

(* A deleted IOT_EVENT leaves no request behind. *)
THEOREM NoOrphans == Spec => []NoOrphanRequest
BY TypeAndQueueInvariant, PTL DEF QueueInv

(***************************************************************************)
(* mqtt_msg_count and the scan timer                                        *)
(***************************************************************************)

(* The places of the lists, seen as a function of the lists alone. *)
PlacesOf(lists) == UNION {{c} \X (1 .. Len(lists[c])) : c \in Conn}

(* The queued requests, before and after a step of a handler.               *)
LEMMA QueuedIsPlaces == Queued = PlacesOf(request_list) /\ Queued' = PlacesOf(request_list')
BY DEF Queued, PlacesOf

(* A place belongs to a list exactly when the list is that long.            *)
LEMMA PlaceOf ==
    ASSUME NEW lists, NEW c, NEW i
    PROVE  <<c, i>> \in PlacesOf(lists) <=> c \in Conn /\ i \in 1 .. Len(lists[c])
BY DEF PlacesOf

(* Every place is a connection and an index into its list.                  *)
LEMMA PlacesArePairs ==
    ASSUME NEW lists, NEW p \in PlacesOf(lists)
    PROVE  \E c \in Conn : \E i \in 1 .. Len(lists[c]) : p = <<c, i>>
BY DEF PlacesOf

(* A longer list has one more place, a shorter one has lost its last place, *)
(* and an emptied one has lost all of its places.                           *)
LEMMA PlacesChange ==
    ASSUME NEW old \in [Conn -> Seq(Entry)], NEW new \in [Conn -> Seq(Entry)],
           NEW c \in Conn, \A d \in Conn \ {c} : Len(new[d]) = Len(old[d])
    PROVE  /\ Len(new[c]) = Len(old[c]) => PlacesOf(new) = PlacesOf(old)
           /\ Len(new[c]) = Len(old[c]) + 1
                => /\ PlacesOf(new) = PlacesOf(old) \cup {<<c, Len(new[c])>>}
                   /\ <<c, Len(new[c])>> \notin PlacesOf(old)
           /\ Len(new[c]) = Len(old[c]) - 1
                => /\ PlacesOf(new) = PlacesOf(old) \ {<<c, Len(old[c])>>}
                   /\ <<c, Len(old[c])>> \in PlacesOf(old)
           /\ Len(new[c]) = 0
                => /\ PlacesOf(new) = PlacesOf(old) \ ({c} \X (1 .. Len(old[c])))
                   /\ {c} \X (1 .. Len(old[c])) \subseteq PlacesOf(old)
<1>l. \A d \in Conn : Len(old[d]) \in Nat /\ Len(new[d]) \in Nat
  BY LenProperties
<1>1. ASSUME Len(new[c]) = Len(old[c]) PROVE PlacesOf(new) = PlacesOf(old)
  <2>1. \A d \in Conn : Len(new[d]) = Len(old[d])
    BY <1>1
  <2> QED BY <2>1 DEF PlacesOf
<1>2. ASSUME Len(new[c]) = Len(old[c]) + 1
      PROVE  /\ PlacesOf(new) = PlacesOf(old) \cup {<<c, Len(new[c])>>}
             /\ <<c, Len(new[c])>> \notin PlacesOf(old)
  <2>1. ASSUME NEW p \in PlacesOf(new)
        PROVE  p \in PlacesOf(old) \cup {<<c, Len(new[c])>>}
    BY <1>l, <1>2, <2>1, PlacesArePairs, PlaceOf
  <2>2. ASSUME NEW p \in PlacesOf(old) PROVE p \in PlacesOf(new)
    BY <1>l, <1>2, <2>2, PlacesArePairs, PlaceOf
  <2>3. <<c, Len(new[c])>> \in PlacesOf(new) /\ <<c, Len(new[c])>> \notin PlacesOf(old)
    <3> DEFINE n == Len(new[c])
    <3>1. n \in 1 .. Len(new[c]) /\ n \notin 1 .. Len(old[c])
      BY <1>l, <1>2
    <3> QED BY <3>1, PlaceOf
  <2> QED BY <2>1, <2>2, <2>3
<1>3. ASSUME Len(new[c]) = Len(old[c]) - 1
      PROVE  /\ PlacesOf(new) = PlacesOf(old) \ {<<c, Len(old[c])>>}
             /\ <<c, Len(old[c])>> \in PlacesOf(old)
  <2>1. ASSUME NEW p \in PlacesOf(new)
        PROVE  p \in PlacesOf(old) /\ p # <<c, Len(old[c])>>
    BY <1>l, <1>3, <2>1, PlacesArePairs, PlaceOf
  <2>2. ASSUME NEW p \in PlacesOf(old), p # <<c, Len(old[c])>> PROVE p \in PlacesOf(new)
    BY <1>l, <1>3, <2>2, PlacesArePairs, PlaceOf
  <2>3. <<c, Len(old[c])>> \in PlacesOf(old)
    <3> DEFINE n == Len(old[c])
    <3>1. n \in 1 .. Len(old[c])
      <4>1. Len(old[c]) \in Nat /\ Len(new[c]) \in Nat
        BY <1>l
      <4> QED BY <4>1, <1>3
    <3> QED BY <3>1, PlaceOf
  <2> QED BY <2>1, <2>2, <2>3
<1>4. ASSUME Len(new[c]) = 0
      PROVE  /\ PlacesOf(new) = PlacesOf(old) \ ({c} \X (1 .. Len(old[c])))
             /\ {c} \X (1 .. Len(old[c])) \subseteq PlacesOf(old)
  <2>1. ASSUME NEW p \in PlacesOf(new)
        PROVE  p \in PlacesOf(old) /\ p \notin {c} \X (1 .. Len(old[c]))
    BY <1>l, <1>4, <2>1, PlacesArePairs, PlaceOf
  <2>2. ASSUME NEW p \in PlacesOf(old), p \notin {c} \X (1 .. Len(old[c]))
        PROVE  p \in PlacesOf(new)
    BY <1>l, <1>4, <2>2, PlacesArePairs, PlaceOf
  <2>3. {c} \X (1 .. Len(old[c])) \subseteq PlacesOf(old)
    BY DEF PlacesOf
  <2> QED BY <2>1, <2>2, <2>3
<1> QED BY <1>1, <1>2, <1>3, <1>4

(* What a step can do to the lists together with the counter and the timer. *)
CountStep(c) ==
    \/ /\ \A d \in Conn : Len(request_list'[d]) = Len(request_list[d])
       /\ UNCHANGED <<mqtt_msg_count, scan_armed>>
    \/ /\ Total < MaxQueued
       /\ \E e \in Entry : ENQUEUE_IOT_REQUEST(c, e)
    \/ request_list[c] # <<>> /\ delete_request(c)
    \/ del_node_requests(c)

(* Every handler changes the counter together with the lists, by one of     *)
(* the four effects.                                                        *)
LEMMA StepCounts ==
    ASSUME TypeOK, BusyHeadSent, [Next]_sessionVars
    PROVE  \/ UNCHANGED queueVars
           \/ \E c \in Conn : CountStep(c)
<1>f. ASSUME NEW c \in Conn, request_list[c] # <<>>, FinishHead(c)
      PROVE  CountStep(c)
  BY <1>f DEF FinishHead, CountStep
<1>1. ASSUME NEW c \in Conn, Accept(c) PROVE UNCHANGED queueVars
  BY <1>1 DEF Accept, queueVars
<1>2. ASSUME NEW c \in Conn, Disconnect(c) PROVE UNCHANGED queueVars
  BY <1>2 DEF Disconnect, queueVars
<1>3. ASSUME NEW c \in Conn, HelloMsg(c) PROVE UNCHANGED queueVars \/ CountStep(c)
  BY <1>3, <1>f DEF HelloMsg, AssertFails, queueVars
<1>4. ASSUME NEW c \in Conn, NEW n \in Name \cup {client_name[c]}, CapsMsg(c, n)
      PROVE  UNCHANGED queueVars
  BY <1>4 DEF CapsMsg, queueVars
<1>5. ASSUME NEW c \in Conn, NEW w \in BOOLEAN, GetResp(c, w)
      PROVE  UNCHANGED queueVars \/ CountStep(c)
  BY <1>5, <1>f DEF GetResp, HasReqData, AssertFails, Crash, queueVars
<1>6. ASSUME NEW c \in Conn, NEW w \in BOOLEAN, SetResp(c, w)
      PROVE  UNCHANGED queueVars \/ CountStep(c)
  BY <1>6, <1>f DEF SetResp, AssertFails, Crash, queueVars
<1>7. ASSUME NEW c \in Conn, HelloDead(c) PROVE UNCHANGED queueVars
  BY <1>7 DEF HelloDead, queueVars
<1>8. ASSUME NEW c \in Conn, HelloTick(c) PROVE CountStep(c)
  BY <1>8, EntryTypes DEF HelloTick, CountStep
<1>9. ASSUME NEW c \in Conn, NEW r \in Request, WorkEnqueue(c, r) PROVE CountStep(c)
  BY <1>9, EntryTypes DEF WorkEnqueue, CountStep
<1>10. ASSUME NEW c \in Conn, BusyTimeout(c) PROVE CountStep(c)
  BY <1>10, <1>f DEF BusyTimeout, BusyHeadSent
<1>11. ASSUME NEW c \in Conn, SendHead(c) PROVE CountStep(c)
  <2>1. CASE request_list' = [request_list EXCEPT ![c] = MarkSent(@)]
    <3>1. Len(MarkSent(request_list[c])) = Len(request_list[c])
      BY <1>11, SentHead DEF SendHead, TypeOK
    <3>2. \A d \in Conn : Len(request_list'[d]) = Len(request_list[d])
      BY <2>1, <3>1 DEF TypeOK
    <3> QED BY <1>11, <3>2 DEF SendHead, CountStep
  <2>2. CASE UNCHANGED request_list
    BY <1>11, <2>2 DEF SendHead, CountStep
  <2> QED BY <1>11, <2>1, <2>2 DEF SendHead
<1>12. ASSUME NEW c \in Conn, DelEvent(c) PROVE CountStep(c)
  BY <1>12 DEF DelEvent, CountStep
<1>13. CASE UNCHANGED sessionVars
  BY <1>13 DEF sessionVars, queueVars
<1> QED BY <1>1, <1>2, <1>3, <1>4, <1>5, <1>6, <1>7, <1>8, <1>9, <1>10, <1>11,
           <1>12, <1>13 DEF Next

(* Marking a head as sent adds and removes no request.                      *)
LEMMA CountSame ==
    ASSUME TypeOK, TypeOK',
           \A d \in Conn : Len(request_list'[d]) = Len(request_list[d])
    PROVE  Queued' = Queued
BY DEF Queued

(* ENQUEUE_IOT_REQUEST adds one request.                                    *)
LEMMA CountEnqueue ==
    ASSUME TypeOK, TypeOK', NEW c \in Conn, NEW e \in Entry,
           ENQUEUE_IOT_REQUEST(c, e), IsFiniteSet(Queued)
    PROVE  IsFiniteSet(Queued') /\ Total' = Total + 1
<1>1. Len(request_list'[c]) = Len(request_list[c]) + 1
  BY AppendProperties DEF ENQUEUE_IOT_REQUEST, TypeOK
<1>2. \A d \in Conn \ {c} : Len(request_list'[d]) = Len(request_list[d])
  BY DEF ENQUEUE_IOT_REQUEST, TypeOK
<1> DEFINE p == <<c, Len(request_list'[c])>>
<1>3. PlacesOf(request_list') = PlacesOf(request_list) \cup {p} /\ p \notin PlacesOf(request_list)
  BY <1>1, <1>2, PlacesChange DEF TypeOK
<1>4. Queued' = Queued \cup {p} /\ p \notin Queued
  BY <1>3, QueuedIsPlaces
<1> HIDE DEF p
<1> QED BY <1>4, FS_AddElement DEF Total

(* delete_request removes one request.                                      *)
LEMMA CountDelete ==
    ASSUME TypeOK, TypeOK', NEW c \in Conn, request_list[c] # <<>>,
           delete_request(c), IsFiniteSet(Queued)
    PROVE  IsFiniteSet(Queued') /\ Total' = Total - 1
<1>1. Len(request_list'[c]) = Len(request_list[c]) - 1
  BY HeadTailProperties DEF delete_request, TypeOK
<1>2. \A d \in Conn \ {c} : Len(request_list'[d]) = Len(request_list[d])
  BY DEF delete_request, TypeOK
<1> DEFINE p == <<c, Len(request_list[c])>>
<1>3. PlacesOf(request_list') = PlacesOf(request_list) \ {p} /\ p \in PlacesOf(request_list)
  BY <1>1, <1>2, PlacesChange DEF TypeOK
<1>4. Queued' = Queued \ {p} /\ p \in Queued
  BY <1>3, QueuedIsPlaces
<1> HIDE DEF p
<1> QED BY <1>4, FS_RemoveElement DEF Total

(* del_node_requests removes all the requests of its node.                  *)
LEMMA CountClear ==
    ASSUME TypeOK, TypeOK', NEW c \in Conn, del_node_requests(c), IsFiniteSet(Queued)
    PROVE  /\ IsFiniteSet(Queued')
           /\ Len(request_list[c]) \in Nat
           /\ Total' = Total - Len(request_list[c])
<1>1. Len(request_list'[c]) = 0
  BY EmptySeq DEF del_node_requests, TypeOK
<1>2. \A d \in Conn \ {c} : Len(request_list'[d]) = Len(request_list[d])
  BY DEF del_node_requests, TypeOK
<1>3. Len(request_list[c]) \in Nat
  BY LenProperties DEF TypeOK
<1> DEFINE k == Len(request_list[c])
           P == {c} \X (1 .. k)
<1>4. PlacesOf(request_list') = PlacesOf(request_list) \ P /\ P \subseteq PlacesOf(request_list)
  BY <1>1, <1>2, PlacesChange DEF TypeOK
<1>5. Queued' = Queued \ P /\ P \subseteq Queued
  BY <1>4, QueuedIsPlaces
<1>6. Cardinality(P) = k
  <2>1. IsFiniteSet(1 .. k) /\ Cardinality(1 .. k) = k
    BY <1>3, FS_Interval
  <2>2. IsFiniteSet({c}) /\ Cardinality({c}) = 1
    BY FS_Singleton
  <2>3. Cardinality(P) = 1 * k
    BY <2>1, <2>2, FS_Product
  <2> QED BY <2>3, <1>3
<1> HIDE DEF k, P
<1>7. IsFiniteSet(Queued \ P) /\ Cardinality(Queued \ P) = Cardinality(Queued) - Cardinality(Queued \cap P)
  BY FS_Difference
<1>8. Queued \cap P = P
  BY <1>5
<1> QED BY <1>3, <1>5, <1>6, <1>7, <1>8 DEF Total, k

CountInv == IsFiniteSet(Queued) /\ CountIsTotal

(* The number of queued requests is a number.                               *)
LEMMA TotalNat == ASSUME IsFiniteSet(Queued) PROVE Total \in Nat
BY FS_CardinalityType DEF Total

(* Every handler keeps the counter equal to the number of requests, up to   *)
(* its width.                                                               *)
LEMMA CountInvStep ==
    ASSUME TypeOK, TypeOK', BusyHeadSent, CountInv, [Next]_sessionVars
    PROVE  CountInv'
<1>t. Total \in Nat /\ CountMod \in Nat /\ CountMod > 0
  BY TotalNat, CountAssumption DEF CountInv
<1>w. \A k \in Int : ((Total % CountMod) + k) % CountMod = (Total + k) % CountMod
  <2> SUFFICES ASSUME NEW k \in Int
               PROVE  ((Total % CountMod) + k) % CountMod = (Total + k) % CountMod
    OBVIOUS
  <2> DEFINE M == CountMod
             x == Total
  <2>1. M \in Nat /\ M > 0 /\ x \in Int
    BY <1>t
  <2> HIDE DEF M, x
  <2>2. ((x % M) + k) % M = (x + k) % M
    BY <2>1, WrappedSum
  <2> QED BY <2>2 DEF M, x
<1>c. mqtt_msg_count = Total % CountMod
  BY DEF CountInv, CountIsTotal
<1>1. CASE UNCHANGED queueVars
  BY <1>1 DEF queueVars, CountInv, CountIsTotal, Total, Queued
<1>2. ASSUME NEW c \in Conn, CountStep(c) PROVE CountInv'
  <2>1. CASE /\ \A d \in Conn : Len(request_list'[d]) = Len(request_list[d])
             /\ UNCHANGED <<mqtt_msg_count, scan_armed>>
    BY <2>1, CountSame DEF CountInv, CountIsTotal, Total
  <2>2. ASSUME NEW e \in Entry, ENQUEUE_IOT_REQUEST(c, e) PROVE CountInv'
    <3>1. IsFiniteSet(Queued') /\ Total' = Total + 1
      BY <2>2, CountEnqueue DEF CountInv
    <3>2. mqtt_msg_count' = ((Total % CountMod) + 1) % CountMod
      BY <2>2, <1>c DEF ENQUEUE_IOT_REQUEST
    <3>3. mqtt_msg_count' = (Total + 1) % CountMod
      BY <3>2, <1>w
    <3> QED BY <3>1, <3>3 DEF CountInv, CountIsTotal
  <2>3. CASE request_list[c] # <<>> /\ delete_request(c)
    <3>1. IsFiniteSet(Queued') /\ Total' = Total - 1
      BY <2>3, CountDelete DEF CountInv
    <3>2. mqtt_msg_count' = ((Total % CountMod) + (0 - 1)) % CountMod
      <4>1. mqtt_msg_count - 1 = mqtt_msg_count + (0 - 1)
        BY DEF TypeOK
      <4> QED BY <2>3, <4>1, <1>c DEF delete_request
    <3>3. mqtt_msg_count' = (Total + (0 - 1)) % CountMod
      BY <3>2, <1>w
    <3>4. Total + (0 - 1) = Total - 1
      BY <1>t
    <3> QED BY <3>1, <3>3, <3>4 DEF CountInv, CountIsTotal
  <2>4. CASE del_node_requests(c)
    <3> DEFINE k == Len(request_list[c])
    <3>1. IsFiniteSet(Queued') /\ k \in Nat /\ Total' = Total - k
      BY <2>4, CountClear DEF CountInv
    <3>2. mqtt_msg_count' = ((Total % CountMod) + (0 - k)) % CountMod
      <4>1. mqtt_msg_count - k = mqtt_msg_count + (0 - k)
        BY <3>1 DEF TypeOK
      <4> QED BY <2>4, <4>1, <1>c DEF del_node_requests
    <3> HIDE DEF k
    <3>3. mqtt_msg_count' = (Total + (0 - k)) % CountMod
      <4>1. 0 - k \in Int
        BY <3>1
      <4> QED BY <3>2, <4>1, <1>w
    <3>4. Total + (0 - k) = Total - k
      BY <1>t, <3>1
    <3> QED BY <3>1, <3>3, <3>4 DEF CountInv, CountIsTotal
  <2> QED BY <1>2, <2>1, <2>2, <2>3, <2>4 DEF CountStep
<1> QED BY <1>1, <1>2, StepCounts

(* The counter is the number of queued requests, modulo its width.          *)
THEOREM CounterCounts == Spec => []CountIsTotal
<1>1. Init => CountInv
  <2> SUFFICES ASSUME Init PROVE CountInv
    OBVIOUS
  <2>1. Queued = {}
    BY EmptySeq DEF Init, Queued
  <2>2. IsFiniteSet(Queued) /\ Total = 0
    BY <2>1, FS_EmptySet DEF Total
  <2>3. 0 % CountMod = 0
    BY CountAssumption
  <2> QED BY <2>2, <2>3 DEF Init, CountInv, CountIsTotal
<1>2. /\ TypeOK /\ QueueInv /\ (TypeOK /\ QueueInv)'
      /\ CountInv /\ [Next]_sessionVars
      => CountInv'
  BY CountInvStep DEF QueueInv
<1>3. CountInv => CountIsTotal
  BY DEF CountInv
<1> QED BY <1>1, <1>2, <1>3, TypeAndQueueInvariant, PTL DEF Spec

(* Up to the width of the counter the scan timer runs exactly while         *)
(* something is queued.                                                     *)
TimerInv ==
    /\ CountInv
    /\ Total <= MaxQueued
    /\ ScanTimerArmed

(* ScanTimerArmed is a statement about the number of queued requests.       *)
LEMMA ArmedByTotal ==
    ASSUME IsFiniteSet(Queued)
    PROVE  ScanTimerArmed <=> (scan_armed <=> Total # 0)
<1>1. Total = 0 <=> Queued = {}
  BY FS_EmptySet DEF Total
<1> QED BY <1>1 DEF ScanTimerArmed

(* Every handler arms the timer with the first request and disarms it with  *)
(* the last, as long as the counter does not come to 1 or 0 a second time.  *)
LEMMA TimerInvStep ==
    ASSUME MaxQueued <= CountMod, TypeOK, TypeOK', BusyHeadSent, TimerInv,
           [Next]_sessionVars
    PROVE  TimerInv'
<1> DEFINE T == Total
<1>t. T \in Nat /\ CountMod \in Nat /\ CountMod > 1 /\ MaxQueued \in Nat /\ T <= MaxQueued
  BY TotalNat, CountAssumption DEF TimerInv, CountInv
<1>m. \A x \in 0 .. CountMod - 1 : x % CountMod = x
  BY <1>t
<1>z. CountMod % CountMod = 0
  <2>1. 1 \in Int /\ CountMod = CountMod * 1 /\ CountMod \in Int /\ CountMod > 0
    BY <1>t
  <2> QED BY <1>t, <2>1, Divisible
<1>c. mqtt_msg_count = T % CountMod
  BY DEF TimerInv, CountInv, CountIsTotal
<1>w. mqtt_msg_count' = Total' % CountMod
  BY CountInvStep DEF TimerInv, CountInv, CountIsTotal
<1>a. scan_armed <=> T # 0
  BY ArmedByTotal DEF TimerInv, CountInv
<1>n. CountInv'
  BY CountInvStep DEF TimerInv
<1>b. (scan_armed' <=> Total' # 0) => ScanTimerArmed'
  <2>1. IsFiniteSet(Queued')
    BY <1>n DEF CountInv
  <2>2. Total' = 0 <=> Queued' = {}
    BY <2>1, FS_EmptySet DEF Total
  <2> QED BY <2>2 DEF ScanTimerArmed
<1> HIDE DEF T
<1>1. CASE UNCHANGED queueVars
  BY <1>1, <1>n DEF queueVars, TimerInv, ScanTimerArmed, Total, Queued
<1>2. ASSUME NEW c \in Conn, CountStep(c) PROVE TimerInv'
  <2>1. CASE /\ \A d \in Conn : Len(request_list'[d]) = Len(request_list[d])
             /\ UNCHANGED <<mqtt_msg_count, scan_armed>>
    BY <2>1, <1>n, CountSame DEF TimerInv, ScanTimerArmed, Total
  <2>2. ASSUME NEW e \in Entry, Total < MaxQueued, ENQUEUE_IOT_REQUEST(c, e)
        PROVE  TimerInv'
    <3>1. Total' = T + 1
      BY <2>2, CountEnqueue DEF TimerInv, CountInv, T
    <3>2. T < MaxQueued
      BY <2>2 DEF T
    <3>3. mqtt_msg_count' = 1 <=> T = 0
      <4>1. CASE T + 1 < CountMod
        <5>1. T + 1 \in 0 .. CountMod - 1
          BY <1>t, <4>1
        <5> QED BY <1>t, <1>w, <1>m, <3>1, <5>1
      <4>2. CASE T + 1 = CountMod
        BY <1>t, <1>w, <1>z, <3>1, <4>2
      <4> QED BY <1>t, <3>2, <4>1, <4>2
    <3>5. scan_armed' <=> Total' # 0
      <4>1. scan_armed' = (scan_armed \/ mqtt_msg_count' = 1)
        BY <2>2 DEF ENQUEUE_IOT_REQUEST
      <4>2. Total' # 0
        BY <1>t, <3>1
      <4> QED BY <4>1, <4>2, <3>3, <1>a, Zenon
    <3>6. Total' <= MaxQueued
      BY <1>t, <3>1, <3>2
    <3> QED BY <1>n, <1>b, <3>5, <3>6 DEF TimerInv
  <2>3. CASE request_list[c] # <<>> /\ delete_request(c)
    <3>1. Total' = T - 1
      BY <2>3, CountDelete DEF TimerInv, CountInv, T
    <3>2. Total' \in Nat
      BY <1>n, FS_CardinalityType DEF CountInv, Total
    <3>3. T - 1 \in 0 .. CountMod - 1
      BY <1>t, <3>1, <3>2
    <3>4. mqtt_msg_count' = T - 1
      BY <1>w, <1>m, <3>1, <3>3
    <3>5. scan_armed' <=> Total' # 0
      <4>1. scan_armed' = (scan_armed /\ T - 1 # 0)
        BY <2>3, <3>4 DEF delete_request
      <4>2. T # 0 /\ (T - 1 # 0 <=> Total' # 0)
        BY <1>t, <3>1, <3>3
      <4> QED BY <4>1, <4>2, <1>a, Zenon
    <3>6. Total' <= MaxQueued
      BY <1>t, <3>1
    <3> QED BY <1>n, <1>b, <3>5, <3>6 DEF TimerInv
  <2>4. CASE del_node_requests(c)
    <3> DEFINE k == Len(request_list[c])
    <3>1. k \in Nat /\ Total' = T - k
      BY <2>4, CountClear DEF TimerInv, CountInv, T
    <3>2. Total' \in Nat
      BY <1>n, FS_CardinalityType DEF CountInv, Total
    <3>3. scan_armed' = (scan_armed /\ \A j \in 1 .. k : (mqtt_msg_count - j) % CountMod # 0)
      BY <2>4 DEF del_node_requests
    <3> HIDE DEF k
    <3>4. \A j \in 1 .. k : T - j \in 0 .. CountMod - 1
      BY <1>t, <3>1, <3>2
    <3>5. \A j \in 1 .. k : (mqtt_msg_count - j) % CountMod = T - j
      <4> SUFFICES ASSUME NEW j \in 1 .. k
                   PROVE  (mqtt_msg_count - j) % CountMod = T - j
        OBVIOUS
      <4>1. ((T % CountMod) + (0 - j)) % CountMod = (T + (0 - j)) % CountMod
        <5> DEFINE M == CountMod
        <5>1. M \in Nat /\ M > 0 /\ T \in Int /\ 0 - j \in Int
          BY <1>t
        <5> HIDE DEF M
        <5>2. ((T % M) + (0 - j)) % M = (T + (0 - j)) % M
          BY <5>1, WrappedSum
        <5> QED BY <5>2 DEF M
      <4>2. mqtt_msg_count - j = (T % CountMod) + (0 - j) /\ T - j = T + (0 - j)
        BY <1>t, <1>c, <3>1 DEF TypeOK
      <4> QED BY <1>m, <3>4, <4>1, <4>2
    <3>6. scan_armed' <=> Total' # 0
      <4> DEFINE Passed == \A j \in 1 .. k : T - j # 0
      <4>1. scan_armed' = (scan_armed /\ Passed)
        BY <3>3, <3>5
      <4>2. (T # 0 /\ Passed) <=> Total' # 0
        BY <1>t, <3>1, <3>2
      <4> HIDE DEF Passed
      <4> QED BY <4>1, <4>2, <1>a, Zenon
    <3>7. Total' <= MaxQueued
      BY <1>t, <3>1
    <3> QED BY <1>n, <1>b, <3>6, <3>7 DEF TimerInv
  <2> QED BY <1>2, <2>1, <2>2, <2>3, <2>4 DEF CountStep
<1> QED BY <1>1, <1>2, StepCounts

LEMMA TimerInvariant ==
    ASSUME MaxQueued <= CountMod
    PROVE  Spec => []TimerInv
<1>1. Init => TimerInv
  <2> SUFFICES ASSUME Init PROVE TimerInv
    OBVIOUS
  <2>1. Queued = {}
    BY EmptySeq DEF Init, Queued
  <2>2. IsFiniteSet(Queued) /\ Total = 0
    BY <2>1, FS_EmptySet DEF Total
  <2>3. 0 % CountMod = 0 /\ 0 <= MaxQueued
    BY CountAssumption
  <2> QED BY <2>1, <2>2, <2>3 DEF Init, TimerInv, CountInv, CountIsTotal, ScanTimerArmed
<1>2. /\ TypeOK /\ QueueInv /\ (TypeOK /\ QueueInv)'
      /\ TimerInv /\ [Next]_sessionVars
      => TimerInv'
  BY TimerInvStep DEF QueueInv
<1> QED BY <1>1, <1>2, TypeAndQueueInvariant, PTL DEF Spec

(* With no more requests than the counter has values, the timer is never    *)
(* disarmed while a request waits, and never left running without one.      *)
THEOREM TimerFollowsQueue ==
    ASSUME MaxQueued <= CountMod
    PROVE  Spec => []ScanTimerArmed
<1>1. Spec => []TimerInv
  BY TimerInvariant
<1>2. TimerInv => ScanTimerArmed
  BY DEF TimerInv
<1> QED BY <1>1, <1>2, PTL

(* In a LOG_ENABLE build a connected node's request is only deleted after   *)
(* it was sent, whatever the node answers and whenever it does.             *)
THEOREM LogBuildDropsNothingUnsent ==
    ASSUME LogEnable
    PROVE  Spec => NoUnsentDropped
<1>1. TypeOK /\ TypeOK' /\ QueueInv /\ [Next]_sessionVars => UnsentKept
  <2> SUFFICES ASSUME TypeOK, TypeOK', QueueInv, [Next]_sessionVars,
                      NEW d \in nodes \cap nodes',
                      Len(request_list'[d]) < Len(request_list[d])
               PROVE  Head(request_list[d]).status = "SENT"
    BY DEF UnsentKept
  <2>n. Len(request_list[d]) \in Nat /\ d \in Conn
    BY LenProperties DEF TypeOK
  <2>u. ASSUME UNCHANGED request_list PROVE FALSE
    BY <2>u, <2>n
  <2>f. ASSUME NEW c \in Conn, delete_request(c) PROVE c = d
    BY <2>f, <2>n DEF delete_request, TypeOK
  <2>e. ASSUME NEW c \in Conn, NEW e \in Entry, ENQUEUE_IOT_REQUEST(c, e) PROVE FALSE
    <3>1. Len(Append(request_list[c], e)) = Len(request_list[c]) + 1
      BY AppendProperties DEF TypeOK
    <3> QED BY <2>e, <2>n, <3>1 DEF ENQUEUE_IOT_REQUEST, TypeOK
  <2>1. ASSUME NEW c \in Conn, Accept(c) PROVE FALSE
    BY <2>1, <2>u DEF Accept, queueVars
  <2>2. ASSUME NEW c \in Conn, Disconnect(c) PROVE FALSE
    BY <2>2, <2>u DEF Disconnect, queueVars
  <2>3. ASSUME NEW c \in Conn, HelloMsg(c) PROVE Head(request_list[d]).status = "SENT"
    BY <2>3, <2>u, <2>f DEF HelloMsg, AssertFails, AssertsPass, Expected, FinishHead, queueVars
  <2>4. ASSUME NEW c \in Conn, NEW n \in Name \cup {client_name[c]}, CapsMsg(c, n)
        PROVE FALSE
    BY <2>4, <2>u DEF CapsMsg, queueVars
  <2>5. ASSUME NEW c \in Conn, NEW w \in BOOLEAN, GetResp(c, w)
        PROVE Head(request_list[d]).status = "SENT"
    BY <2>5, <2>u, <2>f DEF GetResp, Crash, AssertFails, AssertsPass, Expected, FinishHead, queueVars
  <2>6. ASSUME NEW c \in Conn, NEW w \in BOOLEAN, SetResp(c, w)
        PROVE Head(request_list[d]).status = "SENT"
    BY <2>6, <2>u, <2>f DEF SetResp, Crash, AssertFails, AssertsPass, Expected, FinishHead, queueVars
  <2>7. ASSUME NEW c \in Conn, HelloDead(c) PROVE FALSE
    BY <2>7, <2>u DEF HelloDead, queueVars
  <2>8. ASSUME NEW c \in Conn, HelloTick(c) PROVE FALSE
    BY <2>8, <2>e, EntryTypes DEF HelloTick
  <2>9. ASSUME NEW c \in Conn, NEW r \in Request, WorkEnqueue(c, r) PROVE FALSE
    BY <2>9, <2>e, EntryTypes DEF WorkEnqueue
  <2>10. ASSUME NEW c \in Conn, BusyTimeout(c) PROVE Head(request_list[d]).status = "SENT"
    BY <2>10, <2>f DEF BusyTimeout, FinishHead, QueueInv, BusyHeadSent
  <2>11. ASSUME NEW c \in Conn, SendHead(c) PROVE FALSE
    <3>1. CASE request_list' = [request_list EXCEPT ![c] = MarkSent(@)]
      <4>1. Len(MarkSent(request_list[c])) = Len(request_list[c])
        BY <2>11, SentHead DEF SendHead, TypeOK
      <4> QED BY <3>1, <4>1, <2>n DEF TypeOK
    <3>2. CASE UNCHANGED request_list
      BY <3>2, <2>u
    <3> QED BY <2>11, <3>1, <3>2 DEF SendHead
  <2>12. ASSUME NEW c \in Conn, DelEvent(c) PROVE FALSE
    <3>1. c # d
      BY <2>12 DEF DelEvent
    <3> QED BY <2>12, <3>1, <2>n DEF DelEvent, del_node_requests, TypeOK
  <2>13. ASSUME UNCHANGED sessionVars PROVE FALSE
    BY <2>13, <2>u DEF sessionVars, queueVars
  <2> QED BY <2>1, <2>2, <2>3, <2>4, <2>5, <2>6, <2>7, <2>8, <2>9, <2>10, <2>11,
             <2>12, <2>13 DEF Next
<1>2. TypeOK /\ TypeOK' /\ QueueInv /\ [Next]_sessionVars => [UnsentKept]_sessionVars
  BY <1>1
<1> QED BY <1>2, TypeAndQueueInvariant, PTL DEF Spec, NoUnsentDropped
=============================================================================
