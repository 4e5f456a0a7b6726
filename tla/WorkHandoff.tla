------------------------------ MODULE WorkHandoff ------------------------------
(***************************************************************************)
(* How an MQTT request travels from the mosquitto thread that received it   *)
(* to the main thread: through work_list, guarded by work_list_mutex, and a *)
(* pipe whose bytes wake the main loop up.                                  *)
(*                                                                          *)
(* The bytes are the repeated text "WORK LOAD\0".  The main loop reads at   *)
(* most BUFFSIZ of them and compares what it got with one text, so it only  *)
(* recognises a read that starts where a text starts: exactly when the      *)
(* number of unread bytes is a multiple of the length of the text.          *)
(*                                                                          *)
(* known stands for the names of the nodes in events_list.  It is the main  *)
(* thread that changes them, between two drains; module Gateway substitutes *)
(* the names kept by NodeSession.                                           *)
(***************************************************************************)
EXTENDS Integers, Sequences, SequencesExt

CONSTANTS
    Thread,      \* mosquitto threads, one for each broker connection
    GetReq,      \* MQTT GET requests
    SetReq,      \* MQTT SET requests
    Name,        \* names of IoT nodes
    Target,      \* Target[r] is the node that r names
    MainThread,  \* the thread of the select loop
    NULL,        \* no request, nobody
    SignalLen,   \* strlen("WORK LOAD") + 1, which is 10
    BufSize,     \* BUFFSIZ, which is 256
    MaxSignals   \* signals the pipe holds before write() waits, a bound

Requests == GetReq \cup SetReq

ASSUME PipeAssumption ==
    /\ SignalLen \in Nat /\ SignalLen > 1
    /\ BufSize \in Nat /\ BufSize >= SignalLen - 1
    /\ MaxSignals \in Nat
ASSUME TargetAssumption == Target \in [Requests -> Name]
ASSUME NobodyAssumption ==
    /\ NULL \notin Requests \cup Thread
    /\ MainThread \notin Thread \cup {NULL}

VARIABLES
    work_list,   \* requests on their way to the main thread, head first
    mutex,       \* who holds work_list_mutex, or NULL
    pipe,        \* bytes written to the pipe and not read
    tpc,         \* where each mosquitto thread is in process_mqtt_msg
    treq,        \* the request it is working on
    mpc,         \* where the main thread is: "loop", "lock" or "drain"
    cursor,      \* how many requests the drain has passed over
    node_found,  \* the local variable of that name
    passed       \* history: requests of work_list that a drain went past

threadVars  == <<tpc, treq>>
mainVars    == <<mpc, cursor, node_found, passed>>
handoffVars == <<work_list, mutex, pipe, threadVars, mainVars>>

VARIABLE known   \* names of the connected nodes

Init ==
    /\ work_list = <<>>
    /\ mutex = NULL
    /\ pipe = 0
    /\ tpc = [t \in Thread |-> "idle"]
    /\ treq = [t \in Thread |-> NULL]
    /\ mpc = "loop"
    /\ cursor = 0
    /\ node_found = FALSE
    /\ passed = {}

InHandoff(r) ==
    \/ r \in ToSet(work_list)
    \/ \E t \in Thread : treq[t] = r

-----------------------------------------------------------------------------
(* A mosquitto thread in process_mqtt_msg *)

(* A valid GET or SET message arrives: its request is allocated and filled. *)
Receive(t, r) ==
    /\ tpc[t] = "idle"
    /\ ~InHandoff(r)
    /\ tpc' = [tpc EXCEPT ![t] = "lock"]
    /\ treq' = [treq EXCEPT ![t] = r]
    /\ UNCHANGED <<work_list, mutex, pipe, mainVars>>

(* Mutant: the list is used without waiting for the mutex. *)
ThreadLockAtOnce(t) ==
    /\ tpc[t] = "lock"
    /\ mutex' = t
    /\ tpc' = [tpc EXCEPT ![t] = "add"]
    /\ UNCHANGED <<work_list, pipe, treq, mainVars>>

ThreadLock(t) ==
    /\ tpc[t] = "lock"
    /\ mutex = NULL
    /\ mutex' = t
    /\ tpc' = [tpc EXCEPT ![t] = "add"]
    /\ UNCHANGED <<work_list, pipe, treq, mainVars>>

(* Mutant: no break after the GET case, which runs on into the SET case. *)
ThreadAddTwice(t) ==
    /\ tpc[t] = "add"
    /\ work_list' = (IF treq[t] \in GetReq THEN <<treq[t]>> ELSE <<>>)
                        \o work_list \o <<treq[t]>>
    /\ mutex' = NULL
    /\ tpc' = [tpc EXCEPT ![t] = "signal"]
    /\ treq' = [treq EXCEPT ![t] = NULL]
    /\ UNCHANGED <<pipe, mainVars>>

(* Mutant: a GET is added without writing to the pipe. *)
ThreadAddSilent(t) ==
    /\ tpc[t] = "add"
    /\ work_list' = Append(work_list, treq[t])
    /\ mutex' = NULL
    /\ tpc' = [tpc EXCEPT ![t] = IF treq[t] \in GetReq THEN "idle" ELSE "signal"]
    /\ treq' = [treq EXCEPT ![t] = NULL]
    /\ UNCHANGED <<pipe, mainVars>>

(* A GET is added in front of everything that waits, a SET behind it. *)
ThreadAdd(t) ==
    /\ tpc[t] = "add"
    /\ work_list' = IF treq[t] \in GetReq
                    THEN <<treq[t]>> \o work_list
                    ELSE Append(work_list, treq[t])
    /\ mutex' = NULL
    /\ tpc' = [tpc EXCEPT ![t] = "signal"]
    /\ treq' = [treq EXCEPT ![t] = NULL]
    /\ UNCHANGED <<pipe, mainVars>>

ThreadSignal(t) ==
    /\ tpc[t] = "signal"
    /\ pipe + SignalLen <= MaxSignals * SignalLen
    /\ pipe' = pipe + SignalLen
    /\ tpc' = [tpc EXCEPT ![t] = "idle"]
    /\ UNCHANGED <<work_list, mutex, treq, mainVars>>

ThreadStep(t) == ThreadLock(t) \/ ThreadAdd(t) \/ ThreadSignal(t)

-----------------------------------------------------------------------------
(* The main thread handling MQTT_MSG_EVENT *)

(* Mutant: read() is taken to fill the buffer. *)
BufferFilled == BufSize

BytesRead == IF pipe < BufSize THEN pipe ELSE BufSize

(* Mutant: only a single text is recognised, not several in one read. *)
ReadPipeSingle ==
    /\ mpc = "loop"
    /\ pipe > 0
    /\ pipe' = pipe - BytesRead
    /\ mpc' = IF pipe = SignalLen THEN "lock" ELSE "loop"
    /\ UNCHANGED <<work_list, mutex, threadVars, cursor, node_found, passed>>

(* read() and strcmp(); what does not match is dropped. *)
ReadPipe ==
    /\ mpc = "loop"
    /\ pipe > 0
    /\ pipe' = pipe - BytesRead
    /\ mpc' = IF pipe % SignalLen = 0 THEN "lock" ELSE "loop"
    /\ UNCHANGED <<work_list, mutex, threadVars, cursor, node_found, passed>>

MainLock ==
    /\ mpc = "lock"
    /\ mutex = NULL
    /\ mutex' = MainThread
    /\ mpc' = "drain"
    /\ cursor' = 0
    /\ node_found' = FALSE
    /\ UNCHANGED <<work_list, pipe, threadVars, passed>>

(* The request the loop over work_list is at. *)
DrainMore == mpc = "drain" /\ cursor < Len(work_list)
Drained   == work_list[cursor + 1]

(* Its node is there: the request moves to the node's own list.  node_found *)
(* stays set for the requests that follow.                                  *)
DrainFound(r) ==
    /\ DrainMore
    /\ r = Drained
    /\ Target[r] \in known
    /\ work_list' = RemoveAt(work_list, cursor + 1)
    /\ node_found' = TRUE
    /\ passed' = passed \ {r}
    /\ UNCHANGED <<mutex, pipe, threadVars, mpc, cursor>>

(* No node and node_found is 0: the requester is told IOTNODE_NOT_FOUND.    *)
DrainRefuse(r) ==
    /\ DrainMore
    /\ r = Drained
    /\ Target[r] \notin known
    /\ ~node_found
    /\ work_list' = RemoveAt(work_list, cursor + 1)
    /\ passed' = passed \ {r}
    /\ UNCHANGED <<mutex, pipe, threadVars, mpc, cursor, node_found>>

(* No node, but node_found is still set by an earlier request. *)
DrainPass(r) ==
    /\ DrainMore
    /\ r = Drained
    /\ Target[r] \notin known
    /\ node_found
    /\ cursor' = cursor + 1
    /\ passed' = passed \cup {r}
    /\ UNCHANGED <<work_list, mutex, pipe, threadVars, mpc, node_found>>

MainUnlock ==
    /\ mpc = "drain"
    /\ cursor = Len(work_list)
    /\ mutex' = NULL
    /\ mpc' = "loop"
    /\ cursor' = 0
    /\ node_found' = FALSE
    /\ UNCHANGED <<work_list, pipe, threadVars, passed>>

MainStep ==
    \/ ReadPipe
    \/ MainLock
    \/ \E r \in Requests : DrainFound(r) \/ DrainRefuse(r) \/ DrainPass(r)
    \/ MainUnlock

-----------------------------------------------------------------------------
(* The hand-off on its own: nodes come and go while the main loop is busy    *)
(* with other events, and the main thread gets back to a readable pipe.     *)

HandoffInit == Init /\ known = {}

NodesChange ==
    /\ mpc = "loop"
    /\ known' \in SUBSET Name
    /\ UNCHANGED handoffVars

Step ==
    /\ UNCHANGED known
    /\ \/ \E t \in Thread, r \in Requests : Receive(t, r)
       \/ \E t \in Thread : ThreadStep(t)
       \/ MainStep

Next == NodesChange \/ Step

(* The kernel runs every thread and a contended mutex is granted sooner or   *)
(* later; a full pipe makes write() wait, which is what keeps the threads    *)
(* from holding the main thread off the mutex for ever.                      *)
Fairness ==
    /\ \A t \in Thread : /\ WF_handoffVars(ThreadStep(t))
                         /\ SF_handoffVars(ThreadLock(t))
    /\ WF_handoffVars(MainStep)

HandoffSafety == HandoffInit /\ [][Next]_<<handoffVars, known>>
Spec          == HandoffSafety /\ Fairness

-----------------------------------------------------------------------------
(* Properties *)

(* The types of the variables. *)
TypeOK ==
    /\ work_list \in Seq(Requests)
    /\ mutex \in Thread \cup {MainThread, NULL}
    /\ pipe \in 0 .. MaxSignals * SignalLen
    /\ tpc \in [Thread -> {"idle", "lock", "add", "signal"}]
    /\ treq \in [Thread -> Requests \cup {NULL}]
    /\ mpc \in {"loop", "lock", "drain"}
    /\ cursor \in 0 .. Len(work_list)
    /\ node_found \in BOOLEAN
    /\ passed \in SUBSET Requests
    /\ known \in SUBSET Name

(* The drain walks work_list with a saved next pointer (main.c:754), so no   *)
(* thread may touch the list meanwhile.  What it has gone past and left in   *)
(* the list is exactly the requests whose node was missing: a GET added in   *)
(* front of the list during the drain would break this.                      *)
PassedAreUnknown ==
    mpc = "drain" => \A i \in 1 .. cursor : Target[work_list[i]] \notin known

(* A request is in one place only: with one thread, or once in work_list.    *)
(* Two entries for one request would be freed twice.                         *)
OwnedOnce ==
    /\ \A i, j \in 1 .. Len(work_list) : i # j => work_list[i] # work_list[j]
    /\ \A t \in Thread : treq[t] # NULL => treq[t] \notin ToSet(work_list)
    /\ \A t, u \in Thread : treq[t] # NULL /\ treq[t] = treq[u] => t = u

(* Something will still make the main thread look at r: its adder has yet to *)
(* signal, unread bytes are there and will be recognised, the main thread is *)
(* about to drain, or its drain has yet to reach r.                          *)
WakeupPending(r) ==
    \/ \E t \in Thread : tpc[t] = "signal"
    \/ pipe > 0 /\ pipe % SignalLen = 0
    \/ mpc = "lock"
    \/ mpc = "drain" /\ r \in ToSet(SubSeq(work_list, cursor + 1, Len(work_list)))

(* No wakeup is lost: every queued request that no drain went past has a     *)
(* wakeup on its way (mqttfunc.c:323-325, "Now wite a byte to pipe to signal *)
(* main thread of new work").                                                *)
NoLostWakeup == \A r \in ToSet(work_list) \ passed : WakeupPending(r)

(* A drain ends with an empty work_list: what it cannot give to a node it    *)
(* refuses and deletes (main.c:780-810, and workqueue.c:43-46 "deletes       *)
(* request from shared work queue in case of any error in processing the     *)
(* work").                                                                   *)
NothingPassed == passed = {}

(* A request that a thread has received for a node that stays connected      *)
(* reaches the list of that node.                                            *)
Delivered ==
    \A t \in Thread, r \in Requests :
        treq[t] = r ~> (~InHandoff(r) \/ Target[r] \notin known)
=============================================================================
