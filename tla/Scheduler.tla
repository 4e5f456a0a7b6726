------------------------------ MODULE Scheduler ------------------------------
(***************************************************************************)
(* iotScheduler: timers that switch a switch off some seconds after it was *)
(* switched on.                                                            *)
(*                                                                         *)
(* One mosquitto thread for each broker connection takes requests to set,  *)
(* read and delete timers, and the news that a switch is on.  The main     *)
(* thread goes through task_list once a second and publishes the OFF of    *)
(* every timer that is due.  They share task_list, event_subsc_list and    *)
(* the tasks in them; the main thread takes no lock.  A timer is also a    *)
(* file, named after its id, and the files are loaded when the process     *)
(* starts.                                                                 *)
(*                                                                         *)
(* A Timer is one SET request of a client, the task_s the process makes of *)
(* it and the subscription of that task.  All are SWITCH_OFF timers: the   *)
(* code for the other two types is empty.  A task that is freed keeps its  *)
(* fields, because free() overwrites the pointers of the list only, and a  *)
(* thread that comes past it goes on with them until it follows a pointer. *)
(***************************************************************************)
EXTENDS ListHead, FiniteSets

CONSTANTS
    Timer,     \* the SET requests of the clients
    Persist,   \* timerPersist of each: "ONCE" or "ALWAYS"
    Switch,    \* Switch[t]: the node and the capability that t watches
    Thread,    \* mosquitto threads, one for each broker connection
    Heard,     \* bound: the messages that each connection brings
    Interval,  \* the time of a timer, in seconds
    None,      \* no timer, no file, nobody
    Torn,      \* a file that fopen() has emptied and fwrite() not yet filled
    MaxId      \* bound: task_count stops here

Switches == {Switch[t] : t \in Timer}
Id == 1..MaxId

ASSUME TimerAssumption ==
    /\ IsFiniteSet(Timer) /\ Elem = Timer
    /\ Persist \in [Timer -> {"ONCE", "ALWAYS"}]
    /\ DOMAIN Switch = Timer
ASSUME NoneAssumption == None \notin Timer \cup Thread \cup {Torn} /\ Torn \notin Timer
ASSUME NumberAssumption == Interval \in Nat \ {0} /\ MaxId \in Nat

VARIABLES
    proc,              \* "up", "down", or "crashed" by a wild pointer
    files,             \* what is in the file of each id
    task_list,         \* the tasks, as list_head pointers
    event_subsc_list,  \* their subscriptions
    heap,              \* "none" before a task is allocated, "live", "freed"
    id, oper_state,    \* the fields of task_s
    timeval,           \* seconds until its timeval, 0 once that has come
    task_count,
    number,            \* each thread: task_count + 1, until ++ has stored it
    task_list_mutex,   \* the thread that holds it, or None
    mainPc, cur, nxt,  \* the main loop: task_node and tmp of its walk
    pc, msg,           \* each thread: its place in onMessage and the message
    pos, saved,        \* its list iterator, and a pointer read in advance
    raced,   \* history: a task was freed while another pass or message was
             \* under way, or a subscription linked behind a stale last one
    aligned, \* history: the last load gave every task the id of its file
    since,   \* history: seconds since the timer became ACTIVE
    owed     \* history: "yes" from an ON that a task has seen to its OFF, "lost"
             \* when that OFF was dropped or the ON forgotten

listVars == <<task_list, event_subsc_list, heap>>
countVars == <<task_count, number>>
fieldVars == <<id, oper_state, timeval, countVars, since, owed>>
mainVars == <<mainPc, cur, nxt>>
threadVars == <<pc, msg, pos, saved>>
vars == <<proc, files, listVars, fieldVars, task_list_mutex, mainVars,
          threadVars, raced, aligned>>

Silence == [type |-> "none", arg |-> None]
Message ==
    {Silence} \cup [type : {"GET"}, arg : {None}]
              \cup [type : {"SET", "DEL"}, arg : Timer]
              \cup [type : {"ON"}, arg : Switches]

\* The timers whose requests are on disk in full.
Saved == {t \in Timer : \E n \in Id : files[n] = t}
-----------------------------------------------------------------------------
(* Start and end of the process                                             *)

Init ==
    /\ proc = "down"
    /\ files = [n \in Id |-> None]
    /\ task_list = EmptyList /\ event_subsc_list = EmptyList
    /\ heap = [t \in Timer |-> "none"]
    /\ id = [t \in Timer |-> 0] /\ task_count = 0
    /\ oper_state = [t \in Timer |-> "INACTIVE"]
    /\ timeval = [t \in Timer |-> 0]
    /\ task_list_mutex = None
    /\ mainPc = "sleep" /\ cur = Root /\ nxt = Root
    /\ pc = [th \in Thread |-> "idle"] /\ msg = [th \in Thread |-> Silence]
    /\ pos = [th \in Thread |-> Root] /\ saved = [th \in Thread |-> Root]
    /\ raced = FALSE /\ aligned = TRUE
    /\ since = [t \in Timer |-> 0] /\ owed = [t \in Timer |-> "no"]
    /\ number = [th \in Thread |-> 0]

\* The orders in which readdir() may list a set of files.
Orders(S) ==
    {o \in [1..Cardinality(S) -> S] : \A n \in S : \E i \in DOMAIN o : o[i] = n}

\* load_db before the threads start: every file that parses becomes a task, in
\* directory order, with the next id; its own name is not looked at.
Load ==
    \E order \in Orders({n \in Id : files[n] \in Timer}) :
        LET loaded == [i \in DOMAIN order |-> files[order[i]]]
        IN  /\ task_list' = ListOf(loaded)
            /\ event_subsc_list' = ListOf(loaded)
            /\ heap' = [t \in Timer |-> IF t \in Saved THEN "live" ELSE "none"]
            /\ id' = [t \in Timer |->
                        IF t \in Saved THEN CHOOSE i \in DOMAIN order : loaded[i] = t
                                       ELSE 0]
            /\ task_count' = Len(loaded)
            /\ aligned' = \A i \in DOMAIN order : order[i] = i

Start ==
    /\ proc # "up" /\ proc' = "up"
    /\ Load
    /\ raced' = FALSE
    /\ UNCHANGED <<files, oper_state, timeval, number, since, owed, task_list_mutex,
                   mainVars, threadVars>>

\* The process is gone, with all of its memory; the files stay.
End(how) ==
    /\ proc = "up" /\ proc' = how
    /\ task_list' = EmptyList /\ event_subsc_list' = EmptyList
    /\ heap' = [t \in Timer |-> "none"]
    /\ id' = [t \in Timer |-> 0] /\ task_count' = 0
    /\ oper_state' = [t \in Timer |-> "INACTIVE"]
    /\ timeval' = [t \in Timer |-> 0]
    /\ task_list_mutex' = None
    /\ mainPc' = "sleep" /\ cur' = Root /\ nxt' = Root
    /\ pc' = [th \in Thread |-> "idle"] /\ msg' = [th \in Thread |-> Silence]
    /\ pos' = [th \in Thread |-> Root] /\ saved' = [th \in Thread |-> Root]
    /\ aligned' = TRUE
    /\ since' = [t \in Timer |-> 0] /\ owed' = [t \in Timer |-> "no"]
    /\ number' = [th \in Thread |-> 0]
    /\ UNCHANGED files

\* The init script or the user stops the process, at any time.
Stop == End("down") /\ raced' = FALSE
-----------------------------------------------------------------------------
(* The main thread                                                          *)

(* Mutant: list_for_each_entry, the next entry is read after the body. *)
AdvanceUnsafe ==
    LET next == task_list[cur].next
    IN  IF next = Root
        THEN mainPc' = "sleep" /\ cur' = Root /\ nxt' = Root
        ELSE mainPc' = "visit" /\ cur' = next /\ nxt' = nxt

(* Mutant: the break leaves the loop, not only the switch. *)
AdvanceOut == mainPc' = "sleep" /\ cur' = Root /\ nxt' = Root

\* To the next entry: task_node = tmp, tmp = tmp->next.
Advance ==
    IF nxt = Root
    THEN mainPc' = "sleep" /\ cur' = Root /\ nxt' = Root
    ELSE /\ mainPc' = "visit" /\ cur' = nxt
         /\ nxt' = IF nxt = Wild THEN Wild ELSE task_list[nxt].next

MainWake ==
    /\ proc = "up" /\ mainPc = "sleep" /\ task_list[Root].next # Root
    /\ mainPc' = "visit"
    /\ cur' = task_list[Root].next /\ nxt' = task_list[cur'].next
    /\ UNCHANGED <<proc, files, listVars, fieldVars, task_list_mutex,
                   threadVars, raced, aligned>>

Visiting == proc = "up" /\ mainPc = "visit" /\ cur # Wild
(* Mutant: the OFF goes out a second before its time. *)
DueSoon(t) == oper_state[t] = "ACTIVE" /\ timeval[t] <= 1

Due(t) == oper_state[t] = "ACTIVE" /\ timeval[t] = 0

MainSkip ==
    /\ Visiting /\ ~Due(cur)
    /\ Advance
    /\ UNCHANGED <<proc, files, listVars, fieldVars, task_list_mutex,
                   threadVars, raced, aligned>>

\* sendMqttSetRequest.  publishMqttMessage hands the OFF to the library only
\* while connectionStatus of local_client is 1, which it is or is not (see
\* BrokerClient), and reports success in any case: what follows is the same,
\* and nobody publishes the OFF again.
MainFire ==
    /\ Visiting /\ Due(cur)
    /\ mainPc' = "fired"
    /\ \E connectionStatus \in {0, 1} :
          owed' = [owed EXCEPT ![cur] = IF connectionStatus = 1 THEN "no" ELSE "lost"]
    /\ UNCHANGED <<proc, files, listVars, id, oper_state, timeval, countVars,
                   since, task_list_mutex, cur, nxt, threadVars, raced, aligned>>

\* deActivateSwitchOffTimer.  An ON that came after the OFF is forgotten.
MainRearm ==
    /\ proc = "up" /\ mainPc = "fired" /\ Persist[cur] = "ALWAYS"
    /\ oper_state' = [oper_state EXCEPT ![cur] = "INACTIVE"]
    /\ since' = [since EXCEPT ![cur] = 0]
    /\ owed' = [owed EXCEPT ![cur] = IF @ = "yes" THEN "lost" ELSE @]
    /\ Advance
    /\ UNCHANGED <<proc, files, listVars, id, timeval, countVars,
                   task_list_mutex, threadVars, raced, aligned>>

\* list_del and delete_task, up to the file.
CanDelete(t) == CanDel(task_list, t) /\ CanDel(event_subsc_list, t)
DeleteTask(t) ==
    /\ task_list' = Del(task_list, t)
    /\ event_subsc_list' = Del(event_subsc_list, t)
    /\ heap' = [heap EXCEPT ![t] = "freed"]
    /\ owed' = [owed EXCEPT ![t] = "no"]   \* it counts for live tasks only

MainDelete ==
    /\ proc = "up" /\ mainPc = "fired" /\ Persist[cur] = "ONCE" /\ CanDelete(cur)
    /\ DeleteTask(cur)
    /\ raced' = (raced \/ \E th \in Thread : pc[th] # "idle")
    /\ mainPc' = "remove"
    /\ UNCHANGED <<proc, files, id, oper_state, timeval, countVars, since,
                   task_list_mutex, cur, nxt, threadVars, aligned>>

(* Mutant: the file of the task stays. *)
RemoveNothing(t) == UNCHANGED files

\* remove() of the file, named by the id that is still in the freed task.
RemoveFile(t) == files' = [files EXCEPT ![id[t]] = None]

MainRemove ==
    /\ proc = "up" /\ mainPc = "remove"
    /\ RemoveFile(cur)
    /\ Advance
    /\ UNCHANGED <<proc, listVars, fieldVars, task_list_mutex,
                   threadVars, raced, aligned>>

MainFault ==
    /\ \/ mainPc = "visit" /\ cur = Wild
       \/ mainPc = "fired" /\ Persist[cur] = "ONCE" /\ ~CanDelete(cur)
    /\ End("crashed")
    /\ UNCHANGED raced

MainStep ==
    MainWake \/ MainSkip \/ MainFire \/ MainRearm \/ MainDelete \/ MainRemove \/ MainFault
-----------------------------------------------------------------------------
(* The mosquitto threads                                                    *)

Goto(th, label, p, q) ==
    /\ pc' = [pc EXCEPT ![th] = label]
    /\ pos' = [pos EXCEPT ![th] = p]
    /\ saved' = [saved EXCEPT ![th] = q]
Step(th, label, p, q) == Goto(th, label, p, q) /\ UNCHANGED msg
Return(th) == Goto(th, "idle", Root, Root) /\ msg' = [msg EXCEPT ![th] = Silence]

At(th, label) == proc = "up" /\ pc[th] = label
Following(list, p) == IF p = Wild THEN Wild ELSE list[p].next

\* A request is new until its process is gone and it has no file: it is one
\* call of calloc, and one task.
Sendable(m) ==
    CASE m.type = "SET" -> /\ heap[m.arg] = "none" /\ m.arg \notin Saved
                           /\ \A th \in Thread : msg[th] # m
      [] m.type = "DEL" -> heap[m.arg] = "live"
      [] OTHER -> TRUE

\* onMessage calls process_subscriptions first, whatever the message is.
Receive(th) ==
    /\ At(th, "idle")
    /\ \E m \in Message :
          m \in Heard[th] \ {Silence} /\ Sendable(m) /\ msg' = [msg EXCEPT ![th] = m]
    /\ Goto(th, "walk", event_subsc_list[Root].next, Root)
    /\ UNCHANGED <<proc, files, listVars, fieldVars, task_list_mutex, mainVars, raced, aligned>>

Matches(th, t) == msg[th].type = "ON" /\ msg[th].arg = Switch[t]
Walking(th) == At(th, "walk") /\ pos[th] \in Timer

\* A subscription that does not match, or whose timer is ACTIVE already.
WalkPast(th) ==
    LET t == pos[th]
    IN  /\ Walking(th)
        /\ Matches(th, t) => oper_state[t] = "ACTIVE"
        /\ owed' = [owed EXCEPT ![t] = IF Matches(th, t) THEN "yes" ELSE @]
        /\ Step(th, "walk", event_subsc_list[t].next, Root)
        /\ UNCHANGED <<proc, files, listVars, id, oper_state, timeval, countVars,
                       since, task_list_mutex, mainVars, raced, aligned>>

\* activateSwitchOffTimer: the test, then the task is marked ACTIVE, then time()
\* stores the present time in it, and then the interval is added.
Activate(th) ==
    /\ Walking(th) /\ Matches(th, pos[th]) /\ oper_state[pos[th]] # "ACTIVE"
    /\ owed' = [owed EXCEPT ![pos[th]] = "yes"]
    /\ Step(th, "mark", pos[th], Root)
    /\ UNCHANGED <<proc, files, listVars, id, oper_state, timeval, countVars, since,
                   task_list_mutex, mainVars, raced, aligned>>

Mark(th) ==
    /\ At(th, "mark")
    /\ oper_state' = [oper_state EXCEPT ![pos[th]] = "ACTIVE"]
    /\ Step(th, "stamp", pos[th], Root)
    /\ UNCHANGED <<proc, files, listVars, id, timeval, countVars, since, owed,
                   task_list_mutex, mainVars, raced, aligned>>

Stamp(th) ==
    /\ At(th, "stamp")
    /\ timeval' = [timeval EXCEPT ![pos[th]] = 0]
    /\ Step(th, "add", pos[th], Root)
    /\ UNCHANGED <<proc, files, listVars, id, oper_state, countVars, since, owed,
                   task_list_mutex, mainVars, raced, aligned>>

AddInterval(th) ==
    /\ At(th, "add")
    /\ timeval' = [timeval EXCEPT ![pos[th]] = @ + Interval]
    /\ Step(th, "walk", event_subsc_list[pos[th]].next, Root)
    /\ UNCHANGED <<proc, files, listVars, id, oper_state, countVars, since, owed,
                   task_list_mutex, mainVars, raced, aligned>>

\* process_mqtt_msg: nothing to do for an event, and the first step of each
\* request.
EventDone(th) ==
    /\ At(th, "walk") /\ pos[th] = Root /\ msg[th].type = "ON"
    /\ Return(th)
    /\ UNCHANGED <<proc, files, listVars, fieldVars, task_list_mutex, mainVars, raced, aligned>>

\* calloc, and subscribeEvent up to where it reads the last subscription.
SetSubscribe(th) ==
    /\ At(th, "walk") /\ pos[th] = Root /\ msg[th].type = "SET"
    /\ heap' = [heap EXCEPT ![msg[th].arg] = "live"]
    /\ Step(th, "link", Root, event_subsc_list[Root].prev)
    /\ UNCHANGED <<proc, files, task_list, event_subsc_list, fieldVars,
                   task_list_mutex, mainVars, raced, aligned>>

SetLink(th) ==
    /\ At(th, "link")
    /\ event_subsc_list' = AddAfter(event_subsc_list, saved[th], msg[th].arg)
    /\ raced' = (raced \/ saved[th] # event_subsc_list[Root].prev)
    /\ Step(th, "lock", Root, Root)
    /\ UNCHANGED <<proc, files, task_list, heap, fieldVars, task_list_mutex,
                   mainVars, aligned>>

(* Mutant: the end of the list is read without waiting for the mutex. *)
SetLockNot(th) ==
    /\ At(th, "lock")
    /\ task_list_mutex' = th
    /\ Step(th, "append", Root, task_list[Root].prev)
    /\ UNCHANGED <<proc, files, listVars, fieldVars, mainVars,
                   raced, aligned>>

\* appendTaskToTaskList, up to where it reads the last task, and the rest.
SetLock(th) ==
    /\ At(th, "lock") /\ task_list_mutex = None
    /\ task_list_mutex' = th
    /\ Step(th, "append", Root, task_list[Root].prev)
    /\ UNCHANGED <<proc, files, listVars, fieldVars, mainVars,
                   raced, aligned>>

(* Mutant: the counter is incremented twice. *)
NewIdTwice == task_count + 2

NewId == task_count + 1

(* Mutant: the mutex protects the list only, and is released before the counter. *)
SetAppendUnlocks(th) ==
    /\ At(th, "append") /\ task_count < MaxId
    /\ task_list' = AddAfter(task_list, saved[th], msg[th].arg)
    /\ number' = [number EXCEPT ![th] = NewId]
    /\ task_list_mutex' = None
    /\ Step(th, "number", Root, Root)
    /\ UNCHANGED <<proc, files, event_subsc_list, heap, id, oper_state, timeval,
                   task_count, since, owed, mainVars, raced, aligned>>

\* list_add_tail, and ++task_count up to where it has read the counter.
SetAppend(th) ==
    /\ At(th, "append") /\ task_count < MaxId
    /\ task_list' = AddAfter(task_list, saved[th], msg[th].arg)
    /\ number' = [number EXCEPT ![th] = NewId]
    /\ Step(th, "number", Root, Root)
    /\ UNCHANGED <<proc, files, event_subsc_list, heap, id, oper_state, timeval,
                   task_count, since, owed, task_list_mutex, mainVars,
                   raced, aligned>>

\* The counter and the id of the task are stored, and the mutex is released.
SetNumber(th) ==
    /\ At(th, "number")
    /\ task_count' = number[th]
    /\ id' = [id EXCEPT ![msg[th].arg] = number[th]]
    /\ number' = [number EXCEPT ![th] = 0]
    /\ task_list_mutex' = None
    /\ Step(th, "open", Root, Root)
    /\ UNCHANGED <<proc, files, listVars, oper_state, timeval, since, owed,
                   mainVars, raced, aligned>>

\* saveTimerSetRequest: fopen(filepath, "w+"), then fwrite and the answer.
SetOpen(th) ==
    /\ At(th, "open")
    /\ files' = [files EXCEPT ![id[msg[th].arg]] = Torn]
    /\ Step(th, "write", Root, Root)
    /\ UNCHANGED <<proc, listVars, fieldVars, task_list_mutex, mainVars, raced, aligned>>

(* Mutant: the file is written under the last id that was given out. *)
SetWriteLast(th) ==
    /\ At(th, "write")
    /\ files' = [files EXCEPT ![task_count] = msg[th].arg]
    /\ Return(th)
    /\ UNCHANGED <<proc, listVars, fieldVars, task_list_mutex, mainVars, raced, aligned>>

SetWrite(th) ==
    /\ At(th, "write")
    /\ files' = [files EXCEPT ![id[msg[th].arg]] = msg[th].arg]
    /\ Return(th)
    /\ UNCHANGED <<proc, listVars, fieldVars, task_list_mutex, mainVars, raced, aligned>>

\* respond_to_get_request reads every task, then answers.
GetStart(th) ==
    /\ At(th, "walk") /\ pos[th] = Root /\ msg[th].type = "GET"
    /\ Step(th, "get", task_list[Root].next, Root)
    /\ UNCHANGED <<proc, files, listVars, fieldVars, task_list_mutex, mainVars, raced, aligned>>

GetNext(th) ==
    /\ At(th, "get") /\ pos[th] \in Timer
    /\ Step(th, "get", task_list[pos[th]].next, Root)
    /\ UNCHANGED <<proc, files, listVars, fieldVars, task_list_mutex, mainVars, raced, aligned>>

GetDone(th) ==
    /\ At(th, "get") /\ pos[th] = Root
    /\ Return(th)
    /\ UNCHANGED <<proc, files, listVars, fieldVars, task_list_mutex, mainVars, raced, aligned>>

\* perform_timer_delete: the id is compared with timerId, and every task is
\* deleted whether it is equal or not.
DelStart(th) ==
    /\ At(th, "walk") /\ pos[th] = Root /\ msg[th].type = "DEL"
    /\ LET first == task_list[Root].next
       IN  Step(th, "del", first, Following(task_list, first))
    /\ UNCHANGED <<proc, files, listVars, fieldVars, task_list_mutex, mainVars, raced, aligned>>

DelTask(th) ==
    /\ At(th, "del") /\ pos[th] \in Timer /\ task_list_mutex = None
    /\ CanDelete(pos[th])
    /\ task_list_mutex' = th
    /\ DeleteTask(pos[th])
    /\ raced' = (raced \/ mainPc # "sleep" \/ \E u \in Thread \ {th} : pc[u] # "idle")
    /\ Step(th, "remove", pos[th], saved[th])
    /\ UNCHANGED <<proc, files, id, oper_state, timeval, countVars, since, mainVars, aligned>>

DelRemove(th) ==
    /\ At(th, "remove")
    /\ RemoveFile(pos[th])
    /\ task_list_mutex' = None
    /\ Step(th, "del", saved[th], Following(task_list, saved[th]))
    /\ UNCHANGED <<proc, listVars, fieldVars, mainVars, raced, aligned>>

DelDone(th) ==
    /\ At(th, "del") /\ pos[th] = Root
    /\ Return(th)
    /\ UNCHANGED <<proc, files, listVars, fieldVars, task_list_mutex, mainVars, raced, aligned>>

ThreadFault(th) ==
    /\ \/ pc[th] \in {"walk", "get", "del"} /\ pos[th] = Wild
       \/ /\ pc[th] = "del" /\ pos[th] \in Timer
          /\ task_list_mutex = None /\ ~CanDelete(pos[th])
    /\ End("crashed")
    /\ UNCHANGED raced

SetStep(th) ==
    \/ SetSubscribe(th) \/ SetLink(th) \/ SetLock(th) \/ SetAppend(th)
    \/ SetNumber(th) \/ SetOpen(th) \/ SetWrite(th)
GetStep(th) == GetStart(th) \/ GetNext(th) \/ GetDone(th)
DelStep(th) == DelStart(th) \/ DelTask(th) \/ DelRemove(th) \/ DelDone(th)
WalkStep(th) ==
    WalkPast(th) \/ Activate(th) \/ Mark(th) \/ Stamp(th) \/ AddInterval(th)
    \/ EventDone(th)
ThreadStep(th) ==
    SetStep(th) \/ GetStep(th) \/ DelStep(th) \/ WalkStep(th) \/ ThreadFault(th)

-----------------------------------------------------------------------------
\* A second passes.  No thread takes that long from time() to the addition.
Tick ==
    /\ proc = "up" /\ \A th \in Thread : pc[th] # "add"
    /\ timeval' = [t \in Timer |-> IF timeval[t] = 0 THEN 0 ELSE timeval[t] - 1]
    /\ since' = [t \in Timer |->
                    IF oper_state[t] = "ACTIVE" /\ since[t] < Interval
                    THEN since[t] + 1 ELSE since[t]]
    /\ UNCHANGED <<proc, files, listVars, id, oper_state, countVars, owed,
                   task_list_mutex, mainVars, threadVars,
                   raced, aligned>>

Next ==
    \/ Start \/ Stop \/ MainStep \/ Tick
    \/ \E th \in Thread : Receive(th) \/ ThreadStep(th)

\* The threads run, and time passes: a thread at its addition only delays Tick.
Fairness ==
    /\ WF_vars(MainStep) /\ SF_vars(Tick)
    /\ \A th \in Thread : WF_vars(ThreadStep(th))

Spec == Init /\ [][Next]_vars /\ Fairness
-----------------------------------------------------------------------------
(* What a task is worth                                                     *)

\* The tasks that have been put into task_list and not freed.
Appending(t) ==
    \E th \in Thread :
        msg[th] = [type |-> "SET", arg |-> t] /\ pc[th] \in {"walk", "link", "lock", "append"}
Listed == {t \in Timer : heap[t] = "live" /\ ~Appending(t)}
\* The tasks whose file is being written, or removed after they were freed.
Saving(t) == \E th \in Thread : msg[th] = [type |-> "SET", arg |-> t]
Removing(t) ==
    \/ mainPc = "remove" /\ cur = t
    \/ \E th \in Thread : pc[th] = "remove" /\ pos[th] = t

TypeOK ==
    /\ proc \in {"up", "down", "crashed"}
    /\ files \in [Id -> Timer \cup {None, Torn}]
    /\ task_list \in Lists /\ event_subsc_list \in Lists
    /\ heap \in [Timer -> {"none", "live", "freed"}]
    /\ id \in [Timer -> 0..MaxId] /\ task_count \in 0..MaxId
    /\ oper_state \in [Timer -> {"INACTIVE", "ACTIVE"}]
    /\ timeval \in [Timer -> Nat] /\ since \in [Timer -> 0..Interval]
    /\ owed \in [Timer -> {"no", "yes", "lost"}]
    /\ number \in [Thread -> 0..MaxId]
    /\ task_list_mutex \in Thread \cup {None}
    /\ mainPc \in {"sleep", "visit", "fired", "remove"}
    /\ cur \in Pointer /\ nxt \in Pointer
    /\ pc \in [Thread -> {"idle", "walk", "mark", "stamp", "add", "link", "lock", "append",
                          "number", "open", "write", "get", "del", "remove"}]
    /\ msg \in [Thread -> Message]
    /\ pos \in [Thread -> Pointer] /\ saved \in [Thread -> Pointer]
    /\ raced \in BOOLEAN /\ aligned \in BOOLEAN

\* task_list_mutex is enough for the tasks that are added: however the threads
\* and the pass interleave, no task is lost from task_list.  Deleting is a
\* different matter, since the main thread takes no lock for it.
ListKept ==
    (~raced \/ \A t \in Timer : heap[t] # "freed") => Joined(task_list, Listed)

\* task_count is only counted under the mutex: however the threads interleave, no
\* two tasks of one run of the process have the same id.
UniqueIds ==
    \A t, u \in Timer : t # u /\ id[t] = id[u] => id[t] = 0

\* Memory is only misused after a task was freed while another message or pass was
\* under way, or two requests were linked at once.  However else they overlap, no
\* list and no iterator leads astray.
FaultOnlyAfterRace == proc = "crashed" => raced

\* A timer has its file from the answer to its request until it is deleted,
\* whatever threads run meanwhile, as long as the load gave every task the id of
\* its file.
TimersSaved ==
    aligned => \A t \in Timer : heap[t] = "live" /\ ~Saving(t) => files[id[t]] = t

\* With the same proviso, and until a task is freed under the hands of another
\* message or pass, a file means that its timer is there: what was deleted has no
\* file to come back from.
NoStrayFile ==
    aligned /\ ~raced /\ proc = "up" =>
        \A n \in Id : LET t == files[n] IN
            t \in Timer => id[t] = n /\ (heap[t] = "live" \/ Removing(t))

\* "Search for the timer and delete it": a request deletes the timer it names and
\* no other.
OnlyNamedDeleted ==
    [][\A th \in Thread, t \in Timer :
          (pc[th] = "del" /\ pc'[th] = "remove" /\ pos[th] = t) => msg[th].arg = t]_vars

\* The OFF is not sent before the time of the timer is over, whatever threads
\* run, except while a thread is between marking the timer ACTIVE and the last
\* line of activateSwitchOffTimer: then the main thread may compare the clock
\* with the time of the last activation, or with none.
Fires(t) == mainPc = "visit" /\ mainPc' = "fired" /\ cur = t
BeingSet(t) == \E th \in Thread : pc[th] \in {"stamp", "add"} /\ pos[th] = t
NotEarly ==
    [][\A t \in Timer : Fires(t) => since[t] >= Interval \/ BeingSet(t)]_vars

\* Every ON that a timer sees comes to its end: the OFF is published, or it is lost
\* in one of two ways, because connectionStatus is not 1 when it is due or because
\* the ON came between the OFF and the deactivation.  That is, a timer is never
\* left ACTIVE for ever, unless it is deleted, the process ends or a task was freed
\* under the hands of another.
OnIsAnswered ==
    \A t \in Timer :
        owed[t] = "yes" ~> owed[t] # "yes" \/ heap[t] # "live" \/ proc # "up" \/ raced

\* A timer that has fired for good or was deleted does not come back.
DeletedStaysDeleted ==
    [][\A t \in Timer : heap[t] = "freed" /\ ~Removing(t) => t \notin Saved']_vars
=============================================================================
