# iotManager: models, checks and proofs

TLA+ specifications of the two programs of this repository, TLC runs over small
instances of them, and TLAPS proofs of what matters most for every instance.
`NodeSession`, `WorkHandoff` and `Gateway` model `iotServer`, the gateway between
IoT nodes (TCP) and MQTT brokers. `Scheduler` models `iotScheduler`, which switches
devices off some time after they were switched on, and `BrokerClient` how both programs
connect to their brokers.

All paths below are relative to `src/iotServer/` unless they say otherwise.

## 1. The system

| Component | State it keeps | Operations | Hard behaviours | What makes it correct |
|---|---|---|---|---|
| **Node sessions** (`main.c`, `gw_iotnode_interface.c`, `workqueue.c`, `event.c`) | one `IOT_EVENT` and one `TIMER_EVENT` per connection in `events_list`; `client_name`, `caps_list`, `hello_count`, `work_state`, `request_list`; the shared `mqtt_msg_count` and the work scan timer | accept, HELLO / CAPS / GET_RESP / SET_RESP messages, close, hello timer, queueing, scan (send, 20 s timeout), garbage collection | answers in any state, two requests of a node at once, a counter of 8 bits over all nodes, entries that are marked but still used in the same pass | a BUSY node has a sent head, nothing behind it is on its way, no request outlives its connection, counter and timer agree with the queues |
| **Request hand-off** (`mqttfunc.c`, `workqueue.c`, `main.c`) | `work_list`, `work_list_mutex`, the pipe | `process_mqtt_msg` in one mosquitto thread per broker; read, drain and refuse in the main thread | interleaving of the threads, signals merged by the pipe, a drain that keeps a saved next pointer | one owner per request, no lost wakeup, every request given to its node or refused |
| **Select loop** (`main.c`) | ready descriptors, timers | one pass: gc, select, handlers in list order | handlers that use what an earlier handler of the pass marked; a node that leaves, dies, reconnects, speaks unasked | requests end, answers match, dead nodes go, live nodes stay |
| **Event registry, topology** (`event.c`, `mqttfunc.c:377-425`) | `events_list`, `caps_list` | add, delete; walk by GET_TOPO in a mosquitto thread | the walk takes no lock | no freed entry is read |
| **Broker connections** (`mqttfunc.c`, `main.c` of both programs) | one `mosquitto` handle per broker; `connectionStatus`, `subscribed_topics`, the list of topics | connect, subscribe from the main thread, `onConnect` in the library's thread | the two share list and status without a lock; the sessions are clean, so every reconnection subscribes again | a connection that is up has all its topics |
| **Scheduler tasks** (`src/iotScheduler`) | `task_list`, `event_subsc_list`; id, state and time of each task; `task_list_mutex` | the 1 s pass of `main.c` (fire, rearm or delete); set, get, delete and node events in one mosquitto thread per broker | threads and main loop over the same lists; the mutex is taken for adding and for one kind of deleting only | no task lost, none deleted twice, no OFF too early, no timer left ACTIVE |
| **Scheduler files** (`src/iotScheduler`) | one file per timer, named by its id | save, remove, load at start | a process that stops between two steps; ids given anew by every load | a restart brings back exactly the timers that were set |
| Configuration, JSON, logging, list macros, scripts | - | - | `ASSERT_DEBUG` exits in a `LOG_ENABLE` build | - |

A request travels like this. A mosquitto thread receives an MQTT message
(`process_mqtt_msg`), allocates a `request_node_s`, puts it into `work_list` under the
mutex (GET in front, SET at the end) and writes `"WORK LOAD\0"` to the pipe. The
main thread reads the pipe, drains `work_list` under the mutex, and moves each
request to the `request_list` of the first connection with the wanted
`client_name`, or answers *not found*. Queueing the first request arms the work
scan timer, which expires at once and then every second; each expiry runs
`try_do_some_work`, which writes the head of a FREE node's list to its socket and
makes it BUSY, or gives up the head of a node that has been BUSY for 20 s. The node's
answer is published to the requester and deletes the head. The hello timer of each
connection queues a HELLO every 20 s and counts down; answers reset the count; at
zero the connection is closed.

The threads share `events_list` (no lock), `work_list` (mutex), the pipe and the
configuration. The main thread alone touches sessions, counter and timers.

In the scheduler a mosquitto thread handles every message in two parts: it goes
through `event_subsc_list` and activates the timers that watch the switch that was
switched on (`process_subscriptions`), and then does what the message asks for
(`process_mqtt_msg`). The main loop goes through `task_list` once a second, publishes
the OFF of each task that is due, and then disarms it (ALWAYS) or deletes it with its
file (ONCE).

## 2. Modules

| Module | What it is | Built on |
|---|---|---|
| `NodeSession` | all the connections and every handler of the main thread, in any order and with any input | - |
| `WorkHandoff` | mosquitto threads, `work_list`, mutex, pipe, drain | - |
| `RequestService` | abstract: what a requester is promised | - |
| `Gateway` | select loop, clock, sockets and nodes around the two modules | EXTENDS `NodeSession`, INSTANCE `WorkHandoff`, implements `RequestService` |
| `BrokerClient` | startup, `onConnect` and reconnection, main thread against library threads | - |
| `ListHead` | `list.h`: the pointers of a list, `list_add_tail` in two steps, `list_del` | - |
| `Scheduler` | main loop, mosquitto threads, lists, files, stop and restart | EXTENDS `ListHead` |
| `MC*` | finite values for TLC | |
| `ListsAndCounters` | lemmas about lists without duplicates and counters of a fixed width | - |
| `NodeSessionProofs`, `HandoffProofs`, `BrokerClientProofs` | proofs about one module each | the first two EXTEND `ListsAndCounters` |
| `GatewayProofs`, `GatewayServiceProofs` | proofs about the composition: that it is one; what it does for its clients and nodes | EXTEND `NodeSessionProofs`, and one the other |
| `SchedulerProofs`, `SchedulerListProofs` | proofs about types, times and files; about the lists | the second EXTENDS the first |

### NodeSession

The fields of `iot_data_s` are functions over `Conn`; a connection outside `nodes` has
no entry in `events_list`. Each action is one handler with every call in it:
`HelloMsg`, `CapsMsg`, `GetResp`, `SetResp` are the cases of `process_iot_msg`
(`FinishHead` is the common `delete_request(req); work_state = IOT_NODE_FREE`);
`HelloTick` and `HelloDead` are the two branches of `TIMER_EVENT`; `WorkEnqueue` is
what the drain does to the list of a node; `SendHead` and `BusyTimeout` are
`try_do_some_work` at one connection; `DelEvent` is `del_event` with
`del_node_requests`. `LogEnable` is the build option: with it an `ASSERT_DEBUG` that
fails ends the process (`proc = "exited"`), without it (the default) it is empty, and
the code may run into a list without a head (`proc = "crashed"`). `MCNodeSession` chooses
the build in the initial state and checks both at once. `heap_names`
records that `add_event` leaves `client_name` as `malloc` returned it: no name, or
one that was freed before.

### WorkHandoff

A mosquitto thread is at `idle`, `lock`, `add` or `signal`. The main thread is at
`loop`, `lock` or `drain`, with `cursor` the number of requests it has gone past.
The pipe is a number of bytes: all it ever carries is copies of one text, so `strcmp`
succeeds exactly when the unread bytes start at the start of a text, that is when
their number is a multiple of its length. `node_found` is reset by `MainLock` only, as
in the code. On its own, the module lets nodes come and go between two drains.

### Gateway

`todo` is the set of the ready descriptors that this pass has still to handle. They are
handled in the order of `events_list` (`Before`: entries are added at the front, so for each
connection, newest first, its timer and then its socket; after them the scan timer, the
pipe and the listening socket, which were added first). `Select` fills it, each handler
consumes the event that nothing comes before (`At`), `Gc` runs between passes. Time
passes in ticks of the scan timer, and only while the loop waits in `select`
(`Tick`): handlers are taken to be fast. A node opens a connection and announces itself,
answers what it was sent in order, may report an event (`NOTIF`) or announce itself
again between two ticks, closes its connection, or falls silent (`dead`: no FIN, so
only the hello count can notice). A read takes up to `ReadMax` messages and
processes the first. Every read ends with a message: partial reads are not modelled
(section 5).

### RequestService

A request is idle, accepted or handed over. It is handed over at most once; its
requester may be told *not found* before that, or the answer to this very request
after it; the gateway may drop any requests silently. `Gateway` maps its state to it
by `stage` (is the request anywhere in the gateway, and has it been written to a
live node) and `told`.

### BrokerClient

The main thread takes the brokers in turn (`at`) and for each the topics in turn:
`StartClient` is `mqttClientConnect` with the start of the library's thread, `AddTopic`
and `CheckStatus` are the two halves of `mqttClientSubscribe`, `Subscribe` and
`SubscribeFails` the call of `mosquitto_subscribe` and its `exit(-1)`. `Connected` is
`onConnect` up to its loop, `WalkTopic` and `WalkEnds` the loop, `WalkFails` the
`exit(-1)` in it, `Refused` the other branch. `Lost` is the library noticing that the
connection is gone, which may happen while `onConnect` runs: no callback is
registered for it, so `connectionStatus` stays 1. `subs` is what the broker keeps for
the session, and `lost` records for each connection that it was lost and not made again. The call fails only without a socket; while the library is reconnecting the
subscription gets lost with no error, and `onConnect` repeats it.

### ListHead and Scheduler

A list is a function from places (the list's own head `Root`, and one for each entry) to
two pointers. What `list_del` and `free()` leave in an entry is `Wild`, an address that
faults when it is followed. `list_add_tail` is two steps, because what it reads (the last
entry) and what it writes are apart in time; `list_del` is one.

A `Timer` is one SET request with the `task_s` and the subscription made of it. Each
thread has a place in `onMessage` (`pc`), a message, an iterator (`pos`) and a pointer read in
advance (`saved`, the `tmp` of the `_safe` loops and of `list_add_tail`). The steps are
those between which another thread can do something that matters:

| Code | Steps |
|---|---|
| `process_subscriptions`, `activateSwitchOffTimer` | `Receive`, `WalkPast`, or `Activate`, `Mark`, `Stamp`, `AddInterval` |
| SET: the TIMER_SET_REQ case, `subscribeEvent`, `appendTaskToTaskList`, `saveTimerSetRequest` | `SetSubscribe`, `SetLink`, `SetLock`, `SetAppend`, `SetNumber`, `SetOpen`, `SetWrite` |
| GET: `respond_to_get_request` | `GetStart`, `GetNext`, `GetDone` |
| DELETE: `perform_timer_delete`, `delete_task` | `DelStart`, `DelTask`, `DelRemove`, `DelDone` |
| the main loop | `MainWake`, `MainSkip`, `MainFire`, then `MainRearm` or `MainDelete`, `MainRemove` |
| following a wild pointer | `MainFault`, `ThreadFault` |
| `load_db`, and the end of the process at any step | `Start`, `Stop` |

A freed task keeps its fields, since the allocator overwrites the pointers at most: a
thread that comes past it goes on with them until it follows a pointer. A file is `Torn`
between `fopen` and `fwrite`, and such a file does not parse when it is loaded. `Start` loads the
files in any order, as `readdir` may give them, and numbers the tasks in that order.
`timeval` is the number of seconds left. `++task_count` reads the counter in `SetAppend`
(into `number`) and stores it in `SetNumber`: the mutex is what keeps two threads apart there.
`MainFire` may find `connectionStatus` not 1; `publishMqttMessage` then publishes nothing
and reports success, and the main loop goes on as after an OFF that was sent.

Four history variables serve the properties. `raced`: since the process started, a task was
freed while another message or pass was under way, or a subscription was linked behind one
that was no longer the last. Messages and passes that overlap in other ways do not count.
`aligned`: the last load gave every task the id of its file. `since`: how long a timer has
been ACTIVE. `owed`: "yes" from an ON that a timer has seen until its OFF, "lost" when that
OFF was dropped or the ON forgotten.

## 3. Runs

| Run | Question | Result |
|---|---|---|
| `session` | Do the queues, the counter and the timer stay consistent whatever two nodes send, in both builds? What do the assertions of the `LOG_ENABLE` build add? | `TypeOK BusyHeadSent OnlyHeadSent NoOrphanRequest CountIsTotal ScanTimerArmed` hold in both; with the assertions no answer removes a request that was not sent (`LogBuildKeepsUnsent`) |
| `handoff` | Two threads and the main thread, three requests | `TypeOK PassedAreUnknown OwnedOnce NoLostWakeup` hold, and every request for a connected node is `Delivered` |
| `gateway` | The process, a GET and a SET, a node that comes, answers before the next scan, speaks unasked, closes, dies and returns | `GatewayTypeOK` holds, and the gateway implements `RequestService` (`ServiceKept`) |
| `gateway_live` | Does everything end, with one GET and a node that may take a tick to answer? | `RequestEnds` and `SilentNodeRemoved`; no crash (`NeverCrashes`), only silent nodes are given up (`LiveNodeKept`), and what subscribers believe to be up is connected (`UpIsConnected`) |
| `scheduler` | Two timers for one switch, a ONCE and an ALWAYS, two mosquitto threads, stops and restarts anywhere: what do the lists, ids, files and times keep? | `TypeOK UniqueIds TimersSaved NotEarly` hold in every interleaving; `ListKept` as long as nothing is freed under the hands of another; `FaultOnlyAfterRace`, `NoStrayFile` and `OnIsAnswered` until then (`raced`) |
| `broker` | Two brokers and two topics, connections refused and lost at will | `TypeOK`, no topic is missing from a session (`NoneForgotten`), the exit is in a call for a connection that was up and is lost (`ExitNeedsLoss`), a connection that holds ends up with all topics (`HoldsThenSubscribed`) |
| `handoff_left_behind` | Is every request without a node refused? | No: `NothingPassed` is violated |
| `handoff_misaligned` | Does every signal wake the main thread? | No: `NoLostWakeup` is violated when a read ends inside a text |
| `gateway_late_answer` | Is an answer the answer to the request it is published for? | No: `AnswersMatch` is violated by an answer that comes after the busy timeout |
| `gateway_coalesced` | Is only a silent node given up? | No: `LiveNodeKept` is violated when two messages share a read |
| `scheduler_restart` | Does a deleted timer stay deleted? | No: `DeletedStaysDeleted` is violated after a load in another order |
| `scheduler_delete` | Does a DELETE delete the timer it names, and only that? | No: `OnlyNamedDeleted` is violated by two timers and one request |

### The six disagreements

1. `main.c:753` sets `node_found = 0` once per drain. After a request whose node was
   found, one whose node is missing is neither moved nor refused. Another message must
   come before anybody looks at it again.
2. The signals are 10 bytes and the buffer has 256. When 26 or more are unread (the
   main thread sleeps 10 s at `main.c:550` after the broker threads have started), the
   read ends inside a text, the next one fails `strcmp`, and its signals are gone.
3. Answers carry no request id. One that comes after the 20 s is matched with
   whatever is at the head by then; the assertions that check this are empty in the
   default build. With a HELLO at the head the process crashes.
4. `read()` on a stream returns everything that has arrived; only the first JSON
   text is processed. Enough event reports in the same read as hello answers, and
   the node counts as dead.
5. `load_db` gives the tasks new ids in directory order, and `delete_task` removes the file
   of the new id. When the order is not that of the ids, the file of another timer
   goes: the deleted one is back after the next start, and the other one is not.
6. `perform_timer_delete` ("Search for the timer and delete it", `mqttfunc.c:753` of the
   scheduler) compares each task with the wanted `timerId` for a debug line and then
   deletes it whether it is equal or not: one DELETE leaves no timer.

Each of the first four is the condition under which the corresponding passing run was made:
`handoff` has a buffer that holds all unread signals, `gateway` and `gateway_live` have nodes
that answer before the busy limit and reads that return one message. The negative runs differ in
exactly this. `aligned` is the same for the fifth: `TimersSaved` and `NoStrayFile` are
about a process whose load gave every task the id of its file.

The scheduler does more that its comments do not lead one to expect, all of it in the
model and none of it excluded by a property: an OFF that is due
while `connectionStatus` is not 1 is dropped and reported as sent (the comment at
`src/iotScheduler/src/mqttfunc.c:290-293` says "For now not skipping"); an ON that arrives between the
publication of the OFF and `deActivateSwitchOffTimer` finds the timer ACTIVE, and is then
forgotten; which timers are ACTIVE is not saved, so a restart forgets every pending OFF.
`OnIsAnswered` counts the first two as an end of the ON (`owed` becomes "lost") and exempts the
third by `proc`: what it says is that no timer is left ACTIVE for ever.
`FaultOnlyAfterRace` and the others that mention `raced` say nothing about a process in which a
deletion met another message or pass, or two SETs met at `subscribeEvent`: there the lists
do break, and the model does crash.

### Bounds, and why they are enough

* Two connections share the counter and the timer in the session runs; more would
  only add to the same sum. One name is enough there: names only matter to the drain.
* `CountMod` 3 with `MaxQueued` 3 for the 8-bit counter: the run reaches the wrap, where
  256 requests count as 0 and the timer keeps running, since it is only disarmed by a
  deletion. One request more and `ScanTimerArmed` is false: the 257th brings the counter to
  1, and the next deletion to 0 and disarms the timer with 256 left. TLC finds this
  with `MaxQueued = CountMod + 1`; the proof states the bound, `MaxQueued <= CountMod`.
* `SignalLen` 2 with `BufSize` 6, 4 or 5 stands for 10 and 256: whole texts, or not.
  `MaxSignals` is the capacity of the pipe, at which `write()` blocks.
* 20 s become 3 ticks for the hello period and for the busy limit (`HelloPeriod`,
  `BusyLimit`): enough for scans in between, for the limit to be reached and for three
  hellos to be missed. `HELLO_COUNT_DEFAULT` is the code's 3.
* `MaxDelay` 0 means the node answers before the next tick, 1 lets a tick pass, 3 lets it
  answer at the limit. 2 would be an overload on this scale, where a hello is due every 3
  ticks, and the queue would grow. `MaxInbox` 2 lets an event report and an answer wait
  together.
* One connection and one node in the gateway runs, with reconnection: two at once are
  in `session`. `MaxQueued` is never reached there: deadlock
  is checked, and a handler it held up would stop the loop.
* The `gateway*` runs use the default build, the one that ships.
* `scheduler`: two timers that watch the same switch are the fewest with an order in the
  lists, in the directory and among the ids, and two threads the fewest that overlap with each
  other and the main loop. `Heard` gives the second thread one SET only: that is enough
  for two threads to append, or one to append while the other deletes, walks or reads.
  `MaxId` is the number of timers, so that the bound on `task_count` never holds a thread
  up. `Interval` 1 means that a second must pass between ON and OFF. `scheduler_restart` and
  `scheduler_delete` need one thread, which hears everything.
* `broker`: two connections so that one is up while the next is being made, two topics so
  that one can be subscribed and the other not. More only repeat the same steps.

`CHECK_DEADLOCK FALSE` appears in `session`, where an assertion or a crash ends
the process and the bound on queued requests may leave no handler enabled, and in
`gateway_late_answer`, where the process may crash, and in `broker`, where it may exit.
The scheduler can always be started again.

### Fairness

* The main loop and the threads run (`WF`): they are threads of one process that
  never wait for each other except at the mutex, the pipe and `select`.
* A contended mutex is granted sooner or later (`SF(ThreadLock)`): glibc does not
  promise an order, but a thread is not passed over for ever, and the pipe blocks those
  that would go on overtaking.
* Seconds pass however busy the gateway is (`SF(Tick)`).
* A node that has been asked answers sooner or later, whatever else it sends
  (`SF(Answer)`); after it dies nothing is left to answer.

* Scheduler: the main loop and each thread go on (`WF`), and seconds pass (`SF(Tick)`: a
  thread that stands between `time()` and the addition only delays the clock). Nothing makes
  the process start or stop, and no message has to come. A thread never waits in vain for
  the mutex: who holds it only has files to write, and takes no other lock.
* Brokers: the main thread and the callbacks go on (`WF`). The network owes nothing: the
  connection may be refused or lost for ever, which is why `HoldsThenSubscribed` starts
  from a connection that holds.

### Mutants

Each property of a passing run comes with a mutant of a mapped definition, written
beside it: a plausible slip in the code (a missing reset, the wrong end of a list, a lock
not waited for, an entry not marked) under which TLC finds the property violated.

## 4. Proofs

All of these hold for any numbers of connections, names, requests and threads, any
widths and lengths, and both builds, from the named assumptions on the constants and
those that a theorem states.

**NodeSessionProofs.** `TypeOK` alone is not inductive: `BusyTimeout` takes the tail of
the list of a BUSY node, so its type rests on `BusyHeadSent`, and this on
`OnlyHeadSent` for the requests that move up. The inductive invariant is
`TypeOK /\ QueueInv` with `QueueInv == BusyHeadSent /\ OnlyHeadSent /\
NoOrphanRequest`. `StepWorksOn` reduces the twelve handlers to six effects on the list and
work state of one connection (`ListStep`); `ListOKAppend`, `ListOKTail`, `ListOKSend` say
what each does to one list. From it: `TypeCorrect`, `BusyNodeHasSentHead`,
`OneRequestInFlight`, `NoOrphans`.
`CounterCounts` (`mqtt_msg_count = Total % CountMod`) needs that the places of the
lists are a finite set and that sums may be taken modulo the width at each step
(`WrappedSum` of `ListsAndCounters`). `TimerFollowsQueue` adds `Total <= MaxQueued` to it and assumes
`MaxQueued <= CountMod`: with as many requests as the counter has values it is 0, but only
a deletion that brings it to 0 disarms. `LogBuildDropsNothingUnsent` is an action property that
follows from the queue invariant and the assertions; the run `session` checks the same
action, `UnsentKept`, for the build it has chosen.

**HandoffProofs.** The invariant adds to the checked properties that a thread holds a
request exactly at `lock` and `add` (`HoldsRequest`), and that the mutex belongs to who
is between lock and unlock (`MutexHeld`): this is why no thread can move the list
under the drain. `NeverTwice`, `DrainUndisturbed` and the types follow without
assumptions. `NoWakeupLost` assumes `ReadsWholeTexts`: the unread signals fit into one
buffer, *or* the buffer is a multiple of the text. The second case shows that a
buffer of 250 bytes would remove the second disagreement above without any bound on
the signals.

**GatewayProofs.** `GatewayIsSession` shows that the gateway implements `NodeSession`, with
the added invariant that only well-formed messages travel (`NetTypes`);
`GatewayIsHandoff` that it implements `WorkHandoff`'s safety part with the names of
the connected nodes for `known`, with the invariant that the hand-off is open only
while the pipe is the next event of the pass (`PipeFirst`). The theorems about the parts
hold in the whole: `GatewayBusyHeadSent` and `GatewayTimerFollowsQueue` are drawn from the
first. `GatewayInv` collects these and the types; `GatewayTypeCorrect` follows. That no event
of a pass is about a freed entry comes from `todo \in SUBSET Watched`: only the collector
takes connections out, and it runs when `todo` is empty (`LoopFrame`). That `events_list` has
each connection once is a matter of adding in front and removing (`AddedOnce`,
`RemovedOnce`).

**GatewayServiceProofs.** What the gateway does for its clients and its nodes. The theorems
need to know what nodes do, and say so: a node sends CAPS only when it connects
(`"CAPS" \notin Unasked`), and while it lives it answers in less than the busy limit
(`MaxDelay < BusyLimit`). Without the first, a BUSY node can be set FREE and asked twice;
without the second, answers meet the wrong request (disagreement 3). The number of nodes and
requests is free, and nodes may die, close and come back at any time.

| Theorem | Also assumes | Rests on |
|---|---|---|
| `UpNodesAreConnected` | (only the first assumption) | `Links`, `Events`, `Greetings`, `Up` |
| `GatewayNeverCrashes` | - | `Conversation`, `Labelled` |
| `GatewayAnswersMatch` | - | `Conversation`, `Labelled`, `Told` |
| `GatewayImplementsService` | - | all of `ServiceInv` |
| `GatewayKeepsLiveNodes` | `ReadMax = 1`, `MaxQueued <= CountMod`, `MaxQueued * (MaxDelay + 1) < 3 * HelloPeriod` | `LiveInv`, `TimerInv` |

The argument has four layers.

1. *The greeting.* An unread CAPS is the first message of its connection and is read before
   the gateway has a request for it, because the socket of a connection that has spoken is
   an event of the first pass after `accept` and comes before the drain (`Greetings`). So a
   CAPS never sets a node FREE that was asked something, and it never announces a connection
   that is already marked.
2. *The conversation.* What is on the wire or unread is one request or one answer, it is about
   the head of the list, and the node is BUSY and younger than the limit (`Conversation`).
   Hence every answer is expected: no assertion fails, no head is missing, the requester is
   the right one, and the busy timeout only hits nodes that are gone.
3. *The places of a request.* A request is in one place: with a thread, in `work_list`, or in
   one list of one node (`Hand`, `OneOwner`). `handed` says whether its entry was sent
   (`Counted`), and a FREE node with a sent head has closed its connection (`SentFree`), so
   the second write of such a head reaches nobody. With `stage` as the refinement mapping
   every step is then a step of `RequestService` or leaves its variables alone (`ServiceStep`).
4. *The time of a HELLO.* A live node that was not asked a whole round ago has a HELLO in its
   list that gets there and back in time: `(p - 1) * Slot + Rest(c) < Left(c)`, with `p` its
   place, `Slot` the answer time and a scan for each entry before it, `Rest` what is left of
   the head's slot and `Left` the time until the hello timer gives up (`OnTime`). A tick takes
   one off both sides. The HELLO of a new round goes to the end of a list that is no longer
   than all lists together. `OnTime` by itself is not inductive: it needs that the scan timer
   runs while something is queued (`TimerInv`) and that a live BUSY node owes an answer
   (`LiveBusy`, which is where `ReadMax = 1` comes in).

With the constants of the code, three hello periods are 60 s: if nodes answer within the
second and reads return one message, a live node is kept while fewer than 60 requests are
queued in the whole gateway. Executions that would queue more than `MaxQueued` are not
those of the model. `gateway.cfg` meets all the assumptions, and `OnTime`, `LiveBusy` and
`DueReset` were model-checked on it, and with `MaxDelay` 1 and `HelloPeriod` 4, before they
were proved. `gateway_live` checks `LiveNodeKept` beyond the last one (12 is not less than 9),
where the bound of the theorem is not met and one GET is still harmless.

Two things were changed because of these proofs. `todo` was a sequence made by recursive
operators, and is now the set with the order stated by `Before`. The `CASE` in `stage` had two
guards that overlap, so that TLA+ leaves open which of them counts; TLC takes the first, and
the refinement could not be proved until the guards excluded each other.

**BrokerClientProofs.** `NoneForgotten` says nothing while `onConnect` walks, nor of the
topic that the main thread has listed and not yet looked after. `ClientInv` adds both:
which topics are listed at each place of the main thread (`Listed`), what a walk has
subscribed (`Walks`), and that in a session every listed topic is subscribed or about to be
(`Settled`): the topic is in the list *before* the status is read, and the status is set
*before* the list is walked, so one of the two threads sees it. `ExitIsExcused` needs
`Excused`: where a `connectionStatus` of 1 or a call under way goes with no session, the
connection has been lost since it was made. The theorem leaves open when: a status of 1 may be
older or younger than the loss.

**SchedulerProofs.** What holds whatever the threads do. `SchedulerTypes` needs `Cursors`: where
an iterator may stand at each step, and that no list head ever holds a wild pointer.
`IdsAreUnique` adds that no id is above `task_count`, that a thread between the two steps of
`++task_count` holds its successor (`Numbered`), and that the mutex belongs to who is
between lock and unlock (`Locked`); `OffIsNotEarly` that the
time an ACTIVE timer has been waiting and the time left make up the interval, unless
its time is being set (`Paced`).

`FilesAreKept` (`TimersSaved`) also holds in every interleaving,
with freed tasks on the lists and all. It needs that no pointer leads to a task before its
request is processed (`Reaches`), that one thread works for a request (`Requests`), that a file is
only removed after its task was freed (`Removed`), and that ids are unique.

**SchedulerListProofs.** The lists. The invariant `Orderly` says where every cursor stands
until the first race (`MainStands`, `ThreadsStand`), also beside threads that append, and that
`task_list` is a ring of the tasks that were added. `Joined` alone would
admit a second ring that `Root` is not part of, and a cursor that comes round for ever:
the ids grow along the ring (`Ascending`), where a task that is linked and not numbered yet counts
with the id it is about to get (`Rank`), so no task comes twice and none is followed by itself
(`RingAhead`); appending, numbering and deleting keep that (`DelAscending`, `RankFrame`). A step
of one thread leaves the others where they may stand, as long as it frees nothing and the lists
only grow (`OthersStand`), and a step that frees beside another one sets `raced`. `TasksAreKept`,
`FaultsNeedARace` and `FilesHaveTimers` follow from it.

The parts of these invariants were model-checked on the instance of `scheduler` too.

**Model-checked only.** Liveness (`Delivered`, `RequestEnds`, `SilentNodeRemoved`,
`OnIsAnswered`, `HoldsThenSubscribed`), which needs fairness and `ENABLED`, both out of the
prover's reach. What the six runs that expect a violation check is false of the code;
`NoLostWakeup`, `AnswersMatch` and `LiveNodeKept` are proved under assumptions that these runs
do not meet. The prover cannot cite theorems of an instantiated module, so what
`GatewayServiceProofs` needs of the hand-off (`Hand`) is proved there again for the instance.

## 5. Not modelled, and limits

* Failing system calls (`timerfd_settime`, `malloc`, `write`), SIGPIPE (not ignored
  by the code), a main thread that is slow in a handler, a full `fd_set`.
* Reads that do not end with a message. In the code a message that the network splits, or
  that is longer than `BUFFSIZ` (`main.c:606`), fails to parse (`gw_iotnode_interface.c:192-197`)
  and is dropped, and so is its rest in the next read. In `Gateway` every read takes whole
  messages; of several it drops all but the first, as the code does (disagreement 4).
* The contents of messages beyond their type, name and well-formedness; MQTT quality of
  service; the broker; a `mosquitto_loop_start` that fails, which also exits.
* `LiveNodeKept` holds while few requests are queued. A hello waits behind them, each may
  keep the node BUSY for 20 s, and the hello count goes down meanwhile: with a backlog of slow
  answers a live node can be given up. `GatewayKeepsLiveNodes` says how many are few.
* A connection that is found closed is set FREE before it is collected; a scan later
  in the same pass writes its sent head again, to the closed socket (a `LOG_ENABLE` build
  exits there). In `Gateway` such a write reaches no live node.
* What subscribers were last told about a name (`view`) has one property, `UpIsConnected`,
  for nodes that announce themselves once. A node that
  reconnects before its old connection is noticed is announced up, then down, while it is
  connected; a CAPS handled after the hello timer has marked the connection leaves a
  name up that is gone. No source says which of these a subscriber may rely on.
* The topology queries: the walk of `events_list` and `caps_list` by a mosquitto thread
  (`mqttfunc.c:377`) against `del_event`. The missing lock is named in `event.h:228`.
* The write loop of `sendNodeMessage` and its result in a `char`: `SendHead` marks the
  request whatever `write()` returned, so the properties of `NodeSession` do not depend on it.
* Scheduler: requests that are malformed, timer types whose code is empty, negative
  intervals, failing file operations, a thread that takes more than a second between
  `time()` and the addition of the interval, an allocator that hands a freed task out again while
  somebody still holds it, and the weak memory of real processors (a step is seen by all
  threads at once).
* Brokers: the announcement `GW_COMING_UP`, which `onConnect` may publish before all topics are
  subscribed.
* Configuration and JSON access are straight-line code, logging has no state, scripts are shell.

## 6. Order of work

In this order because the request path is what the gateway is for: `NodeSession` and its
proofs; `WorkHandoff`; `RequestService` and `Gateway`; the proofs that tie them
together; `ListHead` and `Scheduler` with its files; `BrokerClient`; the proofs
about both; the proofs about what the whole gateway does for clients and nodes.

What would come next: the topology walk against `del_event`, with the walk split into steps;
two connections at once in the runs of `Gateway` (the instance with two has more than three
million states; the theorems hold for any number).
