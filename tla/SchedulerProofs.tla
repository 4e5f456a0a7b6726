---------------------------- MODULE SchedulerProofs ----------------------------
(***************************************************************************)
(* The scheduler, for any timers, brokers and interval: its types, the ids *)
(* of the tasks and their files, and the time of the OFF.  These hold      *)
(* whatever the threads do to the lists; SchedulerListProofs is about what *)
(* the lists keep.                                                         *)
(***************************************************************************)
EXTENDS Scheduler, FiniteSetTheorems, TLAPS

(***************************************************************************)
(* Lists whose pointers lead into a set of places                          *)
(***************************************************************************)
Links(K) == [Place -> [next : K, prev : K]]

(* Nothing poisonous is ever in the list_head of a list itself.            *)
Rooted(list) == list[Root].next # Wild /\ list[Root].prev # Wild

LEMMA Elements == Elem = Timer /\ Root \notin Timer /\ Wild \notin Timer /\ Root # Wild
                  /\ Place = Timer \cup {Root} /\ Pointer = Timer \cup {Root, Wild}
BY TimerAssumption, PointerAssumption DEF Place, Pointer

LEMMA EmptyLinks ==
    ASSUME NEW K, Root \in K, Wild \in K
    PROVE  EmptyList \in Links(K) /\ Rooted(EmptyList)
BY Elements DEF EmptyList, Links, Rooted, Loose

LEMMA AddLinks ==
    ASSUME NEW K, Root \in K, NEW list \in Links(K), Rooted(list),
           NEW last \in Place \cap K, NEW x \in Timer \cap K
    PROVE  AddAfter(list, last, x) \in Links(K) /\ Rooted(AddAfter(list, last, x))
<1> USE Elements
<1>1. [next |-> Root, prev |-> last] \in [next : K, prev : K]
  OBVIOUS
<1>2. AddAfter(list, last, x) \in Links(K)
  BY <1>1 DEF AddAfter, Links
<1>3. Rooted(AddAfter(list, last, x))
  BY DEF AddAfter, Links, Rooted
<1> QED BY <1>2, <1>3

LEMMA DelLinks ==
    ASSUME NEW K, Wild \in K, K \subseteq Pointer, NEW list \in Links(K), Rooted(list),
           NEW x \in Timer, CanDel(list, x)
    PROVE  Del(list, x) \in Links(K) /\ Rooted(Del(list, x))
<1> USE Elements
<1>1. list[x].next \in Place /\ list[x].prev \in Place
  BY DEF Links, CanDel
<1>2. Del(list, x) \in Links(K)
  BY <1>1 DEF Del, Links, Loose
<1>3. Rooted(Del(list, x))
  BY <1>1 DEF Del, Links, Rooted, Loose
<1> QED BY <1>2, <1>3

LEMMA ListOfLinks ==
    ASSUME NEW K, Root \in K, Wild \in K, NEW n \in Nat, NEW seq \in [1..n -> Timer \cap K],
           Len(seq) = n
    PROVE  ListOf(seq) \in Links(K) /\ Rooted(ListOf(seq))
<1> DEFINE Ring(i) == IF i \in 1..n THEN seq[i] ELSE Root
<1>1. \A i \in Int : Ring(i) \in K /\ Ring(i) # Wild
  BY Elements
<1>2. ASSUME NEW p \in Place
      PROVE  /\ ListOf(seq)[p] \in [next : K, prev : K]
             /\ p = Root => ListOf(seq)[p].next # Wild /\ ListOf(seq)[p].prev # Wild
  <2>1. CASE p = Root
    BY <2>1, <1>1 DEF ListOf
  <2>2. CASE p # Root /\ \E i \in 1..n : seq[i] = p
    <3> DEFINE i == CHOOSE i \in 1..n : seq[i] = p
    <3>1. i \in 1..n
      BY <2>2
    <3>2. ListOf(seq)[p] = [next |-> Ring(i + 1), prev |-> Ring(i - 1)]
      BY <2>2 DEF ListOf
    <3>3. i + 1 \in Int /\ i - 1 \in Int
      BY <3>1
    <3> HIDE DEF i, Ring
    <3> QED BY <2>2, <3>2, <3>3, <1>1
  <2>3. CASE p # Root /\ ~\E i \in 1..n : seq[i] = p
    BY <2>3 DEF ListOf, Loose
  <2> QED BY <2>1, <2>2, <2>3
<1>3. Root \in Place /\ ListOf(seq) = [p \in Place |-> ListOf(seq)[p]]
  BY Elements DEF ListOf
<1> QED BY <1>2, <1>3 DEF Links, Rooted

(***************************************************************************)
(* Types                                                                   *)
(***************************************************************************)

(* Where a thread stands says what its cursors and its message can be.     *)
Cursors ==
    /\ Rooted(task_list) /\ Rooted(event_subsc_list)
    /\ mainPc = "visit" => cur # Root
    /\ mainPc \in {"fired", "remove"} => cur \in Timer
    /\ \A th \in Thread :
         /\ pc[th] \in {"mark", "stamp", "add", "remove"} => pos[th] \in Timer
         /\ pc[th] \in {"link", "append"} => saved[th] \in Place
         /\ pc[th] = "idle" => msg[th] = Silence
         /\ pc[th] \in {"mark", "stamp", "add"} => msg[th].type = "ON"
         /\ pc[th] \in {"link", "lock", "append", "number", "open", "write"}
              => msg[th].type = "SET"
         /\ pc[th] = "get" => msg[th].type = "GET"
         /\ pc[th] \in {"del", "remove"} => msg[th].type = "DEL"

Typed == TypeOK /\ Cursors

LEMMA ListTypes == Lists = Links(Pointer)
BY DEF Lists, Links

LEMMA AddTyped ==
    ASSUME NEW list \in Lists, Rooted(list), NEW last \in Place, NEW x \in Timer
    PROVE  AddAfter(list, last, x) \in Lists /\ Rooted(AddAfter(list, last, x))
<1>1. Root \in Pointer /\ list \in Links(Pointer) /\ last \in Place \cap Pointer
      /\ x \in Timer \cap Pointer
  BY Elements, ListTypes
<1> QED BY <1>1, AddLinks, ListTypes

(* A message of a type that names a timer names one.                       *)
LEMMA MessageTypes ==
    ASSUME NEW m \in Message
    PROVE  /\ m.type \in {"none", "GET", "SET", "DEL", "ON"}
           /\ m.type \in {"SET", "DEL"} => m.arg \in Timer
           /\ m.type = "SET" => m = [type |-> "SET", arg |-> m.arg]
BY DEF Message, Silence

(* readdir() lists every file once.                                        *)
LEMMA OrderProperties ==
    ASSUME NEW S \in SUBSET Id, NEW order \in Orders(S)
    PROVE  /\ Cardinality(S) \in 0..MaxId
           /\ order \in [1..Cardinality(S) -> S]
           /\ DOMAIN order = 1..Cardinality(S)
           /\ \A n \in S : \E i \in 1..Cardinality(S) : order[i] = n
           /\ \A i, j \in 1..Cardinality(S) : order[i] = order[j] => i = j
<1> DEFINE n == Cardinality(S)
<1>1. IsFiniteSet(S) /\ n \in Nat /\ n <= MaxId
  <2>1. IsFiniteSet(Id) /\ Cardinality(Id) = MaxId
    BY NumberAssumption, FS_Interval DEF Id
  <2>2. IsFiniteSet(S) /\ n <= Cardinality(Id)
    BY <2>1, FS_Subset
  <2>3. n \in Nat
    BY <2>2, FS_CardinalityType
  <2> QED BY <2>1, <2>2, <2>3
<1>2. order \in [1..n -> S] /\ DOMAIN order = 1..n
      /\ \A k \in S : \E i \in 1..n : order[i] = k
  BY DEF Orders
<1>3. order \in Surjection(1..n, S)
  BY <1>2 DEF Surjection
<1>4. IsFiniteSet(1..n) /\ Cardinality(1..n) = n
  BY <1>1, FS_Interval
<1>5. order \in Injection(1..n, S)
  BY <1>3, <1>4, FS_Surjection
<1>6. \A i, j \in 1..n : order[i] = order[j] => i = j
  BY <1>5 DEF Injection, IsInjective
<1> QED BY <1>1, <1>2, <1>6, NumberAssumption

LEMMA InitTyped == Init => Typed
<1> SUFFICES ASSUME Init PROVE Typed
  OBVIOUS
<1> USE DEF Init
<1>1. EmptyList \in Lists /\ Rooted(EmptyList)
  BY EmptyLinks, ListTypes, Elements
<1>2. Silence \in Message
  BY DEF Message
<1>3. TypeOK
  <2>1. cur \in Pointer /\ nxt \in Pointer /\ pos \in [Thread -> Pointer]
        /\ saved \in [Thread -> Pointer]
    BY Elements
  <2>2. id \in [Timer -> 0..MaxId] /\ task_count \in 0..MaxId
        /\ number \in [Thread -> 0..MaxId]
        /\ timeval \in [Timer -> Nat] /\ since \in [Timer -> 0..Interval]
    BY NumberAssumption
  <2> QED BY <1>1, <1>2, <2>1, <2>2 DEF TypeOK
<1>4. Cursors
  BY <1>1 DEF Cursors
<1> QED BY <1>3, <1>4 DEF Typed

(* A load of n files in some order: the i-th becomes the task with id i.   *)
FromDisk(n, order) ==
    LET loaded == [i \in 1..n |-> files[order[i]]]
    IN  /\ \A i, j \in 1..n : order[i] = order[j] => i = j
        /\ loaded \in [1..n -> Timer] /\ Len(loaded) = n
        /\ \A k \in Id : files[k] \in Timer => \E i \in 1..n : order[i] = k
        /\ task_list' = ListOf(loaded) /\ event_subsc_list' = ListOf(loaded)
        /\ heap' = [t \in Timer |-> IF t \in Saved THEN "live" ELSE "none"]
        /\ id' \in [Timer -> 0..MaxId] /\ task_count' = n
        /\ \A t \in Timer : IF t \in Saved THEN id'[t] \in 1..n /\ loaded[id'[t]] = t
                                           ELSE id'[t] = 0
        /\ aligned' = \A i \in 1..n : order[i] = i

LEMMA LoadSpec ==
    ASSUME TypeOK, Load
    PROVE  \E n \in 0..MaxId : \E order \in [1..n -> Id] : FromDisk(n, order)
<1> DEFINE S == {n \in Id : files[n] \in Timer}
<1>1. PICK order \in Orders(S) :
        LET loaded == [i \in DOMAIN order |-> files[order[i]]]
        IN  /\ task_list' = ListOf(loaded)
            /\ event_subsc_list' = ListOf(loaded)
            /\ heap' = [t \in Timer |-> IF t \in Saved THEN "live" ELSE "none"]
            /\ id' = [t \in Timer |->
                        IF t \in Saved THEN CHOOSE i \in DOMAIN order : loaded[i] = t
                                       ELSE 0]
            /\ task_count' = Len(loaded)
            /\ aligned' = \A i \in DOMAIN order : order[i] = i
  BY DEF Load
<1> DEFINE n == Cardinality(S)
           loaded == [i \in 1..n |-> files[order[i]]]
<1>2. /\ n \in 0..MaxId /\ order \in [1..n -> S] /\ DOMAIN order = 1..n
      /\ \A k \in S : \E i \in 1..n : order[i] = k
      /\ \A i, j \in 1..n : order[i] = order[j] => i = j
  <2>1. S \in SUBSET Id
    OBVIOUS
  <2> HIDE DEF S
  <2> QED BY <2>1, OrderProperties
<1>3. n \in Nat
  BY <1>2, NumberAssumption
<1>s. \A k \in Id : files[k] \in Timer <=> k \in S
  OBVIOUS
<1>o. order \in [1..n -> Id]
  BY <1>2
<1> HIDE DEF n, S
<1>4. loaded \in [1..n -> Timer] /\ Len(loaded) = n
  BY <1>2, <1>3, <1>s, <1>o
<1>5. ASSUME NEW t \in Timer
      PROVE  IF t \in Saved THEN id'[t] \in 1..n /\ loaded[id'[t]] = t ELSE id'[t] = 0
  <2>1. CASE t \in Saved
    <3>1. \E i \in 1..n : loaded[i] = t
      BY <1>2, <1>s, <2>1 DEF Saved
    <3>2. id'[t] = CHOOSE i \in 1..n : loaded[i] = t
      BY <1>1, <1>2, <2>1
    <3> QED BY <2>1, <3>1, <3>2
  <2> QED BY <1>1, <2>1
<1>6. id' \in [Timer -> 0..MaxId]
  <2>1. ASSUME NEW t \in Timer PROVE id'[t] \in 0..MaxId
    <3>1. CASE t \in Saved
      <4>1. id'[t] \in 1..n /\ n \in 0..MaxId
        BY <1>2, <1>5, <3>1
      <4> QED BY <4>1, <1>3, NumberAssumption
    <3>2. CASE t \notin Saved
      <4>1. id'[t] = 0
        BY <1>5, <3>2
      <4> QED BY <4>1, NumberAssumption
    <3> QED BY <3>1, <3>2
  <2>2. id' = [t \in Timer |-> id'[t]]
    BY <1>1
  <2> QED BY <2>1, <2>2
<1>7. FromDisk(n, order)
  BY <1>1, <1>2, <1>4, <1>5, <1>6, <1>s DEF FromDisk
<1> QED BY <1>2, <1>o, <1>7

LEMMA LoadTyped ==
    ASSUME TypeOK, Load
    PROVE  /\ task_list' \in Lists /\ Rooted(task_list)'
           /\ event_subsc_list' \in Lists /\ Rooted(event_subsc_list)'
           /\ heap' \in [Timer -> {"none", "live"}]
           /\ id' \in [Timer -> 0..MaxId] /\ task_count' \in 0..MaxId
           /\ aligned' \in BOOLEAN
<1>1. PICK n \in 0..MaxId : \E order \in [1..n -> Id] : FromDisk(n, order)
  BY LoadSpec
<1>2. PICK order \in [1..n -> Id] : FromDisk(n, order)
  BY <1>1
<1> DEFINE loaded == [i \in 1..n |-> files[order[i]]]
<1>3. loaded \in [1..n -> Timer] /\ Len(loaded) = n /\ n \in Nat
  BY <1>2, NumberAssumption DEF FromDisk
<1>4. ListOf(loaded) \in Lists /\ Rooted(ListOf(loaded))
  BY <1>3, ListOfLinks, ListTypes, Elements
<1> QED BY <1>2, <1>4 DEF FromDisk, Rooted

LEMMA StartTyped == Typed /\ Start => Typed'
<1> SUFFICES ASSUME TypeOK, Cursors, Start PROVE Typed'
  BY DEF Typed
<1>1. /\ task_list' \in Lists /\ Rooted(task_list)'
      /\ event_subsc_list' \in Lists /\ Rooted(event_subsc_list)'
      /\ heap' \in [Timer -> {"none", "live"}]
      /\ id' \in [Timer -> 0..MaxId] /\ task_count' \in 0..MaxId
      /\ aligned' \in BOOLEAN
  BY LoadTyped DEF Start
<1>2. /\ proc' = "up" /\ raced' = FALSE
      /\ UNCHANGED <<files, oper_state, timeval, number, since, owed, task_list_mutex,
                     mainPc, cur, nxt, pc, msg, pos, saved>>
  BY DEF Start, mainVars, threadVars
<1>3. TypeOK'
  BY <1>1, <1>2 DEF TypeOK
<1>4. Cursors'
  BY <1>1, <1>2 DEF Cursors
<1> QED BY <1>3, <1>4 DEF Typed

LEMMA EndTyped ==
    ASSUME Typed, NEW how \in {"down", "crashed"}, End(how), raced' \in BOOLEAN
    PROVE  Typed'
<1> USE DEF End
<1>1. EmptyList \in Lists /\ Rooted(EmptyList)
  BY EmptyLinks, ListTypes, Elements
<1>2. Silence \in Message
  BY DEF Message
<1>3. TypeOK'
  <2>1. cur' \in Pointer /\ nxt' \in Pointer /\ pos' \in [Thread -> Pointer]
        /\ saved' \in [Thread -> Pointer]
    BY Elements
  <2>2. id' \in [Timer -> 0..MaxId] /\ task_count' \in 0..MaxId
        /\ number' \in [Thread -> 0..MaxId]
        /\ timeval' \in [Timer -> Nat] /\ since' \in [Timer -> 0..Interval]
    BY NumberAssumption
  <2> QED BY <1>1, <1>2, <2>1, <2>2 DEF TypeOK, Typed
<1>4. Cursors'
  BY <1>1 DEF Cursors, Rooted
<1> QED BY <1>3, <1>4 DEF Typed

(* The main loop goes on, or to sleep.                                     *)
LEMMA AdvanceTyped ==
    ASSUME TypeOK, Advance
    PROVE  /\ mainPc' \in {"sleep", "visit"} /\ cur' \in Pointer /\ nxt' \in Pointer
           /\ mainPc' = "visit" => cur' # Root
<1>1. nxt \in Pointer /\ (nxt # Wild => task_list[nxt].next \in Pointer)
  BY Elements DEF TypeOK, Lists
<1> QED BY <1>1, Elements DEF Advance

LEMMA MainTyped == Typed /\ MainStep => Typed'
<1> SUFFICES ASSUME TypeOK, Cursors, MainStep PROVE Typed'
  BY DEF Typed
<1> USE Elements DEF listVars, fieldVars, countVars, threadVars
<1>1. CASE MainWake
  <2>1. cur' \in Timer /\ nxt' \in Pointer
    BY <1>1 DEF MainWake, TypeOK, Lists, Cursors, Rooted
  <2>2. TypeOK'
    BY <1>1, <2>1 DEF MainWake, TypeOK
  <2>3. Cursors'
    BY <1>1, <2>1 DEF MainWake, Cursors, Rooted
  <2> QED BY <2>2, <2>3 DEF Typed
<1>2. CASE MainSkip
  BY <1>2, AdvanceTyped DEF MainSkip, Typed, TypeOK, Cursors, Rooted
<1>3. CASE MainFire
  BY <1>3 DEF MainFire, Visiting, Typed, TypeOK, Cursors, Rooted
<1>4. CASE MainRearm
  BY <1>4, AdvanceTyped, NumberAssumption DEF MainRearm, Typed, TypeOK, Cursors, Rooted
<1>5. CASE MainDelete
  <2>1. cur \in Timer /\ CanDel(task_list, cur) /\ CanDel(event_subsc_list, cur)
    BY <1>5 DEF MainDelete, CanDelete, Cursors
  <2>2. /\ task_list' \in Lists /\ Rooted(task_list)'
        /\ event_subsc_list' \in Lists /\ Rooted(event_subsc_list)'
    BY <1>5, <2>1, DelLinks, ListTypes DEF MainDelete, DeleteTask, TypeOK, Cursors, Rooted
  <2>3. TypeOK'
    BY <1>5, <2>1, <2>2 DEF MainDelete, DeleteTask, TypeOK
  <2>4. Cursors'
    BY <1>5, <2>1, <2>2 DEF MainDelete, Cursors
  <2> QED BY <2>3, <2>4 DEF Typed
<1>6. CASE MainRemove
  BY <1>6, AdvanceTyped DEF MainRemove, RemoveFile, Typed, TypeOK, Cursors, Rooted
<1>7. CASE MainFault
  BY <1>7, EndTyped DEF MainFault, Typed, TypeOK
<1> QED BY <1>1, <1>2, <1>3, <1>4, <1>5, <1>6, <1>7 DEF MainStep

LEMMA ThreadTyped ==
    ASSUME Typed, NEW th \in Thread, Receive(th) \/ ThreadStep(th)
    PROVE  Typed'
<1> USE Elements DEF Typed, Step, Goto, Return, At, listVars, fieldVars, countVars, mainVars,
       threadVars
<1>s. Silence \in Message
  BY DEF Message
<1>f. \A p \in Pointer : Following(task_list, p) \in Pointer
  BY DEF Following, TypeOK, Lists
<1>1. CASE Receive(th)
  <2>1. event_subsc_list[Root].next \in Pointer
    BY DEF TypeOK, Lists
  <2>2. TypeOK'
    BY <1>1, <2>1 DEF Receive, TypeOK
  <2>3. Cursors'
    BY <1>1 DEF Receive, TypeOK, Cursors, Rooted
  <2> QED BY <2>2, <2>3
<1>2. CASE WalkPast(th)
  <2>1. pos[th] \in Timer /\ event_subsc_list[pos[th]].next \in Pointer
    BY <1>2 DEF WalkPast, Walking, TypeOK, Lists
  <2>2. Matches(th, pos[th]) \in BOOLEAN
    BY DEF Matches
  <2> QED BY <1>2, <2>1, <2>2 DEF WalkPast, Walking, TypeOK, Cursors
<1>3. CASE Activate(th)
  BY <1>3 DEF Activate, Walking, Matches, TypeOK, Cursors
<1>4. CASE Mark(th)
  BY <1>4 DEF Mark, TypeOK, Cursors
<1>5. CASE Stamp(th)
  BY <1>5 DEF Stamp, TypeOK, Cursors
<1>6. CASE AddInterval(th)
  <2>1. pos[th] \in Timer /\ event_subsc_list[pos[th]].next \in Pointer
    BY <1>6 DEF AddInterval, TypeOK, Lists, Cursors
  <2> QED BY <1>6, <2>1, NumberAssumption DEF AddInterval, TypeOK, Cursors
<1>7. CASE EventDone(th)
  BY <1>7, <1>s DEF EventDone, TypeOK, Cursors
<1>8. CASE SetSubscribe(th)
  <2>1. event_subsc_list[Root].prev \in Place
    BY DEF TypeOK, Lists, Cursors, Rooted
  <2>2. TypeOK'
    BY <1>8, <2>1 DEF SetSubscribe, TypeOK
  <2>3. Cursors'
    BY <1>8, <2>1 DEF SetSubscribe, TypeOK, Cursors, Rooted
  <2> QED BY <2>2, <2>3
<1>9. CASE SetLink(th)
  <2>1. msg[th].arg \in Timer /\ saved[th] \in Place
    BY <1>9, MessageTypes DEF SetLink, TypeOK, Cursors
  <2>2. event_subsc_list' \in Lists /\ Rooted(event_subsc_list)'
    <3>1. event_subsc_list' = AddAfter(event_subsc_list, saved[th], msg[th].arg)
      BY <1>9 DEF SetLink
    <3>2. event_subsc_list \in Lists /\ Rooted(event_subsc_list)
      BY DEF TypeOK, Cursors
    <3> QED BY <2>1, <3>1, <3>2, AddTyped DEF Rooted
  <2> QED BY <1>9, <2>1, <2>2 DEF SetLink, TypeOK, Cursors, Rooted
<1>10. CASE SetLock(th)
  <2>1. task_list[Root].prev \in Place
    BY DEF TypeOK, Lists, Cursors, Rooted
  <2> QED BY <1>10, <2>1 DEF SetLock, TypeOK, Cursors
<1>11. CASE SetAppend(th)
  <2>1. msg[th].arg \in Timer /\ saved[th] \in Place
    BY <1>11, MessageTypes DEF SetAppend, TypeOK, Cursors
  <2>2. task_list' \in Lists /\ Rooted(task_list)'
    <3>1. task_list' = AddAfter(task_list, saved[th], msg[th].arg)
      BY <1>11 DEF SetAppend
    <3>2. task_list \in Lists /\ Rooted(task_list)
      BY DEF TypeOK, Cursors
    <3> QED BY <2>1, <3>1, <3>2, AddTyped DEF Rooted
  <2>3. NewId \in 0..MaxId
    BY <1>11, NumberAssumption DEF SetAppend, NewId, TypeOK
  <2> QED BY <1>11, <2>1, <2>2, <2>3 DEF SetAppend, TypeOK, Cursors, Rooted
<1>n. CASE SetNumber(th)
  <2>1. number[th] \in 0..MaxId /\ 0 \in 0..MaxId
    BY NumberAssumption DEF TypeOK
  <2> QED BY <1>n, <2>1 DEF SetNumber, TypeOK, Cursors
<1>12. CASE SetOpen(th)
  BY <1>12 DEF SetOpen, TypeOK, Cursors
<1>13. CASE SetWrite(th)
  <2>1. msg[th].arg \in Timer
    BY <1>13, MessageTypes DEF SetWrite, TypeOK, Cursors
  <2> QED BY <1>13, <1>s, <2>1 DEF SetWrite, TypeOK, Cursors
<1>14. CASE GetStart(th)
  BY <1>14 DEF GetStart, TypeOK, Cursors, Lists
<1>15. CASE GetNext(th)
  BY <1>15 DEF GetNext, TypeOK, Cursors, Lists
<1>16. CASE GetDone(th)
  BY <1>16, <1>s DEF GetDone, TypeOK, Cursors
<1>17. CASE DelStart(th)
  <2>1. task_list[Root].next \in Pointer
    BY DEF TypeOK, Lists
  <2> QED BY <1>17, <1>f, <2>1 DEF DelStart, TypeOK, Cursors
<1>18. CASE DelTask(th)
  <2>1. pos[th] \in Timer /\ CanDel(task_list, pos[th]) /\ CanDel(event_subsc_list, pos[th])
    BY <1>18 DEF DelTask, CanDelete
  <2>2. /\ task_list' \in Lists /\ Rooted(task_list)'
        /\ event_subsc_list' \in Lists /\ Rooted(event_subsc_list)'
    BY <1>18, <2>1, DelLinks, ListTypes DEF DelTask, DeleteTask, TypeOK, Cursors, Rooted
  <2> QED BY <1>18, <2>1, <2>2 DEF DelTask, DeleteTask, TypeOK, Cursors, Rooted
<1>19. CASE DelRemove(th)
  <2>1. saved[th] \in Pointer
    BY DEF TypeOK
  <2> QED BY <1>19, <1>f, <2>1 DEF DelRemove, RemoveFile, TypeOK, Cursors
<1>20. CASE DelDone(th)
  BY <1>20, <1>s DEF DelDone, TypeOK, Cursors
<1>21. CASE ThreadFault(th)
  BY <1>21, EndTyped DEF ThreadFault, TypeOK
<1> QED
  BY <1>1, <1>2, <1>3, <1>4, <1>5, <1>6, <1>7, <1>8, <1>9, <1>10, <1>11, <1>12, <1>13,
     <1>14, <1>15, <1>16, <1>17, <1>18, <1>19, <1>20, <1>21, <1>n
  DEF ThreadStep, SetStep, GetStep, DelStep, WalkStep

LEMMA TickTyped == Typed /\ Tick => Typed'
BY NumberAssumption DEF Typed, TypeOK, Cursors, Tick, Rooted, listVars, countVars, mainVars,
   threadVars

LEMMA StepTyped == Typed /\ [Next]_vars => Typed'
<1>1. Typed /\ Stop => Typed'
  BY EndTyped DEF Stop
<1>2. Typed /\ UNCHANGED vars => Typed'
  BY DEF Typed, TypeOK, Cursors, Rooted, vars, listVars, fieldVars, countVars, mainVars, threadVars
<1> QED BY <1>1, <1>2, StartTyped, MainTyped, ThreadTyped, TickTyped DEF Next

LEMMA TypedInvariant == Spec => []Typed
BY InitTyped, StepTyped, PTL DEF Spec

(* Every reachable state is well typed; in particular no list_head of a list *)
(* itself is ever poisoned, whatever the threads do to each other.           *)
THEOREM SchedulerTypes == Spec => []TypeOK
<1>1. Typed => TypeOK
  BY DEF Typed
<1> QED BY <1>1, TypedInvariant, PTL

(***************************************************************************)
(* The process starts afresh                                               *)
(***************************************************************************)

(* What a process that ended has left: nothing.                            *)
Reset ==
    /\ task_list = EmptyList /\ event_subsc_list = EmptyList
    /\ heap = [t \in Timer |-> "none"] /\ id = [t \in Timer |-> 0]
    /\ task_list_mutex = None
    /\ mainPc = "sleep" /\ cur = Root /\ nxt = Root
    /\ pc = [th \in Thread |-> "idle"] /\ msg = [th \in Thread |-> Silence]
    /\ pos = [th \in Thread |-> Root] /\ saved = [th \in Thread |-> Root]

Afresh == proc # "up" => Reset

(* A step is the start, the end, or a step of the running process.         *)
LEMMA StepKinds ==
    ASSUME [Next]_vars
    PROVE  \/ Start
           \/ Reset' /\ proc' # "up" /\ UNCHANGED files
           \/ proc = "up" /\ proc' = "up" /\ UNCHANGED aligned /\ (raced => raced')
              /\ (MainStep \/ \E th \in Thread : Receive(th) \/ ThreadStep(th))
           \/ UNCHANGED <<proc, files, listVars, id, countVars, oper_state, task_list_mutex,
                          mainVars, threadVars, raced, aligned>>
<1>1. ASSUME NEW how \in {"down", "crashed"}, End(how)
      PROVE  Reset' /\ proc' # "up" /\ UNCHANGED files
  BY <1>1 DEF End, Reset
<1>2. CASE MainStep
  <2>1. CASE MainFault
    BY <1>1, <2>1 DEF MainFault
  <2>2. CASE MainWake
    BY <1>2, <2>2 DEF MainWake
  <2>3. CASE ~MainFault /\ ~MainWake
    BY <1>2, <2>3 DEF MainStep, MainSkip, MainFire, MainRearm, MainDelete, MainRemove, Visiting
  <2> QED BY <2>1, <2>2, <2>3
<1>3. ASSUME NEW th \in Thread, ThreadStep(th)
      PROVE  \/ Reset' /\ proc' # "up" /\ UNCHANGED files
             \/ proc = "up" /\ proc' = "up" /\ UNCHANGED aligned /\ (raced => raced')
  <2>1. CASE ThreadFault(th)
    BY <1>1, <2>1 DEF ThreadFault
  <2>2. CASE ~ThreadFault(th)
    BY <1>3, <2>2 DEF ThreadStep, WalkStep, SetStep, GetStep, DelStep, WalkPast, Activate,
       Mark, Stamp, AddInterval, EventDone, SetSubscribe, SetLink, SetLock, SetAppend, SetNumber,
       SetOpen, SetWrite, GetStart, GetNext, GetDone, DelStart, DelTask, DelRemove, DelDone,
       At, Walking
  <2> QED BY <2>1, <2>2
<1>4. ASSUME NEW th \in Thread, Receive(th)
      PROVE  proc = "up" /\ proc' = "up" /\ UNCHANGED <<raced, aligned>>
  BY <1>4 DEF Receive, At
<1>5. CASE Stop
  BY <1>1, <1>5 DEF Stop
<1> QED BY <1>2, <1>3, <1>4, <1>5 DEF Next, Tick, vars, fieldVars

LEMMA AfreshStep == Afresh /\ [Next]_vars => Afresh'
<1> SUFFICES ASSUME Afresh, [Next]_vars PROVE Afresh'
  OBVIOUS
<1>1. CASE Start
  BY <1>1 DEF Start, Afresh
<1>2. CASE UNCHANGED <<proc, files, listVars, id, countVars, oper_state, task_list_mutex,
                       mainVars, threadVars, raced, aligned>>
  BY <1>2 DEF Afresh, Reset, listVars, mainVars, threadVars
<1> QED BY <1>1, <1>2, StepKinds DEF Afresh

LEMMA AfreshInvariant == Spec => []Afresh
<1>1. Init => Afresh
  BY DEF Init, Afresh, Reset
<1> QED BY <1>1, AfreshStep, PTL DEF Spec

(***************************************************************************)
(* Ids                                                                     *)
(***************************************************************************)

(* The mutex is held from the end of the list to the counter, and while a   *)
(* task is deleted.                                                        *)
Locked ==
    \A th \in Thread : pc[th] \in {"append", "number", "remove"} => task_list_mutex = th

(* Ids are given out in ascending order, and the counter that a thread has   *)
(* read is still the counter when the thread stores it.                     *)
Numbered ==
    /\ UniqueIds /\ \A t \in Timer : id[t] <= task_count
    /\ \A th \in Thread : pc[th] = "number" => number[th] = task_count + 1

(* What takes the mutex and gives it back.                                 *)
LEMMA LockFrame ==
    ASSUME Typed, [Next]_vars
    PROVE  \/ Start
           \/ Reset'
           \/ \E th \in Thread : \/ SetLock(th) \/ SetAppend(th) \/ SetNumber(th)
                                 \/ DelTask(th) \/ DelRemove(th)
           \/ /\ UNCHANGED <<task_list_mutex, number>>
              /\ \A u \in Thread : pc'[u] \in {"append", "number", "remove"} => pc'[u] = pc[u]
<1> USE DEF fieldVars, countVars, threadVars
<1>1. MainStep => Reset' \/ UNCHANGED <<task_list_mutex, number, pc>>
  BY DEF MainStep, MainWake, MainSkip, MainFire, MainRearm, MainDelete, MainRemove,
     MainFault, End, Reset
<1>2. ASSUME NEW th \in Thread, Receive(th) \/ ThreadStep(th)
      PROVE  \/ SetLock(th) \/ SetAppend(th) \/ SetNumber(th) \/ DelTask(th) \/ DelRemove(th)
             \/ Reset'
             \/ /\ UNCHANGED <<task_list_mutex, number>>
                /\ \E l : l \notin {"append", "number", "remove"} /\ pc' = [pc EXCEPT ![th] = l]
  BY <1>2 DEF Receive, ThreadStep, WalkStep, SetStep, GetStep, DelStep, WalkPast, Activate,
     Mark, Stamp, AddInterval, EventDone, SetSubscribe, SetLink, SetOpen, SetWrite, GetStart,
     GetNext, GetDone, DelStart, DelDone, ThreadFault, End, Reset, Step, Return, Goto
<1>3. DOMAIN pc = Thread
  BY DEF Typed, TypeOK
<1> QED BY <1>1, <1>2, <1>3 DEF Next, Stop, End, Reset, Tick, vars

LEMMA LockedStep == Typed /\ Afresh /\ Locked /\ [Next]_vars => Locked'
<1> SUFFICES ASSUME Typed, Afresh, Locked, [Next]_vars PROVE Locked'
  OBVIOUS
<1>d. DOMAIN pc = Thread /\ None \notin Thread
  BY NoneAssumption DEF Typed, TypeOK
<1>1. CASE Start
  BY <1>1 DEF Start, Afresh, Reset, Locked, threadVars
<1>2. CASE Reset'
  BY <1>2 DEF Reset, Locked
<1>3. ASSUME NEW th \in Thread,
             SetLock(th) \/ SetAppend(th) \/ SetNumber(th) \/ DelTask(th) \/ DelRemove(th)
      PROVE  Locked'
  <2>1. \/ task_list_mutex = None
        \/ pc[th] \in {"append", "number", "remove"} /\ task_list_mutex = th
    BY <1>3 DEF SetLock, SetAppend, SetNumber, DelTask, DelRemove, At, Locked
  <2>2. \A u \in Thread \ {th} : pc[u] \notin {"append", "number", "remove"}
    BY <1>d, <2>1 DEF Locked
  <2>3. \E l : pc' = [pc EXCEPT ![th] = l]
    BY <1>3 DEF SetLock, SetAppend, SetNumber, DelTask, DelRemove, Step, Goto
  <2>4. pc'[th] \in {"append", "number", "remove"} => task_list_mutex' = th
    <3>1. CASE SetAppend(th)
      BY <3>1 DEF SetAppend, At, Locked
    <3>2. CASE ~SetAppend(th)
      BY <1>3, <1>d, <3>2 DEF SetLock, SetNumber, DelTask, DelRemove, Step, Goto
    <3> QED BY <3>1, <3>2
  <2> QED BY <1>d, <2>2, <2>3, <2>4 DEF Locked
<1>4. CASE /\ UNCHANGED <<task_list_mutex, number>>
           /\ \A u \in Thread : pc'[u] \in {"append", "number", "remove"} => pc'[u] = pc[u]
  BY <1>4 DEF Locked
<1> QED BY <1>1, <1>2, <1>3, <1>4, LockFrame

LEMMA LockedInvariant == Spec => []Locked
<1>1. Init => Locked
  BY DEF Init, Locked
<1> QED BY <1>1, LockedStep, TypedInvariant, AfreshInvariant, PTL DEF Spec

(* Where ids come from.                                                    *)
LEMMA IdFrame ==
    ASSUME [Next]_vars
    PROVE  \/ Start
           \/ id' = [t \in Timer |-> 0] /\ task_count' = 0 /\ proc' # "up"
           \/ \E th \in Thread : SetNumber(th)
           \/ UNCHANGED <<id, task_count>>
<1> USE DEF fieldVars, countVars
<1>1. MainStep => (id' = [t \in Timer |-> 0] /\ task_count' = 0 /\ proc' # "up")
                  \/ UNCHANGED <<id, task_count>>
  BY DEF MainStep, MainWake, MainSkip, MainFire, MainRearm, MainDelete, MainRemove,
     MainFault, End
<1>2. ASSUME NEW th \in Thread, Receive(th) \/ ThreadStep(th)
      PROVE  SetNumber(th) \/ (id' = [t \in Timer |-> 0] /\ task_count' = 0 /\ proc' # "up")
             \/ UNCHANGED <<id, task_count>>
  BY <1>2 DEF Receive, ThreadStep, WalkStep, SetStep, GetStep, DelStep, WalkPast, Activate,
     Mark, Stamp, AddInterval, EventDone, SetSubscribe, SetLink, SetLock, SetAppend, SetOpen,
     SetWrite, GetStart, GetNext, GetDone, DelStart, DelTask, DelRemove, DelDone,
     ThreadFault, End
<1> QED BY <1>1, <1>2 DEF Next, Stop, End, Tick, vars

LEMMA NumberedStep == Typed /\ Afresh /\ Locked /\ Numbered /\ [Next]_vars => Numbered'
<1> SUFFICES ASSUME Typed, Afresh, Locked, Numbered, [Next]_vars PROVE Numbered'
  OBVIOUS
<1>d. DOMAIN pc = Thread /\ DOMAIN number = Thread /\ task_count \in Nat /\ id \in [Timer -> Nat]
  BY NumberAssumption DEF Typed, TypeOK
<1>1. CASE Start
  <2>1. PICK n \in 0..MaxId : \E order \in [1..n -> Id] : FromDisk(n, order)
    BY <1>1, LoadSpec DEF Start, Typed
  <2>2. PICK order \in [1..n -> Id] : FromDisk(n, order)
    BY <2>1
  <2>3. \A t \in Timer :
           IF t \in Saved THEN id'[t] \in 1..n /\ files[order[id'[t]]] = t ELSE id'[t] = 0
    BY <2>2 DEF FromDisk
  <2>4. \A th \in Thread : pc'[th] = "idle"
    BY <1>1 DEF Start, Afresh, Reset, threadVars
  <2> QED BY <2>2, <2>3, <2>4, NumberAssumption DEF FromDisk, Numbered, UniqueIds
<1>2. CASE Reset' /\ task_count' = 0
  BY <1>2 DEF Reset, Numbered, UniqueIds
<1>3. ASSUME NEW th \in Thread, SetNumber(th) PROVE Numbered'
  <2>1. /\ task_count' = task_count + 1 /\ id' = [id EXCEPT ![msg[th].arg] = task_count + 1]
        /\ pc' = [pc EXCEPT ![th] = "open"] /\ task_list_mutex = th
    BY <1>3 DEF SetNumber, At, Step, Goto, Numbered, Locked
  <2>2. \A u \in Thread : pc'[u] # "number"
    BY <1>d, <2>1 DEF Locked
  <2> QED BY <1>d, <2>1, <2>2 DEF Numbered, UniqueIds
<1>4. ASSUME NEW th \in Thread, SetAppend(th) PROVE Numbered'
  <2>1. /\ UNCHANGED <<id, task_count>> /\ pc' = [pc EXCEPT ![th] = "number"]
        /\ number' = [number EXCEPT ![th] = task_count + 1]
    BY <1>4 DEF SetAppend, NewId, Step, Goto
  <2> QED BY <1>d, <2>1 DEF Numbered, UniqueIds
<1>5. CASE UNCHANGED <<id, task_count>> /\ ~\E th \in Thread : SetAppend(th)
  <2>1. CASE UNCHANGED number
    <3>1. \A u \in Thread : pc'[u] = "number" => pc[u] = "number"
      <4>1. ASSUME NEW th \in Thread, SetLock(th) \/ DelTask(th) \/ DelRemove(th)
            PROVE  \A u \in Thread : pc'[u] = "number" => pc[u] = "number"
        BY <1>d, <4>1 DEF SetLock, DelTask, DelRemove, Step, Goto
      <4>2. ASSUME NEW th \in Thread, SetNumber(th)
            PROVE  \A u \in Thread : pc'[u] = "number" => pc[u] = "number"
        BY <1>d, <4>2 DEF SetNumber, Step, Goto
      <4> QED BY <1>5, <4>1, <4>2, LockFrame DEF Start, Reset, threadVars
    <3> QED BY <1>5, <2>1, <3>1 DEF Numbered, UniqueIds
  <2>2. CASE ~UNCHANGED number
    <3>1. CASE Reset'
      BY <1>5, <3>1 DEF Reset, Numbered, UniqueIds
    <3>2. ~Start /\ ~\E th \in Thread : SetLock(th) \/ DelTask(th) \/ DelRemove(th)
      BY <2>2 DEF Start, SetLock, DelTask, DelRemove, fieldVars, countVars
    <3> QED BY <1>3, <1>5, <2>2, <3>1, <3>2, LockFrame
  <2> QED BY <2>1, <2>2
<1>6. CASE id' = [t \in Timer |-> 0] /\ task_count' = 0 /\ proc' # "up"
  <2>1. CASE Reset'
    BY <1>2, <1>6, <2>1
  <2>2. Reset' \/ UNCHANGED <<proc, countVars, pc>>
    BY <1>6, StepKinds DEF Start, threadVars
  <2>3. CASE UNCHANGED <<proc, countVars, pc>>
    BY <1>6, <2>3 DEF Numbered, UniqueIds, countVars
  <2> QED BY <2>1, <2>2, <2>3
<1> QED BY <1>1, <1>3, <1>4, <1>5, <1>6, IdFrame

LEMMA NumberedInvariant == Spec => []Numbered
<1>1. Init => Numbered
  BY DEF Init, Numbered, UniqueIds
<1> QED BY <1>1, NumberedStep, TypedInvariant, AfreshInvariant, LockedInvariant, PTL DEF Spec

(* However requests from several brokers interleave, appendTaskToTaskList   *)
(* gives no id twice, although ++ reads the counter in one step and stores it *)
(* in another: task_list_mutex is held over both.                           *)
THEOREM IdsAreUnique == Spec => []UniqueIds
<1>1. Numbered => UniqueIds
  BY DEF Numbered
<1> QED BY <1>1, NumberedInvariant, PTL

(***************************************************************************)
(* The time of the OFF                                                     *)
(***************************************************************************)

(* An ACTIVE timer has its interval behind it or in front of it, unless a   *)
(* thread has yet to set the time.                                          *)
Paced ==
    \A t \in Timer :
        oper_state[t] = "ACTIVE" => since[t] + timeval[t] >= Interval \/ BeingSet(t)

(* What changes the state and the time of a timer.                         *)
LEMMA TimeFrame ==
    ASSUME Typed, [Next]_vars
    PROVE  \/ \E th \in Thread : Mark(th) \/ Stamp(th) \/ AddInterval(th)
           \/ MainRearm \/ Tick
           \/ oper_state' = [t \in Timer |-> "INACTIVE"]
           \/ /\ UNCHANGED <<oper_state, since, timeval>>
              /\ \A u \in Thread :
                    pc[u] \in {"stamp", "add"} => pc'[u] = pc[u] /\ pos'[u] = pos[u]
<1> USE DEF fieldVars, countVars, threadVars
<1>1. MainStep => \/ MainRearm \/ oper_state' = [t \in Timer |-> "INACTIVE"]
                  \/ UNCHANGED <<oper_state, since, timeval, pc, pos>>
  BY DEF MainStep, MainWake, MainSkip, MainFire, MainDelete, MainRemove, MainFault, End
<1>2. ASSUME NEW th \in Thread, Receive(th) \/ ThreadStep(th)
      PROVE  \/ Mark(th) \/ Stamp(th) \/ AddInterval(th)
             \/ oper_state' = [t \in Timer |-> "INACTIVE"]
             \/ /\ UNCHANGED <<oper_state, since, timeval>>
                /\ pc[th] \notin {"stamp", "add"}
                /\ \E l, p : pc' = [pc EXCEPT ![th] = l] /\ pos' = [pos EXCEPT ![th] = p]
  BY <1>2 DEF Receive, ThreadStep, WalkStep, SetStep, GetStep, DelStep, WalkPast, Activate,
     EventDone, SetSubscribe, SetLink, SetLock, SetAppend, SetNumber, SetOpen,
     SetWrite, GetStart, GetNext, GetDone, DelStart, DelTask, DelRemove, DelDone,
     ThreadFault, End, Walking, At, Step, Return, Goto
<1>3. DOMAIN pc = Thread /\ DOMAIN pos = Thread
  BY DEF Typed, TypeOK
<1>4. ASSUME NEW th \in Thread, pc[th] \notin {"stamp", "add"}, NEW l, NEW p,
             pc' = [pc EXCEPT ![th] = l], pos' = [pos EXCEPT ![th] = p], NEW u \in Thread,
             pc[u] \in {"stamp", "add"}
      PROVE  pc'[u] = pc[u] /\ pos'[u] = pos[u]
  BY <1>3, <1>4
<1> QED BY <1>1, <1>2, <1>4 DEF Next, Stop, End, Start, vars

LEMMA PacedStep == Typed /\ Paced /\ [Next]_vars => Paced'
<1> SUFFICES ASSUME Typed, Paced, [Next]_vars, NEW t \in Timer, oper_state'[t] = "ACTIVE"
             PROVE  since'[t] + timeval'[t] >= Interval \/ BeingSet(t)'
  BY DEF Paced
<1>t. /\ DOMAIN oper_state = Timer /\ DOMAIN pc = Thread /\ DOMAIN pos = Thread
      /\ since \in [Timer -> Nat] /\ timeval \in [Timer -> Nat] /\ Interval \in Nat
  BY NumberAssumption DEF Typed, TypeOK
<1>p. oper_state[t] = "ACTIVE" => since[t] + timeval[t] >= Interval \/ BeingSet(t)
  BY DEF Paced
<1> USE DEF BeingSet, fieldVars, At, Step, Goto
<1>1. ASSUME NEW th \in Thread, Mark(th) PROVE since'[t] + timeval'[t] >= Interval \/ BeingSet(t)'
  BY <1>t, <1>p, <1>1 DEF Mark
<1>2. ASSUME NEW th \in Thread, Stamp(th) PROVE since'[t] + timeval'[t] >= Interval \/ BeingSet(t)'
  BY <1>t, <1>p, <1>2 DEF Stamp
<1>3. ASSUME NEW th \in Thread, AddInterval(th)
      PROVE  since'[t] + timeval'[t] >= Interval \/ BeingSet(t)'
  <2>1. CASE pos[th] = t
    BY <1>t, <1>3, <2>1 DEF AddInterval
  <2>2. CASE pos[th] # t
    BY <1>t, <1>p, <1>3, <2>2 DEF AddInterval
  <2> QED BY <2>1, <2>2
<1>4. CASE MainRearm
  BY <1>t, <1>p, <1>4 DEF MainRearm, threadVars
<1>5. CASE Tick
  <2>1. oper_state[t] = "ACTIVE" /\ (BeingSet(t)' <=> BeingSet(t))
    BY <1>5 DEF Tick, threadVars
  <2>2. /\ since[t] \in 0..Interval /\ timeval[t] \in Nat
        /\ since'[t] = IF since[t] < Interval THEN since[t] + 1 ELSE since[t]
        /\ timeval'[t] = IF timeval[t] = 0 THEN 0 ELSE timeval[t] - 1
    BY <1>5, <2>1 DEF Tick, Typed, TypeOK
  <2>3. since[t] + timeval[t] >= Interval => since'[t] + timeval'[t] >= Interval
    BY <1>t, <2>2
  <2> QED BY <1>p, <2>1, <2>3
<1>6. CASE oper_state' = [u \in Timer |-> "INACTIVE"]
  BY <1>6
<1>7. CASE /\ UNCHANGED <<oper_state, since, timeval>>
           /\ \A u \in Thread :
                 pc[u] \in {"stamp", "add"} => pc'[u] = pc[u] /\ pos'[u] = pos[u]
  BY <1>p, <1>7
<1> QED BY <1>1, <1>2, <1>3, <1>4, <1>5, <1>6, <1>7, TimeFrame

LEMMA PacedInvariant == Spec => []Paced
<1>1. Init => Paced
  BY DEF Init, Paced
<1> QED BY <1>1, PacedStep, TypedInvariant, PTL DEF Spec

(* The main thread fires at MainFire only, for a timer that is due.         *)
LEMMA FiresWhenDue ==
    ASSUME Typed, [Next]_vars, NEW t \in Timer, Fires(t)
    PROVE  oper_state[t] = "ACTIVE" /\ timeval[t] = 0
<1> USE DEF Fires
<1>1. CASE MainStep
  BY <1>1 DEF MainStep, MainWake, MainSkip, MainFire, MainRearm, MainDelete, MainRemove,
     MainFault, End, Advance, Due
<1>2. ASSUME NEW th \in Thread, Receive(th) \/ ThreadStep(th) PROVE mainPc' # "fired"
  BY <1>2 DEF Receive, ThreadStep, WalkStep, SetStep, GetStep, DelStep, WalkPast, Activate,
     Mark, Stamp, AddInterval, EventDone, SetSubscribe, SetLink, SetLock, SetAppend, SetNumber,
     SetOpen, SetWrite, GetStart, GetNext, GetDone, DelStart, DelTask, DelRemove, DelDone,
     ThreadFault, End, mainVars
<1> QED BY <1>1, <1>2 DEF Next, Start, Stop, End, Tick, mainVars, vars

(* However the main loop and the threads interleave, the OFF of a timer goes *)
(* out before its time only while a thread is setting that time.            *)
THEOREM OffIsNotEarly == Spec => NotEarly
<1>1. Typed /\ Paced /\ [Next]_vars => \A t \in Timer : Fires(t) => since[t] >= Interval \/ BeingSet(t)
  <2> SUFFICES ASSUME Typed, Paced, [Next]_vars, NEW t \in Timer, Fires(t)
               PROVE  since[t] >= Interval \/ BeingSet(t)
    OBVIOUS
  <2>1. oper_state[t] = "ACTIVE" /\ timeval[t] = 0
    BY FiresWhenDue
  <2>2. since[t] \in Nat /\ Interval \in Nat
    BY NumberAssumption DEF Typed, TypeOK
  <2> QED BY <2>1, <2>2 DEF Paced
<1> QED BY <1>1, TypedInvariant, PacedInvariant, PTL DEF Spec, NotEarly

-----------------------------------------------------------------------------
(* A timer has its file from the answer to its request until it is deleted.  *)
(* TimersSaved is not inductive.  It needs that no pointer leads to a task   *)
(* before its request is processed (Reaches), so that only a task that is    *)
(* there can be deleted, and that one thread alone works for a request.      *)

(***************************************************************************)
(* Where pointers lead                                                     *)
(***************************************************************************)

(* The tasks that have been allocated, and what is no task at all.         *)
Known == {t \in Timer : heap[t] # "none"} \cup {Root, Wild}

Reaches ==
    /\ task_list \in Links(Known) /\ event_subsc_list \in Links(Known)
    /\ cur \in Known /\ nxt \in Known
    /\ \A th \in Thread : pos[th] \in Known /\ saved[th] \in Known

(* A request is new when it comes, and its task is allocated when it is     *)
(* linked.  No two threads work for the same request.                       *)
Requests ==
    \A th \in Thread : msg[th].type = "SET" =>
        /\ pc[th] \in {"walk", "mark", "stamp", "add"} => heap[msg[th].arg] = "none"
        /\ pc[th] \in {"link", "lock", "append", "number", "open", "write"}
              => heap[msg[th].arg] # "none"
        /\ pc[th] \in {"open", "write"} => id[msg[th].arg] \in Id
        /\ msg[th].arg \notin Saved
        /\ \A u \in Thread \ {th} : msg[u] # msg[th]

LEMMA KnownPointers == Known \subseteq Pointer /\ Root \in Known /\ Wild \in Known
BY Elements DEF Known

LEMMA LinksGrow ==
    ASSUME NEW K, NEW L, K \subseteq L, NEW list \in Links(K)
    PROVE  list \in Links(L)
BY DEF Links

(* A cursor that follows a pointer stays with what is known.               *)
LEMMA FollowKnown ==
    ASSUME Reaches, NEW p \in Known
    PROVE  /\ Following(task_list, p) \in Known
           /\ p # Wild => task_list[p].next \in Known /\ event_subsc_list[p].next \in Known
                          /\ task_list[p].prev \in Known /\ event_subsc_list[p].prev \in Known
<1>1. p # Wild => p \in Place
  BY Elements DEF Known
<1> QED BY <1>1, KnownPointers DEF Reaches, Links, Following

(* A step of a thread that moves its cursors to known places.              *)
LEMMA GotoReaches ==
    ASSUME Typed, Reaches, Known \subseteq Known',
           task_list' \in Links(Known'), event_subsc_list' \in Links(Known'),
           UNCHANGED <<cur, nxt>>, NEW th \in Thread, NEW label, NEW p \in Known', NEW q \in Known',
           Goto(th, label, p, q)
    PROVE  Reaches'
<1>1. DOMAIN pos = Thread /\ DOMAIN saved = Thread
  BY DEF Typed, TypeOK
<1> QED BY <1>1 DEF Reaches, Goto

(* The same, when neither list changes.                                    *)
LEMMA WalkReaches ==
    ASSUME Typed, Reaches, UNCHANGED <<listVars, cur, nxt>>, NEW th \in Thread, NEW label,
           NEW p \in Known, NEW q \in Known, Goto(th, label, p, q)
    PROVE  Reaches'
<1>1. Known' = Known /\ task_list' \in Links(Known') /\ event_subsc_list' \in Links(Known')
  BY DEF listVars, Known, Reaches
<1> QED BY <1>1, GotoReaches

(* Taking an allocated task out of both lists.                             *)
LEMMA DeleteReaches ==
    ASSUME Typed, Reaches, NEW t \in Timer, CanDelete(t), DeleteTask(t)
    PROVE  /\ Known \subseteq Known'
           /\ task_list' \in Links(Known') /\ event_subsc_list' \in Links(Known')
<1>1. Known \subseteq Known'
  BY DEF Typed, TypeOK, DeleteTask, Known
<1>2. Del(task_list, t) \in Links(Known) /\ Del(event_subsc_list, t) \in Links(Known)
  BY DelLinks, KnownPointers DEF Reaches, Typed, Cursors, CanDelete
<1> QED BY <1>1, <1>2, LinksGrow DEF DeleteTask

LEMMA MainReaches ==
    ASSUME Typed, Reaches, MainStep, proc' = "up"
    PROVE  Reaches'
<1> USE KnownPointers DEF mainVars, threadVars, listVars
<1>a. ASSUME Advance PROVE cur' \in Known /\ nxt' \in Known
  BY <1>a, FollowKnown DEF Advance, Reaches
<1>1. CASE MainWake
  <2>1. task_list[Root].next \in Known \ {Wild}
    BY FollowKnown, Elements DEF Typed, Cursors, Rooted
  <2> QED BY <1>1, <2>1, FollowKnown DEF MainWake, Reaches, Known
<1>2. CASE MainSkip \/ MainFire \/ MainRearm \/ MainRemove
  <2>1. Known' = Known /\ UNCHANGED <<task_list, event_subsc_list, pos, saved>>
        /\ cur' \in Known /\ nxt' \in Known
    BY <1>2, <1>a DEF MainSkip, MainFire, MainRearm, MainRemove, Known, Reaches
  <2> QED BY <2>1 DEF Reaches
<1>3. CASE MainDelete
  <2>1. cur \in Timer /\ CanDelete(cur) /\ DeleteTask(cur)
        /\ UNCHANGED <<cur, nxt, pos, saved>>
    BY <1>3 DEF MainDelete, Typed, Cursors
  <2> QED BY <2>1, DeleteReaches DEF Reaches
<1>4. CASE MainFault
  BY <1>4 DEF MainFault, End
<1> QED BY <1>1, <1>2, <1>3, <1>4 DEF MainStep

LEMMA ThreadReaches ==
    ASSUME Typed, Reaches, Requests, NEW th \in Thread, Receive(th) \/ ThreadStep(th),
           proc' = "up"
    PROVE  Reaches'
<1> USE KnownPointers DEF Step, Return, At, mainVars
<1>t. /\ pos[th] \in Known /\ saved[th] \in Known
      /\ pos[th] \in Timer => pos[th] # Wild
      /\ task_list[Root].next \in Known /\ event_subsc_list[Root].next \in Known
      /\ task_list[Root].prev \in Known /\ event_subsc_list[Root].prev \in Known
  BY Elements, FollowKnown DEF Reaches
<1>1. CASE Receive(th)
  BY <1>1, <1>t, WalkReaches DEF Receive
<1>2. CASE WalkPast(th)
  BY <1>2, <1>t, FollowKnown, WalkReaches DEF WalkPast, Walking
<1>3. CASE Activate(th) \/ Mark(th) \/ Stamp(th)
  BY <1>3, <1>t, WalkReaches DEF Activate, Mark, Stamp
<1>4. CASE AddInterval(th)
  <2>1. pos[th] \in Timer
    BY <1>4 DEF AddInterval, Typed, Cursors
  <2> QED BY <1>4, <2>1, <1>t, FollowKnown, WalkReaches DEF AddInterval
<1>5. CASE EventDone(th) \/ GetDone(th) \/ DelDone(th) \/ SetWrite(th) \/ SetOpen(th)
           \/ SetNumber(th)
  BY <1>5, WalkReaches DEF EventDone, GetDone, DelDone, SetWrite, SetOpen, SetNumber
<1>6. CASE SetSubscribe(th)
  <2>1. Known \subseteq Known'
    BY <1>6 DEF SetSubscribe, Known, Typed, TypeOK
  <2>2. task_list' \in Links(Known') /\ event_subsc_list' \in Links(Known')
    BY <1>6, <2>1, LinksGrow DEF SetSubscribe, Reaches
  <2> QED BY <1>6, <1>t, <2>1, <2>2, GotoReaches DEF SetSubscribe
<1>7. CASE SetLink(th) \/ SetAppend(th)
  <2>1. /\ msg[th].arg \in Timer \cap Known /\ saved[th] \in Place \cap Known
        /\ heap' = heap /\ Known' = Known
    <3>1. msg[th].type = "SET" /\ saved[th] \in Place /\ msg[th] \in Message
      BY <1>7 DEF SetLink, SetAppend, Typed, TypeOK, Cursors
    <3>2. msg[th].arg \in Timer /\ heap[msg[th].arg] # "none"
      BY <1>7, <3>1, MessageTypes DEF SetLink, SetAppend, Requests
    <3>3. heap' = heap
      BY <1>7 DEF SetLink, SetAppend
    <3> QED BY <1>t, <3>1, <3>2, <3>3 DEF Known
  <2>2. AddAfter(task_list, saved[th], msg[th].arg) \in Links(Known)
    BY <2>1, AddLinks DEF Reaches, Typed, Cursors
  <2>3. AddAfter(event_subsc_list, saved[th], msg[th].arg) \in Links(Known)
    BY <2>1, AddLinks DEF Reaches, Typed, Cursors
  <2>4. task_list' \in Links(Known') /\ event_subsc_list' \in Links(Known')
    BY <1>7, <2>1, <2>2, <2>3 DEF SetLink, SetAppend, Reaches
  <2> QED BY <1>7, <2>1, <2>4, GotoReaches DEF SetLink, SetAppend
<1>8. CASE SetLock(th) \/ GetStart(th)
  BY <1>8, <1>t, WalkReaches DEF SetLock, GetStart
<1>9. CASE GetNext(th)
  BY <1>9, <1>t, FollowKnown, WalkReaches DEF GetNext
<1>10. CASE DelStart(th)
  BY <1>10, <1>t, FollowKnown, WalkReaches DEF DelStart
<1>11. CASE DelTask(th)
  BY <1>11, <1>t, DeleteReaches, GotoReaches DEF DelTask
<1>12. CASE DelRemove(th)
  BY <1>12, <1>t, FollowKnown, WalkReaches DEF DelRemove
<1>13. CASE ThreadFault(th)
  BY <1>13 DEF ThreadFault, End
<1> QED
  BY <1>1, <1>2, <1>3, <1>4, <1>5, <1>6, <1>7, <1>8, <1>9, <1>10, <1>11, <1>12, <1>13
  DEF ThreadStep, SetStep, GetStep, DelStep, WalkStep

(***************************************************************************)
(* Requests                                                                *)
(***************************************************************************)

(* A task whose file is being removed has been freed.                      *)
Removed == \A t \in Timer : Removing(t) => heap[t] = "freed"

(* A task that is deleted was allocated.                                   *)
LEMMA DeleteRequests ==
    ASSUME Typed, Requests, Reaches, NEW t \in Timer \cap Known, DeleteTask(t),
           UNCHANGED <<msg, id, files>>, NEW u, u \in Thread => pc[u] = "del" /\ pc'[u] = "remove",
           \A th \in Thread \ {u} : pc'[th] = pc[th]
    PROVE  Requests'
<1>1. /\ heap[t] # "none" /\ DOMAIN heap = Timer
      /\ \A v \in Timer : heap'[v] = IF v = t THEN "freed" ELSE heap[v]
  BY Elements DEF DeleteTask, Known, Typed, TypeOK
<1>2. Saved' = Saved
  BY DEF Saved
<1>3. \A th \in Thread : msg[th].type = "SET" => msg[th].arg \in Timer
  BY MessageTypes DEF Typed, TypeOK
<1> QED BY <1>1, <1>2, <1>3 DEF Requests

LEMMA MainRequests ==
    ASSUME Typed, Requests, Reaches, MainStep, proc' = "up"
    PROVE  Requests'
<1> USE DEF threadVars, listVars, fieldVars
<1>1. CASE MainWake \/ MainSkip \/ MainFire \/ MainRearm
  BY <1>1 DEF MainWake, MainSkip, MainFire, MainRearm, Requests, Saved
<1>2. CASE MainDelete
  <2>1. cur \in Timer \cap Known /\ DeleteTask(cur) /\ UNCHANGED <<msg, id, files, pc>>
    BY <1>2 DEF MainDelete, Typed, Cursors, Reaches
  <2>2. None \notin Thread
    BY NoneAssumption
  <2> QED BY <2>1, <2>2, DeleteRequests
<1>3. CASE MainRemove
  <2>1. Saved' \subseteq Saved
    BY <1>3, NoneAssumption DEF MainRemove, RemoveFile, Saved, Typed, TypeOK
  <2> QED BY <1>3, <2>1 DEF MainRemove, Requests
<1>4. CASE MainFault
  BY <1>4 DEF MainFault, End
<1> QED BY <1>1, <1>2, <1>3, <1>4 DEF MainStep

LEMMA ThreadRequests ==
    ASSUME Typed, Numbered, Requests, Reaches, NEW th \in Thread, Receive(th) \/ ThreadStep(th),
           proc' = "up"
    PROVE  Requests'
<1> USE DEF listVars, fieldVars, mainVars, Step, Return, Goto, At
<1>t. /\ DOMAIN pc = Thread /\ DOMAIN msg = Thread /\ DOMAIN heap = Timer /\ DOMAIN id = Timer
      /\ \A u \in Thread : msg[u].type = "SET" =>
              msg[u].arg \in Timer /\ msg[u] = [type |-> "SET", arg |-> msg[u].arg]
      /\ Silence.type # "SET"
  BY MessageTypes DEF Typed, TypeOK, Silence
<1>1. CASE Receive(th)
  <2>1. PICK m \in Message : Sendable(m) /\ msg' = [msg EXCEPT ![th] = m]
    BY <1>1 DEF Receive
  <2>2. m.type = "SET" => /\ heap[m.arg] = "none" /\ m.arg \notin Saved
                          /\ \A u \in Thread : msg[u] # m
    BY <2>1 DEF Sendable
  <2>3. UNCHANGED <<heap, id>> /\ Saved' = Saved /\ pc' = [pc EXCEPT ![th] = "walk"]
    BY <1>1 DEF Receive, Saved
  <2> QED BY <1>t, <2>1, <2>2, <2>3 DEF Requests
<1>2. CASE WalkPast(th) \/ Activate(th) \/ Mark(th) \/ Stamp(th) \/ AddInterval(th)
  BY <1>2, <1>t DEF WalkPast, Walking, Activate, Mark, Stamp, AddInterval, Requests, Saved
<1>3. CASE EventDone(th) \/ GetDone(th) \/ DelDone(th)
  BY <1>3, <1>t DEF EventDone, GetDone, DelDone, Requests, Saved
<1>4. CASE SetSubscribe(th)
  <2>1. Saved' = Saved /\ UNCHANGED <<msg, id>> /\ pc' = [pc EXCEPT ![th] = "link"]
        /\ heap' = [heap EXCEPT ![msg[th].arg] = "live"] /\ msg[th].type = "SET"
    BY <1>4 DEF SetSubscribe, Saved
  <2> QED BY <1>t, <2>1 DEF Requests
<1>5. CASE SetLink(th) \/ SetLock(th)
  BY <1>5, <1>t DEF SetLink, SetLock, Requests, Saved
<1>a. CASE SetAppend(th)
  BY <1>a, <1>t DEF SetAppend, Requests, Saved
<1>6. CASE SetNumber(th)
  <2>1. Saved' = Saved /\ UNCHANGED <<msg, heap>> /\ pc' = [pc EXCEPT ![th] = "open"]
        /\ id' = [id EXCEPT ![msg[th].arg] = number[th]] /\ msg[th].type = "SET"
        /\ pc[th] = "number"
    BY <1>6 DEF SetNumber, Saved, Typed, Cursors
  <2>2. number[th] \in Id
    <3>1. number[th] \in 0..MaxId /\ number[th] = task_count + 1 /\ task_count \in 0..MaxId
      BY <2>1 DEF Typed, TypeOK, Numbered
    <3> QED BY <3>1, NumberAssumption DEF Id
  <2> QED BY <1>t, <2>1, <2>2 DEF Requests
<1>7. CASE SetOpen(th)
  <2>1. Saved' \subseteq Saved
    BY <1>7, NoneAssumption DEF SetOpen, Saved, Typed, TypeOK
  <2>2. UNCHANGED <<msg, id, heap>> /\ pc' = [pc EXCEPT ![th] = "write"] /\ pc[th] = "open"
    BY <1>7 DEF SetOpen
  <2> QED BY <1>t, <2>1, <2>2 DEF Requests
<1>8. CASE SetWrite(th)
  <2>1. Saved' \subseteq Saved \cup {msg[th].arg}
    BY <1>8 DEF SetWrite, Saved, Typed, TypeOK
  <2>2. UNCHANGED <<id, heap>> /\ pc' = [pc EXCEPT ![th] = "idle"]
        /\ msg' = [msg EXCEPT ![th] = Silence] /\ msg[th].type = "SET"
    BY <1>8 DEF SetWrite, Typed, Cursors
  <2>3. \A u \in Thread \ {th} : msg[u].type = "SET" => msg[u].arg # msg[th].arg
    BY <1>t, <2>2 DEF Requests
  <2> QED BY <1>t, <2>1, <2>2, <2>3 DEF Requests
<1>9. CASE GetStart(th) \/ GetNext(th) \/ DelStart(th)
  BY <1>9, <1>t DEF GetStart, GetNext, DelStart, Requests, Saved
<1>10. CASE DelTask(th)
  <2>1. pos[th] \in Timer \cap Known /\ DeleteTask(pos[th]) /\ UNCHANGED <<msg, id, files>>
        /\ pc[th] = "del" /\ pc' = [pc EXCEPT ![th] = "remove"]
    BY <1>10 DEF DelTask, Reaches
  <2> QED BY <1>t, <2>1, DeleteRequests
<1>11. CASE DelRemove(th)
  <2>1. Saved' \subseteq Saved
    BY <1>11, NoneAssumption DEF DelRemove, RemoveFile, Saved, Typed, TypeOK
  <2> QED BY <1>11, <1>t, <2>1 DEF DelRemove, Requests
<1>12. CASE ThreadFault(th)
  BY <1>12 DEF ThreadFault, End
<1> QED
  BY <1>1, <1>2, <1>3, <1>4, <1>5, <1>6, <1>7, <1>8, <1>9, <1>10, <1>11, <1>12, <1>a
  DEF ThreadStep, SetStep, GetStep, DelStep, WalkStep

(* From start to start.                                                    *)
Traced == Afresh /\ Reaches /\ Requests

LEMMA ResetTraced ==
    ASSUME Typed, Reset
    PROVE  Reaches /\ Requests
<1>1. Reaches
  BY EmptyLinks, KnownPointers DEF Reaches, Reset
<1>2. Requests
  BY DEF Requests, Reset, Silence
<1> QED BY <1>1, <1>2

LEMMA StartTraced == Typed /\ Traced /\ Start => Reaches' /\ Requests'
<1> SUFFICES ASSUME Typed, Traced, Start PROVE Reaches' /\ Requests'
  OBVIOUS
<1>1. PICK n \in 0..MaxId : \E order \in [1..n -> Id] : FromDisk(n, order)
  BY LoadSpec DEF Start, Typed
<1>2. PICK order \in [1..n -> Id] : FromDisk(n, order)
  BY <1>1
<1> DEFINE loaded == [i \in 1..n |-> files[order[i]]]
<1>r. Reset /\ UNCHANGED <<files, mainVars, threadVars>>
  BY DEF Start, Traced, Afresh
<1>3. n \in Nat /\ loaded \in [1..n -> Timer] /\ Len(loaded) = n
      /\ heap' = [t \in Timer |-> IF t \in Saved THEN "live" ELSE "none"]
      /\ task_list' = ListOf(loaded) /\ event_subsc_list' = ListOf(loaded)
  BY <1>2, NumberAssumption DEF FromDisk
<1>4. \A i \in 1..n : loaded[i] \in Saved
  BY <1>2, <1>3 DEF Saved
<1>5. loaded \in [1..n -> Timer \cap Known']
  BY <1>3, <1>4 DEF Known
<1>6. ListOf(loaded) \in Links(Known')
  <2>1. Root \in Known' /\ Wild \in Known'
    BY DEF Known
  <2> HIDE DEF loaded
  <2> QED BY <1>3, <1>5, <2>1, ListOfLinks
<1>7. Reaches'
  BY <1>3, <1>6, <1>r DEF Reaches, Reset, Known, mainVars, threadVars
<1>8. Requests'
  BY <1>r DEF Requests, Reset, Silence, threadVars
<1> QED BY <1>7, <1>8

LEMMA TracedStep == Typed /\ Typed' /\ Numbered /\ Traced /\ [Next]_vars => Traced'
<1> SUFFICES ASSUME Typed, Typed', Numbered, Traced, [Next]_vars PROVE Traced'
  OBVIOUS
<1>a. Afresh'
  BY AfreshStep DEF Traced
<1>1. CASE Start
  BY <1>1, <1>a, StartTraced DEF Traced
<1>2. CASE Reset'
  <2>1. Reaches' /\ Requests'
    BY <1>2, EmptyLinks, KnownPointers DEF Reaches, Requests, Reset, Silence, Known
  <2> QED BY <1>a, <2>1 DEF Traced
<1>3. CASE proc' = "up" /\ (MainStep \/ \E th \in Thread : Receive(th) \/ ThreadStep(th))
  BY <1>3, <1>a, MainReaches, ThreadReaches, MainRequests, ThreadRequests DEF Traced
<1>4. CASE UNCHANGED <<proc, files, listVars, id, countVars, oper_state, task_list_mutex,
                       mainVars, threadVars, raced, aligned>>
  BY <1>4, <1>a DEF Traced, Reaches, Requests, Saved, Known, listVars, mainVars, threadVars
<1> QED BY <1>1, <1>2, <1>3, <1>4, StepKinds DEF MainStep

LEMMA TracedInvariant == Spec => []Traced
<1>1. Init => Traced
  <2>1. Init => Typed /\ Reset /\ Afresh
    BY InitTyped DEF Init, Reset, Afresh
  <2> QED BY <2>1, ResetTraced DEF Traced
<1> QED BY <1>1, TracedStep, TypedInvariant, NumberedInvariant, PTL DEF Spec

(***************************************************************************)
(* Files                                                                   *)
(***************************************************************************)

(* A request is in one file at most, and a file that is removed belongs to  *)
(* a task that has been freed.                                             *)
OneFile == \A m, n \in Id : files[m] \in Timer /\ files[m] = files[n] => m = n

Filed == Removed /\ OneFile /\ TimersSaved

(* Which steps free tasks, and which end the removal of a file.            *)
LEMMA RemovedStep == Typed /\ Traced /\ Removed /\ [Next]_vars => Removed'
<1> SUFFICES ASSUME Typed, Traced, Removed, [Next]_vars, NEW t \in Timer, Removing(t)'
             PROVE  heap'[t] = "freed"
  BY DEF Removed
<1>t. DOMAIN heap = Timer /\ DOMAIN pc = Thread /\ DOMAIN pos = Thread
  BY DEF Typed, TypeOK
<1>h. Removing(t) => heap[t] = "freed"
  BY DEF Removed
<1> USE DEF Removing, listVars, mainVars, threadVars
<1>1. CASE Start
  BY <1>1 DEF Start, Traced, Afresh, Reset
<1>2. CASE Reset'
  BY <1>2 DEF Reset
<1>3. CASE MainStep
  <2>1. CASE MainDelete
    BY <1>h, <1>t, <2>1 DEF MainDelete, DeleteTask
  <2>2. CASE ~MainDelete /\ ~Reset'
    BY <1>3, <1>h, <2>2 DEF MainStep, MainWake, MainSkip, MainFire, MainRearm, MainRemove,
       MainFault, End, Reset, Advance
  <2> QED BY <1>2, <2>1, <2>2
<1>4. ASSUME NEW th \in Thread, Receive(th) \/ ThreadStep(th) PROVE heap'[t] = "freed"
  <2> USE DEF Step, Return, Goto, At
  <2>1. CASE DelTask(th)
    BY <1>h, <1>t, <2>1 DEF DelTask, DeleteTask
  <2>2. CASE SetSubscribe(th)
    <3>1. heap[msg[th].arg] = "none" /\ pc' = [pc EXCEPT ![th] = "link"]
          /\ pos' = [pos EXCEPT ![th] = Root] /\ UNCHANGED <<mainPc, cur>>
          /\ heap' = [heap EXCEPT ![msg[th].arg] = "live"]
      BY <2>2 DEF SetSubscribe, Traced, Requests
    <3>2. Removing(t)
      BY <1>t, <3>1
    <3> QED BY <1>h, <1>t, <3>1, <3>2
  <2>3. CASE ThreadFault(th)
    BY <2>3 DEF ThreadFault, End
  <2>4. CASE ~DelTask(th) /\ ~SetSubscribe(th) /\ ~ThreadFault(th)
    <3>1. /\ UNCHANGED <<heap, mainPc, cur>>
          /\ \E l, p : l # "remove" /\ pc' = [pc EXCEPT ![th] = l] /\ pos' = [pos EXCEPT ![th] = p]
      BY <1>4, <2>4 DEF Receive, ThreadStep, WalkStep, SetStep, GetStep, DelStep, WalkPast,
         Activate, Mark, Stamp, AddInterval, EventDone, SetLink, SetLock, SetAppend, SetNumber,
         SetOpen, SetWrite, GetStart, GetNext, GetDone, DelStart, DelRemove, DelDone
    <3>2. Removing(t)
      BY <1>t, <3>1
    <3> QED BY <1>h, <3>1, <3>2
  <2> QED BY <2>1, <2>2, <2>3, <2>4
<1>5. CASE Tick \/ UNCHANGED vars
  BY <1>5, <1>h DEF Tick, vars
<1>6. CASE Stop
  BY <1>6 DEF Stop, End
<1> QED BY <1>1, <1>3, <1>4, <1>5, <1>6 DEF Next

(* Which steps write files.                                                *)
LEMMA FilesFrame ==
    ASSUME [Next]_vars
    PROVE  MainRemove \/ (\E th \in Thread : SetOpen(th) \/ SetWrite(th) \/ DelRemove(th))
           \/ UNCHANGED files
<1>1. MainStep => MainRemove \/ UNCHANGED files
  BY DEF MainStep, MainWake, MainSkip, MainFire, MainRearm, MainDelete, MainFault, End
<1>2. ASSUME NEW th \in Thread, Receive(th) \/ ThreadStep(th)
      PROVE  SetOpen(th) \/ SetWrite(th) \/ DelRemove(th) \/ UNCHANGED files
  BY <1>2 DEF Receive, ThreadStep, WalkStep, SetStep, GetStep, DelStep, WalkPast, Activate,
     Mark, Stamp, AddInterval, EventDone, SetSubscribe, SetLink, SetLock, SetAppend, SetNumber,
     GetStart, GetNext, GetDone, DelStart, DelTask, DelDone, ThreadFault, End
<1> QED BY <1>1, <1>2 DEF Next, Start, Stop, End, Tick, vars

LEMMA OneFileStep == Typed /\ Traced /\ OneFile /\ [Next]_vars => OneFile'
<1> SUFFICES ASSUME Typed, Traced, OneFile, [Next]_vars PROVE OneFile'
  OBVIOUS
<1>t. DOMAIN files = Id /\ None \notin Timer /\ Torn \notin Timer
  BY NoneAssumption DEF Typed, TypeOK
<1>1. ASSUME NEW th \in Thread, SetWrite(th) PROVE OneFile'
  <2>1. msg[th].type = "SET" /\ msg[th].arg \notin Saved /\ msg[th].arg \in Timer
        /\ files' = [files EXCEPT ![id[msg[th].arg]] = msg[th].arg]
    BY <1>1, MessageTypes DEF SetWrite, At, Typed, TypeOK, Cursors, Traced, Requests
  <2>2. \A n \in Id : files[n] # msg[th].arg
    BY <2>1 DEF Saved
  <2> QED BY <1>t, <2>1, <2>2 DEF OneFile
<1>2. ASSUME NEW n, NEW x \in {None, Torn}, files' = [files EXCEPT ![n] = x] PROVE OneFile'
  BY <1>t, <1>2 DEF OneFile
<1>3. ASSUME NEW th \in Thread, SetOpen(th) PROVE OneFile'
  BY <1>2, <1>3 DEF SetOpen
<1>4. ASSUME NEW th \in Thread, DelRemove(th) PROVE OneFile'
  BY <1>2, <1>4 DEF DelRemove, RemoveFile
<1>5. CASE MainRemove
  BY <1>2, <1>5 DEF MainRemove, RemoveFile
<1>6. CASE UNCHANGED files
  BY <1>6 DEF OneFile
<1> QED BY <1>1, <1>3, <1>4, <1>5, <1>6, FilesFrame

(* A timer that was not there, or whose request is still worked on, becomes *)
(* one that must have a file in SetWrite only.                              *)
LEMMA SavingFrame ==
    ASSUME Typed, [Next]_vars, proc' = "up", proc = "up", NEW t \in Timer,
           heap'[t] = "live", ~Saving(t)', heap[t] # "live" \/ Saving(t)
    PROVE  \E th \in Thread : SetWrite(th) /\ msg[th] = [type |-> "SET", arg |-> t]
<1>t. /\ DOMAIN heap = Timer /\ DOMAIN msg = Thread /\ DOMAIN pc = Thread
      /\ Silence.type # "SET"
  BY DEF Typed, TypeOK, Silence
<1> USE DEF Saving, listVars, threadVars
<1>1. CASE MainStep
  BY <1>t, <1>1 DEF MainStep, MainWake, MainSkip, MainFire, MainRearm, MainDelete, MainRemove,
     MainFault, End, DeleteTask
<1>2. ASSUME NEW th \in Thread, Receive(th) \/ ThreadStep(th)
      PROVE  SetWrite(th) /\ msg[th] = [type |-> "SET", arg |-> t]
  <2> USE DEF Step, Return, At
  <2>1. CASE Receive(th)
    BY <1>t, <2>1 DEF Receive, Typed, Cursors
  <2>2. CASE SetSubscribe(th)
    BY <1>t, <2>2, MessageTypes DEF SetSubscribe, Typed, TypeOK
  <2>3. CASE DelTask(th)
    BY <1>t, <2>3 DEF DelTask, DeleteTask
  <2>4. CASE EventDone(th) \/ GetDone(th) \/ DelDone(th)
    <3>1. msg[th].type # "SET" /\ heap' = heap /\ msg' = [msg EXCEPT ![th] = Silence]
      BY <2>4 DEF EventDone, GetDone, DelDone, Typed, Cursors
    <3> QED BY <1>t, <3>1
  <2>5. CASE SetWrite(th)
    <3>1. heap' = heap /\ msg' = [msg EXCEPT ![th] = Silence]
      BY <2>5 DEF SetWrite
    <3> QED BY <1>t, <2>5, <3>1
  <2>6. CASE ThreadFault(th)
    BY <2>6 DEF ThreadFault, End
  <2>7. CASE ~(Receive(th) \/ SetSubscribe(th) \/ DelTask(th) \/ EventDone(th) \/ GetDone(th)
               \/ DelDone(th) \/ SetWrite(th) \/ ThreadFault(th))
    <3>1. UNCHANGED <<heap, msg>>
      BY <1>2, <2>7 DEF ThreadStep, WalkStep, SetStep, GetStep, DelStep, WalkPast, Activate,
         Mark, Stamp, AddInterval, SetLink, SetLock, SetAppend, SetNumber, SetOpen, GetStart,
         GetNext, DelStart, DelRemove
    <3> QED BY <3>1
  <2> QED BY <2>1, <2>2, <2>3, <2>4, <2>5, <2>6, <2>7
<1>3. CASE Tick \/ UNCHANGED vars
  BY <1>3 DEF Tick, vars
<1> QED BY <1>1, <1>2, <1>3 DEF Next, Start, Stop, End

LEMMA TimersSavedStep ==
    Typed /\ Traced /\ Numbered /\ Removed /\ TimersSaved /\ [Next]_vars => TimersSaved'
<1> SUFFICES ASSUME Typed, Traced, Numbered, Removed, TimersSaved, [Next]_vars, aligned',
                    NEW t \in Timer, heap'[t] = "live", ~Saving(t)'
             PROVE  files'[id'[t]] = t
  BY DEF TimersSaved
<1>t. /\ DOMAIN files = Id /\ DOMAIN id = Timer /\ 0 \notin Id
      /\ \A v \in Timer : id[v] \notin Id => id[v] = 0
  BY NumberAssumption DEF Typed, TypeOK, Id
<1>1. CASE Start
  <2>1. PICK n \in 0..MaxId : \E order \in [1..n -> Id] : FromDisk(n, order)
    BY <1>1, LoadSpec DEF Start, Typed
  <2>2. PICK order \in [1..n -> Id] : FromDisk(n, order)
    BY <2>1
  <2>3. t \in Saved /\ \A i \in 1..n : order[i] = i
    BY <2>2 DEF FromDisk
  <2>4. id'[t] \in 1..n /\ files[order[id'[t]]] = t
    BY <2>2, <2>3 DEF FromDisk
  <2> QED BY <1>1, <2>3, <2>4 DEF Start
<1>2. CASE Reset'
  BY <1>2 DEF Reset
<1>3. CASE proc = "up" /\ proc' = "up" /\ aligned' = aligned
  <2>1. ASSUME NEW th \in Thread, SetWrite(th), msg[th] = [type |-> "SET", arg |-> t]
        PROVE  files'[id'[t]] = t
    <3>1. msg[th].type = "SET" /\ msg[th].arg = t /\ pc[th] = "write"
      BY <2>1 DEF SetWrite, At
    <3>2. id[t] \in Id
      BY <3>1 DEF Traced, Requests
    <3>3. files' = [files EXCEPT ![id[t]] = t] /\ id' = id
      BY <2>1, <3>1 DEF SetWrite, fieldVars
    <3> QED BY <1>t, <3>2, <3>3
  <2>2. ASSUME heap[t] = "live", ~Saving(t) PROVE files'[id'[t]] = t
    <3>1. files[id[t]] = t
      BY <1>3, <2>2 DEF TimersSaved
    <3>2. id'[t] = id[t]
      <4>1. ASSUME NEW th \in Thread, SetNumber(th) PROVE id'[t] = id[t]
        <5>1. msg[th] = [type |-> "SET", arg |-> msg[th].arg]
          BY <4>1, MessageTypes DEF SetNumber, At, Typed, TypeOK, Cursors
        <5>2. msg[th].arg # t
          BY <2>2, <5>1 DEF Saving
        <5> QED BY <4>1, <5>2, <1>t DEF SetNumber
      <4>2. CASE Start
        BY <1>3, <4>2 DEF Start
      <4> QED BY <1>3, <4>1, <4>2, IdFrame
    <3>3. ASSUME NEW u \in Timer, NEW x, files' = [files EXCEPT ![id[u]] = x], u # t
          PROVE  files'[id[t]] = t
      <4>1. id[u] \in Id => id[u] # id[t]
        BY <3>3, <1>t DEF Numbered, UniqueIds
      <4> QED BY <3>1, <3>3, <4>1, <1>t
    <3>4. ASSUME NEW th \in Thread, SetOpen(th) \/ SetWrite(th) PROVE files'[id[t]] = t
      <4>1. msg[th] = [type |-> "SET", arg |-> msg[th].arg] /\ msg[th].arg \in Timer
        BY <3>4, MessageTypes DEF SetOpen, SetWrite, At, Typed, TypeOK, Cursors
      <4>2. msg[th].arg # t
        BY <2>2, <4>1 DEF Saving
      <4> QED BY <3>3, <3>4, <4>1, <4>2 DEF SetOpen, SetWrite
    <3>5. ASSUME NEW u \in Timer, Removing(u), RemoveFile(u) PROVE files'[id[t]] = t
      <4>1. u # t
        BY <2>2, <3>5 DEF Removed
      <4> QED BY <3>3, <3>5, <4>1 DEF RemoveFile
    <3>6. ASSUME MainRemove PROVE files'[id[t]] = t
      BY <3>5, <3>6 DEF MainRemove, Removing, Typed, Cursors
    <3>7. ASSUME NEW th \in Thread, DelRemove(th) PROVE files'[id[t]] = t
      BY <3>5, <3>7 DEF DelRemove, At, Removing, Typed, Cursors
    <3>8. files'[id[t]] = t
      BY <3>1, <3>4, <3>6, <3>7, FilesFrame
    <3> QED BY <3>2, <3>8
  <2>3. ASSUME heap[t] # "live" \/ Saving(t) PROVE files'[id'[t]] = t
    BY <1>3, <2>1, <2>3, SavingFrame
  <2> QED BY <2>2, <2>3
<1>4. CASE UNCHANGED <<proc, files, listVars, id, countVars, oper_state, task_list_mutex,
                       mainVars, threadVars, raced, aligned>>
  BY <1>4 DEF TimersSaved, Saving, listVars, threadVars
<1> QED BY <1>1, <1>2, <1>3, <1>4, StepKinds

LEMMA FiledInvariant == Spec => []Filed
<1>1. Init => Filed
  <2> SUFFICES ASSUME Init PROVE Filed
    OBVIOUS
  <2>1. Removed /\ OneFile /\ TimersSaved
    BY NoneAssumption DEF Init, Removed, Removing, OneFile, TimersSaved
  <2> QED BY <2>1 DEF Filed
<1>2. Typed /\ Numbered /\ Traced /\ Filed /\ [Next]_vars => Filed'
  BY RemovedStep, OneFileStep, TimersSavedStep DEF Filed
<1> QED BY <1>1, <1>2, TypedInvariant, NumberedInvariant, TracedInvariant, PTL DEF Spec

(* A timer has its file from the answer to its request until it is deleted, *)
(* however requests, deletions and the main loop interleave, if the load    *)
(* gave every task the id of its file.                                     *)
THEOREM FilesAreKept == Spec => []TimersSaved
<1>1. Filed => TimersSaved
  BY DEF Filed
<1> QED BY <1>1, FiledInvariant, PTL
=============================================================================
