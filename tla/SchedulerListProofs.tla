-------------------------- MODULE SchedulerListProofs --------------------------
(***************************************************************************)
(* What the lists of the scheduler keep, for any timers and brokers: no    *)
(* task is lost from task_list while tasks are only added, and until a task *)
(* is freed under the hands of another message or pass, or two requests are *)
(* linked at once, there is no memory fault and a file means that its timer *)
(* is there.                                                               *)
(*                                                                         *)
(* ListKept is not inductive.  The cursors must stand in the lists, the end *)
(* of the list that was read under the mutex must still be the end, and     *)
(* task_list must be one ring that no iterator can go round for ever or     *)
(* come back in: Ascending says so, by the ids, which grow along it.        *)
(***************************************************************************)
EXTENDS SchedulerProofs

(***************************************************************************)
(* Rings                                                                   *)
(***************************************************************************)

(* The id of a task, or the one that it is about to get.                   *)
Rank(t) ==
    IF \E th \in Thread : pc[th] = "number" /\ msg[th].arg = t THEN task_count + 1 ELSE id[t]

(* The ids grow from each task to the next.                                *)
Ascending(list, in) ==
    \A p \in in : list[p].next \in Timer => Rank(p) < Rank(list[p].next)

LEMMA RankType == Typed => \A t \in Timer : Rank(t) \in Nat
BY NumberAssumption DEF Rank, Typed, TypeOK

(* A step of a thread that is not about to store an id leaves the ranks.    *)
LEMMA RankFrame ==
    ASSUME Typed, NEW th \in Thread, pc[th] # "number", pc'[th] # "number",
           \A u \in Thread \ {th} : pc'[u] = pc[u] /\ msg'[u] = msg[u],
           UNCHANGED <<id, task_count>>
    PROVE  \A t \in Timer : Rank(t)' = Rank(t)
<1>1. \A u \in Thread : \A t \in Timer :
         (pc'[u] = "number" /\ msg'[u].arg = t) <=> (pc[u] = "number" /\ msg[u].arg = t)
  OBVIOUS
<1> QED BY <1>1 DEF Rank

LEMMA EmptyJoined == Joined(EmptyList, {})
BY Elements DEF Joined, EmptyList

LEMMA AddJoined ==
    ASSUME NEW list \in Lists, NEW in \in SUBSET Timer, Joined(list, in),
           NEW x \in Timer \ in
    PROVE  Joined(AddAfter(list, list[Root].prev, x), in \cup {x})
<1> DEFINE last == list[Root].prev
           new == AddAfter(list, last, x)
<1>1. last \in in \cup {Root} /\ list[last].next = Root /\ x # Root /\ x # last
  BY Elements DEF Joined
<1>2. /\ \A p \in Place \ {Root, x, last} : new[p] = list[p]
      /\ new[x] = [next |-> Root, prev |-> last]
      /\ new[Root].prev = x /\ new[last].next = x
      /\ last # Root => new[Root].next = list[Root].next /\ new[last].prev = list[last].prev
  BY <1>1, Elements DEF AddAfter, Lists
<1>3. ASSUME NEW p \in in \cup {Root, x}
      PROVE  /\ new[p].next \in in \cup {Root, x} /\ new[new[p].next].prev = p
             /\ new[p].prev \in in \cup {Root, x} /\ new[new[p].prev].next = p
  <2>1. CASE p = x
    BY <1>1, <1>2, <2>1
  <2>2. CASE p = Root /\ last = Root
    BY <1>1, <1>2, <2>2
  <2>3. CASE p = last /\ last # Root
    <3>1. list[p].prev \in in \cup {Root} /\ list[list[p].prev].next = p
      BY <1>1, <2>3 DEF Joined
    <3> QED BY <1>1, <1>2, <2>3, <3>1, Elements
  <2>4. CASE p = Root /\ last # Root
    <3>1. list[Root].next \in in \cup {Root} /\ list[list[Root].next].prev = Root
      BY DEF Joined
    <3> QED BY <1>1, <1>2, <2>4, <3>1, Elements
  <2>5. CASE p \notin {x, Root, last}
    <3>1. /\ list[p].next \in in \cup {Root} /\ list[list[p].next].prev = p
          /\ list[p].prev \in in \cup {Root} /\ list[list[p].prev].next = p
      BY <1>1, <2>5 DEF Joined
    <3> QED BY <1>1, <1>2, <2>5, <3>1, Elements
  <2> QED BY <2>1, <2>2, <2>3, <2>4, <2>5
<1> QED BY <1>3 DEF Joined

LEMMA DelJoined ==
    ASSUME NEW list \in Lists, NEW in \in SUBSET Timer, Joined(list, in), NEW x \in in
    PROVE  /\ Joined(Del(list, x), in \ {x})
           /\ \A p \in (in \ {x}) \cup {Root} :
                 Del(list, x)[p].next = IF list[p].next = x THEN list[x].next ELSE list[p].next
           /\ CanDel(list, x)
<1> DEFINE new == Del(list, x)
           a == list[x].prev
           b == list[x].next
           left == in \ {x}
<1>1. /\ a \in in \cup {Root} /\ b \in in \cup {Root} /\ list[a].next = x /\ list[b].prev = x
      /\ x # Root /\ x \in Timer
  BY Elements DEF Joined
<1>2. CanDel(list, x)
  BY <1>1, Elements DEF CanDel
<1>j. \A p \in in \cup {Root} :
         /\ list[p].next \in in \cup {Root} /\ list[list[p].next].prev = p
         /\ list[p].prev \in in \cup {Root} /\ list[list[p].prev].next = p
  BY DEF Joined
<1>3. \A p \in left \cup {Root} :
         /\ new[p].next = IF p = a THEN b ELSE list[p].next
         /\ new[p].prev = IF p = b THEN a ELSE list[p].prev
  BY <1>1, Elements DEF Del, Lists
<1>4. \A p \in in \cup {Root} : (list[p].next = x <=> p = a) /\ (list[p].prev = x <=> p = b)
  BY <1>1, <1>j
<1>5. a = x <=> b = x
  BY <1>1, <1>4
<1>6. ASSUME NEW p \in left \cup {Root}
      PROVE  /\ new[p].next \in left \cup {Root} /\ new[new[p].next].prev = p
             /\ new[p].prev \in left \cup {Root} /\ new[new[p].prev].next = p
  <2>1. /\ new[p].next \in left \cup {Root} /\ new[new[p].next].prev = p
    <3>1. CASE p = a
      BY <1>1, <1>3, <1>5, <3>1
    <3>2. CASE p # a
      BY <1>1, <1>3, <1>4, <1>j, <3>2
    <3> QED BY <3>1, <3>2
  <2>2. /\ new[p].prev \in left \cup {Root} /\ new[new[p].prev].next = p
    <3>1. CASE p = b
      BY <1>1, <1>3, <1>5, <3>1
    <3>2. CASE p # b
      BY <1>1, <1>3, <1>4, <1>j, <3>2
    <3> QED BY <3>1, <3>2
  <2> QED BY <2>1, <2>2
<1>7. Joined(new, left)
  BY <1>6 DEF Joined
<1> QED BY <1>2, <1>3, <1>4, <1>7

LEMMA ListOfJoined ==
    ASSUME NEW n \in Nat, NEW seq \in [1..n -> Timer], Len(seq) = n,
           \A i, j \in 1..n : seq[i] = seq[j] => i = j
    PROVE  /\ Joined(ListOf(seq), {seq[i] : i \in 1..n})
           /\ \A i \in 1..n : ListOf(seq)[seq[i]].next = IF i + 1 \in 1..n THEN seq[i + 1] ELSE Root
<1> DEFINE in == {seq[i] : i \in 1..n}
           Ring(i) == IF i \in 1..n THEN seq[i] ELSE Root
           list == ListOf(seq)
<1>1. list[Root] = [next |-> Ring(1), prev |-> Ring(n)]
  BY Elements DEF ListOf
<1>2. ASSUME NEW i \in 1..n
      PROVE  list[seq[i]] = [next |-> Ring(i + 1), prev |-> Ring(i - 1)]
  <2>1. (CHOOSE j \in 1..n : seq[j] = seq[i]) = i
    OBVIOUS
  <2>2. seq[i] \in Place /\ seq[i] # Root
    BY Elements
  <2> QED BY <2>1, <2>2 DEF ListOf
<1>3. ASSUME NEW i \in 0..n
      PROVE  list[Ring(i)].next = Ring(i + 1) /\ list[Ring(i)].prev = Ring(IF i = 0 THEN n ELSE i - 1)
  <2>1. CASE i = 0
    BY <1>1, <2>1
  <2>2. CASE i # 0
    <3>1. i \in 1..n /\ Ring(i) = seq[i]
      BY <2>2
    <3> HIDE DEF list, Ring
    <3>2. list[seq[i]] = [next |-> Ring(i + 1), prev |-> Ring(i - 1)]
      BY <1>2, <3>1
    <3> QED BY <2>2, <3>1, <3>2
  <2> QED BY <2>1, <2>2
<1>4. /\ \A i \in 0..n + 1 : Ring(i) \in in \cup {Root}
      /\ Ring(n + 1) = Root /\ Ring(0) = Root
  OBVIOUS
<1>5. \A p \in in \cup {Root} : \E i \in 0..n : Ring(i) = p
  OBVIOUS
<1> HIDE DEF in, list
<1>6. Joined(list, in)
  <2> SUFFICES ASSUME NEW p \in in \cup {Root}
               PROVE  /\ list[p].next \in in \cup {Root} /\ list[list[p].next].prev = p
                      /\ list[p].prev \in in \cup {Root} /\ list[list[p].prev].next = p
    BY DEF Joined
  <2>1. PICK i \in 0..n : Ring(i) = p
    BY <1>5
  <2> HIDE DEF Ring
  <2>2. list[p].next = Ring(i + 1) /\ list[Ring(i + 1)].prev = p
    <3>1. CASE i = n
      <4>1. 0 \in 0..n /\ list[Ring(0)].prev = Ring(n)
        BY <1>3
      <4> QED BY <1>3, <1>4, <2>1, <3>1, <4>1
    <3>2. CASE i # n
      <4>1. i + 1 \in 0..n /\ i + 1 # 0 /\ i + 1 - 1 = i
        BY <3>2
      <4> QED BY <1>3, <2>1, <4>1
    <3> QED BY <3>1, <3>2
  <2>3. \E j \in 0..n : list[p].prev = Ring(j) /\ list[Ring(j)].next = p
    <3>1. CASE i = 0
      <4>1. n \in 0..n /\ list[p].prev = Ring(n) /\ list[Ring(n)].next = Ring(n + 1)
        BY <1>3, <2>1, <3>1
      <4> QED BY <1>4, <2>1, <3>1, <4>1
    <3>2. CASE i # 0
      <4>1. i - 1 \in 0..n /\ i - 1 + 1 = i
        BY <3>2
      <4> QED BY <1>3, <2>1, <3>2, <4>1
    <3> QED BY <3>1, <3>2
  <2>4. i + 1 \in 0..n + 1 /\ \A j \in 0..n : j \in 0..n + 1
    OBVIOUS
  <2> QED BY <1>4, <2>2, <2>3, <2>4
<1>7. ASSUME NEW i \in 1..n PROVE list[seq[i]].next = Ring(i + 1)
  <2> HIDE DEF Ring
  <2>1. list[seq[i]] = [next |-> Ring(i + 1), prev |-> Ring(i - 1)]
    BY <1>2
  <2> QED BY <2>1
<1> QED BY <1>6, <1>7 DEF in, list

LEMMA DelAscending ==
    ASSUME Typed, NEW list \in Lists, NEW in \in SUBSET Timer, Joined(list, in),
           Ascending(list, in), NEW x \in in
    PROVE  Ascending(Del(list, x), in \ {x}) /\ list[x].next # x
<1>1. \A t \in Timer : Rank(t) \in Nat
  BY RankType
<1>2. list[x].next # x
  BY <1>1 DEF Ascending
<1>d. \A p \in (in \ {x}) \cup {Root} :
         Del(list, x)[p].next = IF list[p].next = x THEN list[x].next ELSE list[p].next
  BY DelJoined
<1>3. ASSUME NEW p \in in \ {x}, Del(list, x)[p].next \in Timer
      PROVE  Rank(p) < Rank(Del(list, x)[p].next)
  <2>1. CASE list[p].next = x
    <3>1. Del(list, x)[p].next = list[x].next
      BY <1>d, <2>1
    <3>2. Rank(p) < Rank(x) /\ Rank(x) < Rank(list[x].next) /\ list[x].next \in Timer
      BY <1>3, <2>1, <3>1 DEF Ascending
    <3> QED BY <1>1, <3>1, <3>2
  <2>2. CASE list[p].next # x
    <3>1. Del(list, x)[p].next = list[p].next
      BY <1>d, <2>2
    <3> QED BY <1>3, <3>1 DEF Ascending
  <2> QED BY <2>1, <2>2
<1> QED BY <1>2, <1>3 DEF Ascending

(***************************************************************************)
(* The invariant                                                           *)
(***************************************************************************)

(* The tasks whose subscription is in event_subsc_list.                    *)
Linking(t) == \E th \in Thread : msg[th] = [type |-> "SET", arg |-> t] /\ pc[th] \in {"walk", "link"}
Linked == {t \in Timer : heap[t] = "live" /\ ~Linking(t)}

(* As long as task_list is kept, it is an ascending ring, and the thread that *)
(* appends still knows its end.                                             *)
Kept == ~raced \/ \A t \in Timer : heap[t] # "freed"
TasksKept ==
    Kept => /\ Joined(task_list, Listed) /\ Ascending(task_list, Listed)
            /\ \A th \in Thread : pc[th] = "append" => saved[th] = task_list[Root].prev

EventsKept == ~raced => Joined(event_subsc_list, Linked)

(* Before the first race every cursor stands in its list, and an iterator   *)
(* that is safe to delete at has its next entry ahead.                      *)
MainStands ==
    ~raced => /\ mainPc \in {"visit", "fired"} =>
                    cur \in Listed /\ nxt \in (Listed \ {cur}) \cup {Root}
              /\ mainPc = "remove" => nxt \in Listed \cup {Root}
Stands(th) ==
    /\ pc[th] = "walk" => pos[th] \in Linked \cup {Root}
    /\ pc[th] \in {"mark", "stamp", "add"} => pos[th] \in Linked
    /\ pc[th] = "get" => pos[th] \in Listed \cup {Root}
    /\ pc[th] = "del" => /\ pos[th] \in Listed \cup {Root}
                         /\ pos[th] # Root => saved[th] \in (Listed \ {pos[th]}) \cup {Root}
    /\ pc[th] = "remove" => saved[th] \in Listed \cup {Root}
    /\ pc[th] \in {"link", "lock", "append", "number", "open", "write"} => heap[msg[th].arg] = "live"
ThreadsStand == ~raced => \A th \in Thread : Stands(th)

Orderly == TasksKept /\ EventsKept /\ MainStands /\ ThreadsStand /\ FaultOnlyAfterRace

(***************************************************************************)
(* What is in the lists                                                    *)
(***************************************************************************)

LEMMA MembersSub == Listed \subseteq Timer /\ Linked \subseteq Timer /\ Listed \subseteq Linked
BY DEF Listed, Linked, Appending, Linking

(* A step of a thread that does not come to the place where its task enters a *)
(* list leaves what is in the lists.                                        *)
LEMMA GotoAppending ==
    ASSUME Typed, NEW th \in Thread, NEW l, pc' = [pc EXCEPT ![th] = l],
           msg' = msg \/ (msg' = [msg EXCEPT ![th] = Silence] /\ l = "idle"),
           msg[th].type = "SET" =>
               (pc[th] \in {"walk", "link", "lock", "append"} <=> l \in {"walk", "link", "lock", "append"})
    PROVE  \A t \in Timer : Appending(t)' <=> Appending(t)
<1>1. DOMAIN pc = Thread /\ DOMAIN msg = Thread /\ Silence.type # "SET"
  BY DEF Typed, TypeOK, Silence
<1>2. ASSUME NEW t \in Timer, NEW u \in Thread
      PROVE  (msg'[u] = [type |-> "SET", arg |-> t] /\ pc'[u] \in {"walk", "link", "lock", "append"})
             <=> (msg[u] = [type |-> "SET", arg |-> t] /\ pc[u] \in {"walk", "link", "lock", "append"})
  <2>1. CASE u # th
    BY <1>1, <2>1
  <2>2. CASE u = th /\ msg' = msg
    BY <1>1, <2>2
  <2>3. CASE u = th /\ msg' = [msg EXCEPT ![th] = Silence] /\ l = "idle"
    BY <1>1, <2>3
  <2> QED BY <2>1, <2>2, <2>3
<1> QED BY <1>2 DEF Appending

LEMMA GotoLinking ==
    ASSUME Typed, NEW th \in Thread, NEW l, pc' = [pc EXCEPT ![th] = l],
           msg' = msg \/ (msg' = [msg EXCEPT ![th] = Silence] /\ l = "idle"),
           msg[th].type = "SET" => (pc[th] \in {"walk", "link"} <=> l \in {"walk", "link"})
    PROVE  \A t \in Timer : Linking(t)' <=> Linking(t)
<1>1. DOMAIN pc = Thread /\ DOMAIN msg = Thread /\ Silence.type # "SET"
  BY DEF Typed, TypeOK, Silence
<1>2. ASSUME NEW t \in Timer, NEW u \in Thread
      PROVE  (msg'[u] = [type |-> "SET", arg |-> t] /\ pc'[u] \in {"walk", "link"})
             <=> (msg[u] = [type |-> "SET", arg |-> t] /\ pc[u] \in {"walk", "link"})
  <2>1. CASE u # th
    BY <1>1, <2>1
  <2>2. CASE u = th /\ msg' = msg
    BY <1>1, <2>2
  <2>3. CASE u = th /\ msg' = [msg EXCEPT ![th] = Silence] /\ l = "idle"
    BY <1>1, <2>3
  <2> QED BY <2>1, <2>2, <2>3
<1> QED BY <1>2 DEF Linking

(* A ring is followed from one of its tasks to the next, or to Root.       *)
LEMMA RingNext ==
    ASSUME NEW list, NEW in, Joined(list, in), NEW p \in in \cup {Root}
    PROVE  list[p].next \in in \cup {Root} /\ list[p].prev \in in \cup {Root}
BY DEF Joined

(* A task of an ascending ring is not followed by itself.                  *)
LEMMA RingAhead ==
    ASSUME Typed, NEW list, NEW in \in SUBSET Timer, Joined(list, in), Ascending(list, in),
           NEW p \in in
    PROVE  list[p].next \in (in \ {p}) \cup {Root}
<1>1. Rank(p) \in Nat /\ p \in Timer
  BY RankType
<1>2. list[p].next # p
  BY <1>1 DEF Ascending
<1> QED BY <1>2, RingNext

(* Deleting one of the tasks.                                              *)
LEMMA DeleteKept ==
    ASSUME Typed, ~raced, TasksKept, EventsKept, NEW t \in Listed, DeleteTask(t),
           \A v \in Timer : (Appending(v)' <=> Appending(v)) /\ (Linking(v)' <=> Linking(v)),
           \A v \in Timer : Rank(v)' = Rank(v),
           \A th \in Thread : pc'[th] # "append"
    PROVE  Listed' = Listed \ {t} /\ TasksKept' /\ EventsKept'
<1>1. /\ Joined(task_list, Listed) /\ Ascending(task_list, Listed)
      /\ Joined(event_subsc_list, Linked)
  BY DEF TasksKept, EventsKept, Kept
<1>2. /\ task_list' = Del(task_list, t) /\ event_subsc_list' = Del(event_subsc_list, t)
      /\ heap' = [heap EXCEPT ![t] = "freed"] /\ DOMAIN heap = Timer
      /\ task_list \in Lists /\ event_subsc_list \in Lists
  BY DEF DeleteTask, Typed, TypeOK
<1>3. Listed' = Listed \ {t} /\ Linked' = Linked \ {t}
  BY <1>2 DEF Listed, Linked
<1>m. Listed \in SUBSET Timer /\ Linked \in SUBSET Timer /\ t \in Linked
  BY MembersSub
<1>4. Joined(task_list', Listed') /\ Joined(event_subsc_list', Linked')
  BY <1>1, <1>2, <1>3, <1>m, DelJoined
<1>5. Ascending(task_list, Listed)'
  <2>1. Ascending(Del(task_list, t), Listed \ {t})
    BY <1>1, <1>2, <1>m, DelAscending
  <2> QED BY <1>2, <1>3, <1>m, <2>1 DEF Ascending
<1>6. TasksKept' /\ EventsKept'
  BY <1>4, <1>5 DEF TasksKept, EventsKept
<1> QED BY <1>3, <1>6

(***************************************************************************)
(* The main thread                                                         *)
(***************************************************************************)

LEMMA AdvanceStands ==
    ASSUME Typed, Advance, TasksKept, ~raced, nxt \in Listed \cup {Root}
    PROVE  /\ mainPc' \in {"sleep", "visit"}
           /\ mainPc' = "visit" => cur' \in Listed /\ nxt' \in (Listed \ {cur'}) \cup {Root}
<1>1. CASE nxt = Root
  BY <1>1 DEF Advance
<1>2. CASE nxt \in Listed
  <2>1. mainPc' = "visit" /\ cur' = nxt /\ nxt' = task_list[nxt].next
    BY <1>2, MembersSub, Elements DEF Advance
  <2>2. task_list[nxt].next \in (Listed \ {nxt}) \cup {Root}
    BY <1>2, RingAhead, MembersSub DEF TasksKept, Kept
  <2> QED BY <1>2, <2>1, <2>2
<1> QED BY <1>1, <1>2

LEMMA MainOrderly ==
    ASSUME Typed, Orderly, MainStep, proc' = "up"
    PROVE  Orderly'
<1> USE DEF listVars, fieldVars, countVars, threadVars
<1>t. FaultOnlyAfterRace'
  BY DEF FaultOnlyAfterRace
<1>k. ASSUME UNCHANGED <<id, task_count, pc, msg>>
      PROVE  \A t \in Timer : /\ Rank(t)' = Rank(t)
                             /\ (Appending(t)' <=> Appending(t)) /\ (Linking(t)' <=> Linking(t))
  BY <1>k DEF Rank, Appending, Linking
<1>1. CASE MainWake \/ MainSkip \/ MainFire \/ MainRearm \/ MainRemove
  <2>1. UNCHANGED <<task_list, event_subsc_list, heap, id, task_count, pc, msg, pos, saved, raced>>
    BY <1>1 DEF MainWake, MainSkip, MainFire, MainRearm, MainRemove
  <2>2. Listed' = Listed /\ Linked' = Linked
    BY <1>k, <2>1 DEF Listed, Linked
  <2>3. TasksKept' /\ EventsKept' /\ ThreadsStand'
    <3>1. EventsKept' /\ ThreadsStand'
      BY <2>1, <2>2 DEF Orderly, EventsKept, ThreadsStand, Stands
    <3>2. Ascending(task_list, Listed) => Ascending(task_list, Listed)'
      BY <1>k, <2>1, <2>2, MembersSub DEF Ascending
    <3> QED BY <2>1, <2>2, <3>1, <3>2 DEF Orderly, TasksKept, Kept
  <2>4. MainStands'
    <3> SUFFICES ASSUME ~raced
                 PROVE  /\ mainPc' \in {"visit", "fired"} =>
                              cur' \in Listed /\ nxt' \in (Listed \ {cur'}) \cup {Root}
                        /\ mainPc' = "remove" => nxt' \in Listed \cup {Root}
      BY <2>1, <2>2 DEF MainStands
    <3>1. CASE MainWake
      <4>1. /\ mainPc' = "visit" /\ cur' = task_list[Root].next /\ cur' # Root
            /\ nxt' = task_list[cur'].next
        BY <3>1 DEF MainWake
      <4>2. Joined(task_list, Listed) /\ Ascending(task_list, Listed)
        BY DEF Orderly, TasksKept, Kept
      <4>3. cur' \in Listed
        BY <4>1, <4>2, RingNext
      <4> QED BY <4>1, <4>2, <4>3, RingAhead, MembersSub
    <3>2. CASE MainFire
      BY <3>2 DEF MainFire, Visiting, Orderly, MainStands
    <3>3. CASE MainSkip \/ MainRearm \/ MainRemove
      <4>1. nxt \in Listed \cup {Root} /\ Advance
        BY <3>3 DEF MainSkip, MainRearm, MainRemove, Visiting, Orderly, MainStands
      <4> QED BY <4>1, AdvanceStands DEF Orderly
    <3> QED BY <1>1, <3>1, <3>2, <3>3
  <2> QED BY <1>t, <2>3, <2>4 DEF Orderly
<1>2. CASE MainDelete
  <2>1. /\ UNCHANGED <<id, task_count, pc, msg, pos, saved, nxt>> /\ mainPc = "fired"
        /\ mainPc' = "remove" /\ cur \in Timer /\ DeleteTask(cur)
        /\ raced' = (raced \/ \E th \in Thread : pc[th] # "idle")
    BY <1>2 DEF MainDelete, Typed, Cursors
  <2>2. CASE raced'
    <3>1. ~Kept'
      BY <2>1, <2>2 DEF Kept, DeleteTask, Typed, TypeOK
    <3> QED BY <1>t, <2>2, <3>1 DEF Orderly, TasksKept, EventsKept, ThreadsStand, MainStands
  <2>3. CASE ~raced'
    <3>1. /\ cur \in Listed /\ nxt \in (Listed \ {cur}) \cup {Root} /\ ~raced
          /\ \A th \in Thread : pc[th] = "idle"
      BY <2>1, <2>3 DEF Orderly, MainStands
    <3>2. Listed' = Listed \ {cur} /\ TasksKept' /\ EventsKept'
      BY <1>k, <2>1, <3>1, DeleteKept DEF Orderly
    <3>3. MainStands' /\ ThreadsStand'
      BY <2>1, <3>1, <3>2 DEF MainStands, ThreadsStand, Stands
    <3> QED BY <1>t, <3>2, <3>3 DEF Orderly
  <2> QED BY <2>2, <2>3
<1>3. CASE MainFault
  BY <1>3 DEF MainFault, End
<1> QED BY <1>1, <1>2, <1>3 DEF MainStep

(***************************************************************************)
(* The mosquitto threads                                                   *)
(***************************************************************************)

(* What a step of one thread leaves to another: the lists only grow.        *)
LEMMA OthersStand ==
    ASSUME Typed, NEW th \in Thread, NEW l, NEW p, NEW q, Goto(th, l, p, q),
           \A u \in Thread \ {th} : msg'[u] = msg[u],
           Listed \subseteq Listed', Linked \subseteq Linked',
           \A t \in Timer : heap[t] = "live" => heap'[t] = "live",
           NEW u \in Thread \ {th}, Stands(u)
    PROVE  Stands(u)'
<1>1. pc'[u] = pc[u] /\ pos'[u] = pos[u] /\ saved'[u] = saved[u] /\ msg'[u] = msg[u]
  BY DEF Typed, TypeOK, Goto
<1>2. pc[u] \in {"link", "lock", "append", "number", "open", "write"} => msg[u].arg \in Timer
  BY MessageTypes DEF Typed, TypeOK, Cursors
<1> QED BY <1>1, <1>2 DEF Stands

(* A step of a thread that changes no list.                                *)
LEMMA GotoOrderly ==
    ASSUME Typed, Orderly, proc' = "up", NEW th \in Thread,
           NEW l, NEW p, NEW q, Goto(th, l, p, q), pc[th] # "number", l # "number",
           \A u \in Thread \ {th} : msg'[u] = msg[u],
           UNCHANGED <<task_list, event_subsc_list, id, task_count, raced, mainPc, cur, nxt>>,
           Listed' = Listed, Linked' = Linked, Kept' => Kept,
           \A t \in Timer : heap[t] = "live" => heap'[t] = "live",
           l = "append" => q = task_list[Root].prev,
           ~raced => Stands(th)'
    PROVE  Orderly'
<1>1. /\ DOMAIN pc = Thread /\ DOMAIN saved = Thread
      /\ pc' = [pc EXCEPT ![th] = l] /\ saved' = [saved EXCEPT ![th] = q]
  BY DEF Typed, TypeOK, Goto
<1>2. MainStands' /\ EventsKept'
  BY DEF Orderly, MainStands, EventsKept
<1>3. ThreadsStand'
  BY OthersStand DEF Orderly, ThreadsStand
<1>4. TasksKept'
  <2>1. Kept' => \A u \in Thread : pc'[u] = "append" => saved'[u] = task_list[Root].prev
    BY <1>1 DEF Orderly, TasksKept
  <2>2. \A t \in Timer : Rank(t)' = Rank(t)
    BY <1>1, RankFrame
  <2>3. Ascending(task_list, Listed) => Ascending(task_list, Listed)'
    BY <2>2, MembersSub DEF Ascending
  <2> QED BY <2>1, <2>3 DEF Orderly, TasksKept
<1> QED BY <1>2, <1>3, <1>4 DEF Orderly, FaultOnlyAfterRace

(* The same when memory, and the place of the task in the lists, stay.     *)
LEMMA WalkOrderly ==
    ASSUME Typed, Orderly, proc' = "up", NEW th \in Thread, pc[th] # "number",
           NEW l, l \notin {"append", "number"}, NEW p, NEW q, Goto(th, l, p, q),
           msg' = msg \/ (msg' = [msg EXCEPT ![th] = Silence] /\ l = "idle"),
           UNCHANGED <<task_list, event_subsc_list, heap, id, task_count, raced, mainPc, cur, nxt>>,
           msg[th].type = "SET" =>
               /\ pc[th] \in {"walk", "link", "lock", "append"} <=> l \in {"walk", "link", "lock", "append"}
               /\ pc[th] \in {"walk", "link"} <=> l \in {"walk", "link"},
           ~raced => Stands(th)'
    PROVE  Orderly'
<1>1. pc' = [pc EXCEPT ![th] = l] /\ \A u \in Thread \ {th} : msg'[u] = msg[u]
  BY DEF Goto, Typed, TypeOK
<1>2. Listed' = Listed
  BY <1>1, GotoAppending DEF Listed
<1>3. Linked' = Linked
  BY <1>1, GotoLinking DEF Linked
<1>4. Kept' => Kept
  BY DEF Kept
<1> QED BY <1>1, <1>2, <1>3, <1>4, GotoOrderly

(* Messages that change no list.                                           *)
LEMMA EventOrderly ==
    ASSUME Typed, Orderly, proc' = "up", NEW th \in Thread,
           WalkStep(th) \/ GetStep(th) \/ DelStart(th) \/ DelDone(th) \/ SetOpen(th) \/ SetWrite(th)
    PROVE  Orderly'
<1> USE DEF Step, Return, At, listVars, fieldVars, countVars, mainVars
<1>d. /\ DOMAIN pc = Thread /\ DOMAIN pos = Thread /\ DOMAIN saved = Thread
      /\ DOMAIN msg = Thread /\ Listed \subseteq Timer /\ Linked \subseteq Timer
  BY MembersSub DEF Typed, TypeOK
<1>j. ~raced => /\ Joined(task_list, Listed) /\ Joined(event_subsc_list, Linked)
                /\ Ascending(task_list, Listed) /\ Stands(th)
  BY DEF Orderly, TasksKept, EventsKept, Kept, ThreadsStand
<1>n. ~raced => /\ \A p \in Listed \cup {Root} : task_list[p].next \in Listed \cup {Root}
                /\ \A p \in Linked \cup {Root} : event_subsc_list[p].next \in Linked \cup {Root}
  BY <1>j, RingNext
<1>l. ASSUME NEW l, NEW p, NEW q, Goto(th, l, p, q)
      PROVE  pc'[th] = l /\ pos'[th] = p /\ saved'[th] = q
  BY <1>d, <1>l DEF Goto
<1>a. ASSUME heap' = heap, pc' = [pc EXCEPT ![th] = pc'[th]], msg' = msg,
             msg[th].type = "SET" =>
               /\ pc[th] \in {"walk", "link", "lock", "append"} <=> pc'[th] \in {"walk", "link", "lock", "append"}
               /\ pc[th] \in {"walk", "link"} <=> pc'[th] \in {"walk", "link"}
      PROVE  Listed' = Listed /\ Linked' = Linked
  BY <1>a, GotoAppending, GotoLinking DEF Listed, Linked
<1>1. CASE WalkPast(th)
  <2>1. ~raced => Stands(th)'
    BY <1>1, <1>d, <1>j, <1>n, <1>l, <1>a DEF WalkPast, Walking, Stands, Goto
  <2> QED BY <1>1, <2>1, WalkOrderly DEF WalkPast, Walking
<1>2. CASE Activate(th) \/ Mark(th) \/ Stamp(th)
  <2>1. msg[th].type = "ON"
    BY <1>2 DEF Activate, Mark, Stamp, Matches, Typed, Cursors
  <2>2. Listed' = Listed /\ Linked' = Linked
    BY <1>2, <2>1, <1>d, <1>a DEF Activate, Mark, Stamp, Goto
  <2>3. ~raced => pos[th] \in Linked /\ pos'[th] = pos[th] /\ pc'[th] \in {"mark", "stamp", "add"}
    BY <1>2, <1>d, <1>j, Elements DEF Activate, Mark, Stamp, Walking, Stands, Goto
  <2>4. ~raced => Stands(th)'
    BY <2>2, <2>3 DEF Stands
  <2> QED BY <1>2, <2>1, <2>4, WalkOrderly DEF Activate, Mark, Stamp, Walking
<1>3. CASE AddInterval(th)
  <2>1. msg[th].type = "ON"
    BY <1>3 DEF AddInterval, Typed, Cursors
  <2>2. ~raced => Stands(th)'
    BY <1>3, <2>1, <1>d, <1>j, <1>n, <1>l, <1>a DEF AddInterval, Stands, Goto
  <2> QED BY <1>3, <2>1, <2>2, WalkOrderly DEF AddInterval
<1>4. CASE EventDone(th) \/ GetDone(th) \/ DelDone(th) \/ SetWrite(th)
  <2>1. msg[th].type # "SET" \/ pc[th] = "write"
    BY <1>4 DEF EventDone, GetDone, DelDone, SetWrite, Typed, Cursors
  <2>2. ~raced => Stands(th)'
    BY <1>4, <1>d DEF EventDone, GetDone, DelDone, SetWrite, Stands, Goto
  <2> QED BY <1>4, <2>1, <2>2, WalkOrderly DEF EventDone, GetDone, DelDone, SetWrite
<1>5. CASE SetOpen(th)
  <2>1. ~raced => Stands(th)'
    BY <1>5, <1>d, <1>j DEF SetOpen, Stands, Goto
  <2> QED BY <1>5, <2>1, WalkOrderly DEF SetOpen
<1>6. CASE GetStart(th) \/ GetNext(th)
  <2>1. msg[th].type = "GET"
    BY <1>6 DEF GetStart, GetNext, Typed, Cursors
  <2>2. ~raced => Stands(th)'
    BY <1>6, <2>1, <1>d, <1>j, <1>n, <1>l, <1>a DEF GetStart, GetNext, Stands, Goto
  <2> QED BY <1>6, <2>1, <2>2, WalkOrderly DEF GetStart, GetNext
<1>7. CASE DelStart(th)
  <2>1. msg[th].type = "DEL"
    BY <1>7 DEF DelStart
  <2>2. ~raced => Stands(th)'
    <3> SUFFICES ASSUME ~raced PROVE Stands(th)'
      OBVIOUS
    <3>1. /\ pc'[th] = "del" /\ pos'[th] = task_list[Root].next
          /\ saved'[th] = Following(task_list, pos'[th])
      BY <1>7, <1>d DEF DelStart, Goto
    <3>2. pos'[th] \in Listed \cup {Root}
      BY <1>n, <3>1
    <3>3. pos'[th] # Root => saved'[th] \in (Listed \ {pos'[th]}) \cup {Root}
      BY <1>d, <1>j, <3>1, <3>2, RingAhead, Elements DEF Following
    <3>4. Listed' = Listed
      BY <1>7, <2>1, <1>d, <1>a DEF DelStart, Goto
    <3> QED BY <3>1, <3>2, <3>3, <3>4 DEF Stands
  <2> QED BY <1>7, <2>1, <2>2, WalkOrderly DEF DelStart
<1> QED BY <1>1, <1>2, <1>3, <1>4, <1>5, <1>6, <1>7 DEF WalkStep, GetStep

(* A message comes in.                                                     *)
LEMMA ReceiveOrderly ==
    ASSUME Typed, Orderly, NEW th \in Thread, Receive(th)
    PROVE  Orderly'
<1> USE DEF At, listVars, fieldVars, countVars, mainVars
<1>1. PICK m \in Message : Sendable(m) /\ msg' = [msg EXCEPT ![th] = m]
  BY DEF Receive
<1>2. /\ pc[th] = "idle" /\ Goto(th, "walk", event_subsc_list[Root].next, Root) /\ proc' = "up"
      /\ UNCHANGED <<task_list, event_subsc_list, heap, id, task_count, raced, mainPc, cur, nxt>>
  BY DEF Receive
<1>3. /\ pc' = [pc EXCEPT ![th] = "walk"] /\ pos'[th] = event_subsc_list[Root].next
      /\ DOMAIN pc = Thread /\ DOMAIN msg = Thread
  BY <1>2 DEF Goto, Typed, TypeOK
<1>4. m.type = "SET" => heap[m.arg] = "none"
  BY <1>1 DEF Sendable
<1>5. Listed' = Listed /\ Linked' = Linked
  <2>1. ASSUME NEW t \in Timer, heap[t] = "live"
        PROVE  (Appending(t)' <=> Appending(t)) /\ (Linking(t)' <=> Linking(t))
    <3>1. msg'[th] # [type |-> "SET", arg |-> t]
      BY <1>1, <1>3, <1>4, <2>1
    <3>2. \A u \in Thread \ {th} : msg'[u] = msg[u] /\ pc'[u] = pc[u]
      BY <1>1, <1>3
    <3> QED BY <1>2, <3>1, <3>2 DEF Appending, Linking
  <2> QED BY <1>2, <2>1 DEF Listed, Linked
<1>6. ~raced => Stands(th)'
  <2>1. ~raced => event_subsc_list[Root].next \in Linked \cup {Root}
    BY RingNext DEF Orderly, EventsKept
  <2> QED BY <1>3, <1>5, <2>1 DEF Stands
<1>7. (Kept' => Kept) /\ \A u \in Thread \ {th} : msg'[u] = msg[u]
  BY <1>1, <1>2, <1>3 DEF Kept
<1> QED BY <1>2, <1>5, <1>6, <1>7, GotoOrderly

(* A task comes into the lists.                                            *)
LEMMA SetOrderly ==
    ASSUME Typed, Traced, Locked, Numbered, Orderly, proc' = "up", NEW th \in Thread,
           SetSubscribe(th) \/ SetLink(th) \/ SetLock(th) \/ SetAppend(th) \/ SetNumber(th)
    PROVE  Orderly'
<1> DEFINE x == msg[th].arg
<1> USE DEF Step, At, listVars, fieldVars, countVars, mainVars
<1>d. /\ DOMAIN pc = Thread /\ DOMAIN pos = Thread /\ DOMAIN saved = Thread
      /\ DOMAIN msg = Thread /\ DOMAIN heap = Timer
      /\ Listed \in SUBSET Timer /\ Linked \in SUBSET Timer
  BY MembersSub DEF Typed, TypeOK
<1>l. ASSUME NEW l, NEW p, NEW q, Goto(th, l, p, q)
      PROVE  /\ pc' = [pc EXCEPT ![th] = l]
             /\ pc'[th] = l /\ pos'[th] = p /\ saved'[th] = q
             /\ \A u \in Thread \ {th} : pc'[u] = pc[u] /\ saved'[u] = saved[u]
  BY <1>d, <1>l DEF Goto
<1>x. /\ msg' = msg /\ msg[th].type = "SET" /\ x \in Timer
      /\ msg[th] = [type |-> "SET", arg |-> x]
      /\ \A u \in Thread : msg[u] = [type |-> "SET", arg |-> x] => u = th
  <2>1. msg' = msg /\ msg[th].type = "SET" /\ msg[th] \in Message
    BY DEF SetSubscribe, SetLink, SetLock, SetAppend, SetNumber, Typed, TypeOK, Cursors
  <2>2. x \in Timer /\ msg[th] = [type |-> "SET", arg |-> x]
    BY <2>1, MessageTypes
  <2> QED BY <2>1, <2>2 DEF Traced, Requests
<1>s. ~raced => Stands(th)
  BY DEF Orderly, ThreadsStand
<1>1. CASE SetSubscribe(th)
  <2>1. /\ Goto(th, "link", Root, event_subsc_list[Root].prev) /\ heap[x] = "none"
        /\ heap' = [heap EXCEPT ![x] = "live"] /\ pc[th] = "walk"
        /\ UNCHANGED <<task_list, event_subsc_list, id, task_count, raced, mainPc, cur, nxt>>
    BY <1>1, <1>x DEF SetSubscribe, Traced, Requests
  <2>2. \A t \in Timer : (Appending(t)' <=> Appending(t)) /\ (Linking(t)' <=> Linking(t))
    BY <1>l, <1>x, <2>1, GotoAppending, GotoLinking
  <2>3. Listed' = Listed /\ Linked' = Linked
    <3>1. Appending(x) /\ Linking(x)
      BY <1>x, <2>1 DEF Appending, Linking
    <3> QED BY <1>d, <2>1, <2>2, <3>1 DEF Listed, Linked
  <2>4. (Kept' => Kept) /\ \A t \in Timer : heap[t] = "live" => heap'[t] = "live"
    BY <1>d, <2>1 DEF Kept
  <2>5. Stands(th)'
    BY <1>l, <1>x, <1>d, <2>1 DEF Stands
  <2> QED BY <1>x, <2>1, <2>3, <2>4, <2>5, GotoOrderly
<1>2. CASE SetLock(th)
  <2>1. /\ Goto(th, "append", Root, task_list[Root].prev) /\ pc[th] = "lock"
        /\ UNCHANGED <<task_list, event_subsc_list, heap, id, task_count, raced, mainPc, cur, nxt>>
    BY <1>2 DEF SetLock
  <2>2. Listed' = Listed /\ Linked' = Linked
    BY <1>l, <1>x, <2>1, GotoAppending, GotoLinking DEF Listed, Linked
  <2>3. (Kept' => Kept) /\ (~raced => Stands(th)')
    BY <1>l, <1>x, <1>s, <2>1 DEF Kept, Stands
  <2> QED BY <1>x, <2>1, <2>2, <2>3, GotoOrderly
<1>3. CASE SetLink(th)
  <2>1. /\ Goto(th, "lock", Root, Root) /\ pc[th] = "link"
        /\ event_subsc_list' = AddAfter(event_subsc_list, saved[th], x)
        /\ raced' = (raced \/ saved[th] # event_subsc_list[Root].prev)
        /\ UNCHANGED <<task_list, heap, id, task_count, mainPc, cur, nxt>>
    BY <1>3 DEF SetLink
  <2>2. Listed' = Listed
    BY <1>l, <1>x, <2>1, GotoAppending DEF Listed
  <2>3. TasksKept'
    <3>1. \A t \in Timer : Rank(t)' = Rank(t)
      BY <1>l, <1>x, <2>1, RankFrame
    <3>2. Ascending(task_list, Listed) => Ascending(task_list, Listed)'
      BY <1>d, <2>1, <2>2, <3>1 DEF Ascending
    <3>3. \A u \in Thread : pc'[u] = "append" => pc[u] = "append" /\ saved'[u] = saved[u]
      BY <1>l, <2>1
    <3> QED BY <2>1, <2>2, <3>2, <3>3 DEF Orderly, TasksKept, Kept
  <2>4. CASE raced'
    BY <2>3, <2>4 DEF Orderly, EventsKept, MainStands, ThreadsStand, FaultOnlyAfterRace
  <2>5. CASE ~raced'
    <3>1. saved[th] = event_subsc_list[Root].prev /\ Joined(event_subsc_list, Linked)
          /\ event_subsc_list \in Lists /\ ~raced
      BY <2>1, <2>5 DEF Orderly, EventsKept, Typed, TypeOK
    <3>2. x \notin Linked
      BY <1>x, <2>1 DEF Linked, Linking
    <3>3. Joined(event_subsc_list', Linked \cup {x})
      BY <1>d, <1>x, <2>1, <3>1, <3>2, AddJoined
    <3>4. Linked' = Linked \cup {x}
      <4>1. heap[x] = "live"
        BY <1>s, <2>1, <3>1 DEF Stands
      <4>2. ~Linking(x)'
        BY <1>l, <1>x, <2>1 DEF Linking
      <4>3. \A t \in Timer \ {x} : Linking(t)' <=> Linking(t)
        <5>1. \A t \in Timer \ {x} : msg[th] # [type |-> "SET", arg |-> t]
          BY <1>x
        <5> QED BY <1>l, <1>x, <2>1, <5>1 DEF Linking
      <4> QED BY <1>x, <2>1, <4>1, <4>2, <4>3 DEF Linked
    <3>5. EventsKept'
      BY <3>3, <3>4 DEF EventsKept
    <3>6. MainStands'
      BY <2>1, <2>2, <3>1 DEF Orderly, MainStands
    <3>7. Stands(th)'
      BY <1>l, <1>x, <1>s, <2>1, <3>1 DEF Stands
    <3>8. ThreadsStand'
      BY <1>x, <2>1, <2>2, <3>1, <3>4, <3>7, OthersStand DEF Orderly, ThreadsStand
    <3> QED BY <2>3, <3>5, <3>6, <3>8 DEF Orderly, FaultOnlyAfterRace
  <2> QED BY <2>4, <2>5
<1>4. CASE SetAppend(th)
  <2>1. /\ Goto(th, "number", Root, Root) /\ pc[th] = "append"
        /\ task_list' = AddAfter(task_list, saved[th], x)
        /\ UNCHANGED <<event_subsc_list, heap, id, task_count, raced, mainPc, cur, nxt>>
    BY <1>4 DEF SetAppend
  <2>2. Linked' = Linked
    BY <1>l, <1>x, <2>1, GotoLinking DEF Linked
  <2>3. \A u \in Thread \ {th} : pc[u] \notin {"append", "number"}
    BY <2>1 DEF Locked
  <2>4. x \notin Listed
    BY <1>x, <2>1 DEF Listed, Appending
  <2>5. Listed' = IF heap[x] = "live" THEN Listed \cup {x} ELSE Listed
    <3>1. ~Appending(x)'
      BY <1>l, <1>x, <2>1 DEF Appending
    <3>2. \A t \in Timer \ {x} : Appending(t)' <=> Appending(t)
      <4>1. \A t \in Timer \ {x} : msg[th] # [type |-> "SET", arg |-> t]
        BY <1>x
      <4> QED BY <1>l, <1>x, <2>1, <4>1 DEF Appending
    <3> QED BY <1>x, <2>1, <2>4, <3>1, <3>2 DEF Listed
  <2>6. TasksKept'
    <3> SUFFICES ASSUME Kept PROVE TasksKept'
      BY <2>1 DEF TasksKept, Kept
    <3>1. /\ saved[th] = task_list[Root].prev /\ Joined(task_list, Listed)
          /\ Ascending(task_list, Listed) /\ task_list \in Lists
      BY <2>1 DEF Orderly, TasksKept, Typed, TypeOK
    <3>2. Joined(task_list', Listed \cup {x})
      BY <1>d, <1>x, <2>1, <2>4, <3>1, AddJoined
    <3>3. Listed' = Listed \cup {x}
      <4>1. heap[x] # "none" /\ heap[x] \in {"none", "live", "freed"}
        BY <1>x, <2>1 DEF Traced, Requests, Typed, TypeOK
      <4>2. heap[x] = "live"
        BY <1>x, <1>s, <2>1, <4>1 DEF Kept, Stands
      <4> QED BY <2>5, <4>2
    <3>4. Ascending(task_list, Listed)'
      <4>1. \A t \in Timer : id[t] \in Nat /\ id[t] <= task_count /\ task_count \in Nat
        BY NumberAssumption DEF Numbered, Typed, TypeOK
      <4>2. \A t \in Timer : /\ Rank(t) = id[t]
                            /\ Rank(t)' = IF t = x THEN task_count + 1 ELSE id[t]
        <5>1. \A u \in Thread : pc[u] # "number" /\ (pc'[u] = "number" <=> u = th)
          BY <1>l, <2>1, <2>3
        <5> QED BY <1>x, <2>1, <5>1 DEF Rank
      <4>3. /\ task_list'[x].next = Root
            /\ \A p \in Listed : task_list'[p].next \in {x, task_list[p].next}
        BY <1>d, <1>x, <2>1, <2>4, <3>1, Elements DEF AddAfter, Lists, Joined
      <4>4. ASSUME NEW p \in Listed, NEW y \in Timer, y = task_list'[p].next
            PROVE  Rank(p)' < Rank(y)'
        <5>p. p \in Timer /\ p # x
          BY <1>d, <2>4
        <5>1. CASE y = x
          BY <4>1, <4>2, <5>p, <5>1
        <5>2. CASE y = task_list[p].next /\ y # x
          <6>1. Rank(p) < Rank(y)
            BY <3>1, <4>4, <5>2 DEF Ascending
          <6> QED BY <4>2, <5>p, <5>2, <6>1
        <5> QED BY <4>3, <4>4, <5>1, <5>2
      <4> QED BY <3>3, <4>3, <4>4, Elements DEF Ascending
    <3>5. \A u \in Thread : pc'[u] # "append"
      BY <1>l, <2>1, <2>3
    <3> QED BY <3>2, <3>3, <3>4, <3>5 DEF TasksKept
  <2>7. Listed \subseteq Listed' /\ (~raced => Stands(th)')
    BY <1>l, <1>x, <1>s, <2>1, <2>5 DEF Stands
  <2>8. ThreadsStand'
    BY <1>x, <2>1, <2>2, <2>7, OthersStand DEF Orderly, ThreadsStand
  <2>9. MainStands' /\ EventsKept'
    BY <2>1, <2>2, <2>7 DEF Orderly, MainStands, EventsKept
  <2> QED BY <2>6, <2>8, <2>9 DEF Orderly, FaultOnlyAfterRace
<1>5. CASE SetNumber(th)
  <2>1. /\ Goto(th, "open", Root, Root) /\ pc[th] = "number"
        /\ id' = [id EXCEPT ![x] = task_count + 1]
        /\ UNCHANGED <<task_list, event_subsc_list, heap, raced, mainPc, cur, nxt>>
    BY <1>5 DEF SetNumber, Numbered
  <2>2. Linked' = Linked /\ Listed' = Listed
    BY <1>l, <1>x, <2>1, GotoLinking, GotoAppending DEF Linked, Listed
  <2>3. \A u \in Thread \ {th} : pc[u] \notin {"append", "number"}
    BY <2>1 DEF Locked
  <2>4. \A t \in Timer : Rank(t)' = Rank(t)
    <3>1. \A u \in Thread : pc'[u] # "number" /\ (pc[u] = "number" <=> u = th)
      BY <1>l, <2>1, <2>3
    <3>2. \A t \in Timer : id'[t] = IF t = x THEN task_count + 1 ELSE id[t]
      BY <1>x, <2>1 DEF Typed, TypeOK
    <3> QED BY <3>1, <3>2 DEF Rank
  <2>5. TasksKept'
    <3>1. Ascending(task_list, Listed) => Ascending(task_list, Listed)'
      BY <1>d, <2>1, <2>2, <2>4 DEF Ascending
    <3>2. \A u \in Thread : pc'[u] # "append"
      BY <1>l, <2>1, <2>3
    <3> QED BY <2>1, <2>2, <3>1, <3>2 DEF Orderly, TasksKept, Kept
  <2>6. ~raced => Stands(th)'
    BY <1>l, <1>x, <1>s, <2>1 DEF Stands
  <2>7. ThreadsStand'
    BY <1>x, <2>1, <2>2, <2>6, OthersStand DEF Orderly, ThreadsStand
  <2>8. MainStands' /\ EventsKept'
    BY <2>1, <2>2 DEF Orderly, MainStands, EventsKept
  <2> QED BY <2>5, <2>7, <2>8 DEF Orderly, FaultOnlyAfterRace
<1> QED BY <1>1, <1>2, <1>3, <1>4, <1>5

(* A task leaves the lists, and then its file is removed.                  *)
LEMMA DelOrderly ==
    ASSUME Typed, Orderly, proc' = "up", NEW th \in Thread, DelTask(th) \/ DelRemove(th)
    PROVE  Orderly'
<1> USE DEF Step, At, listVars, fieldVars, countVars, mainVars
<1>d. DOMAIN pc = Thread /\ DOMAIN pos = Thread /\ DOMAIN saved = Thread
  BY DEF Typed, TypeOK
<1>l. ASSUME NEW l, NEW p, NEW q, Goto(th, l, p, q)
      PROVE  /\ pc' = [pc EXCEPT ![th] = l]
             /\ pc'[th] = l /\ pos'[th] = p /\ saved'[th] = q
             /\ \A u \in Thread \ {th} : pc'[u] = pc[u]
  BY <1>d, <1>l DEF Goto
<1>m. msg' = msg /\ msg[th].type = "DEL"
  BY DEF DelTask, DelRemove, Typed, Cursors
<1>1. CASE DelTask(th)
  <2>1. /\ Goto(th, "remove", pos[th], saved[th]) /\ pc[th] = "del" /\ pos[th] \in Timer
        /\ DeleteTask(pos[th])
        /\ raced' = (raced \/ mainPc # "sleep" \/ \E u \in Thread \ {th} : pc[u] # "idle")
        /\ UNCHANGED <<id, task_count, mainPc, cur, nxt>>
    BY <1>1 DEF DelTask
  <2>2. CASE raced'
    <3>1. ~Kept'
      BY <2>1, <2>2 DEF Kept, DeleteTask, Typed, TypeOK
    <3> QED BY <2>2, <3>1 DEF Orderly, TasksKept, EventsKept, MainStands, ThreadsStand,
            FaultOnlyAfterRace
  <2>3. CASE ~raced'
    <3>1. ~raced /\ mainPc' = "sleep" /\ \A u \in Thread \ {th} : pc'[u] = "idle"
      BY <1>l, <2>1, <2>3
    <3>2. /\ pos[th] \in Listed /\ saved[th] \in (Listed \ {pos[th]}) \cup {Root}
      BY <2>1, <3>1, Elements DEF Orderly, ThreadsStand, Stands
    <3>3. \A v \in Timer : /\ (Appending(v)' <=> Appending(v)) /\ (Linking(v)' <=> Linking(v))
                          /\ Rank(v)' = Rank(v)
      BY <1>l, <1>m, <2>1, GotoAppending, GotoLinking, RankFrame
    <3>4. \A u \in Thread : pc'[u] # "append"
      BY <1>l, <2>1, <3>1
    <3>5. Listed' = Listed \ {pos[th]} /\ TasksKept' /\ EventsKept'
      BY <2>1, <3>1, <3>2, <3>3, <3>4, DeleteKept DEF Orderly
    <3>6. ThreadsStand' /\ MainStands'
      BY <1>l, <2>1, <3>1, <3>2, <3>5 DEF ThreadsStand, Stands, MainStands
    <3> QED BY <3>5, <3>6 DEF Orderly, FaultOnlyAfterRace
  <2> QED BY <2>2, <2>3
<1>2. CASE DelRemove(th)
  <2>1. /\ Goto(th, "del", saved[th], Following(task_list, saved[th])) /\ pc[th] = "remove"
        /\ UNCHANGED <<task_list, event_subsc_list, heap, id, task_count, raced, mainPc, cur, nxt>>
    BY <1>2 DEF DelRemove
  <2>2. ~raced => Stands(th)'
    <3> SUFFICES ASSUME ~raced PROVE Stands(th)'
      OBVIOUS
    <3>1. saved[th] \in Listed \cup {Root} /\ Joined(task_list, Listed) /\ Ascending(task_list, Listed)
      BY <2>1 DEF Orderly, ThreadsStand, Stands, TasksKept, Kept
    <3>2. saved[th] # Root => Following(task_list, saved[th]) \in (Listed \ {saved[th]}) \cup {Root}
      BY <3>1, RingAhead, MembersSub, Elements DEF Following
    <3>3. Listed' = Listed
      BY <1>l, <1>m, <2>1, GotoAppending DEF Listed
    <3> QED BY <1>l, <2>1, <3>1, <3>2, <3>3 DEF Stands
  <2> QED BY <1>m, <2>1, <2>2, WalkOrderly
<1> QED BY <1>1, <1>2

(***************************************************************************)
(* All steps                                                               *)
(***************************************************************************)

LEMMA StartOrderly == Typed /\ Traced /\ Filed /\ Start => Orderly'
<1> SUFFICES ASSUME Typed, Traced, Filed, Start PROVE Orderly'
  OBVIOUS
<1>1. PICK n \in 0..MaxId : \E order \in [1..n -> Id] : FromDisk(n, order)
  BY LoadSpec DEF Start, Typed
<1>2. PICK order \in [1..n -> Id] : FromDisk(n, order)
  BY <1>1
<1> DEFINE loaded == [i \in 1..n |-> files[order[i]]]
<1>r. Reset /\ UNCHANGED <<mainPc, pc, msg>> /\ proc' = "up"
  BY DEF Start, Traced, Afresh, mainVars, threadVars
<1>3. /\ n \in Nat /\ loaded \in [1..n -> Timer] /\ Len(loaded) = n
      /\ heap' = [t \in Timer |-> IF t \in Saved THEN "live" ELSE "none"]
      /\ task_list' = ListOf(loaded) /\ event_subsc_list' = ListOf(loaded)
  BY <1>2, NumberAssumption DEF FromDisk
<1>s. \A t \in Saved : id'[t] \in 1..n /\ loaded[id'[t]] = t
  <2>1. \A t \in Timer : t \in Saved => id'[t] \in 1..n /\ loaded[id'[t]] = t
    BY <1>2 DEF FromDisk
  <2> QED BY <2>1 DEF Saved
<1>4. \A i, j \in 1..n : loaded[i] = loaded[j] => i = j
  <2> SUFFICES ASSUME NEW i \in 1..n, NEW j \in 1..n, loaded[i] = loaded[j] PROVE i = j
    OBVIOUS
  <2>1. order[i] = order[j]
    BY <1>3 DEF Filed, OneFile
  <2> QED BY <1>2, <2>1 DEF FromDisk
<1>5. {loaded[i] : i \in 1..n} = Saved
  <2>1. \A i \in 1..n : loaded[i] \in Saved
    BY <1>3 DEF Saved
  <2>2. \A t \in Saved : \E i \in 1..n : loaded[i] = t
    BY <1>s
  <2> HIDE DEF loaded
  <2> QED BY <2>1, <2>2
<1>6. \A i \in 1..n : id'[loaded[i]] = i
  <2> SUFFICES ASSUME NEW i \in 1..n PROVE id'[loaded[i]] = i
    OBVIOUS
  <2>1. loaded[i] \in Saved
    BY <1>5
  <2> HIDE DEF loaded
  <2> QED BY <1>4, <1>s, <2>1
<1>7. Listed' = Saved /\ Linked' = Saved
  BY <1>3, <1>r DEF Listed, Linked, Appending, Linking, Reset, Saved
<1> HIDE DEF loaded
<1>8. /\ Joined(ListOf(loaded), Saved)
      /\ \A i \in 1..n :
            ListOf(loaded)[loaded[i]].next = IF i + 1 \in 1..n THEN loaded[i + 1] ELSE Root
  <2>1. /\ Joined(ListOf(loaded), {loaded[i] : i \in 1..n})
        /\ \A i \in 1..n :
              ListOf(loaded)[loaded[i]].next = IF i + 1 \in 1..n THEN loaded[i + 1] ELSE Root
    BY <1>3, <1>4, ListOfJoined
  <2> QED BY <1>5, <2>1
<1>9. Ascending(task_list, Listed)'
  <2>1. ASSUME NEW t \in Saved, ListOf(loaded)[t].next \in Timer
        PROVE  id'[t] < id'[ListOf(loaded)[t].next]
    <3>1. PICK i \in 1..n : loaded[i] = t
      BY <1>s
    <3>2. i + 1 \in 1..n /\ ListOf(loaded)[t].next = loaded[i + 1]
      BY <1>8, <2>1, <3>1, Elements
    <3>3. id'[t] = i /\ id'[loaded[i + 1]] = i + 1
      BY <1>6, <3>1, <3>2
    <3> QED BY <3>1, <3>2, <3>3
  <2>2. \A t \in Timer : Rank(t)' = id'[t]
    BY <1>r DEF Rank, Reset
  <2>3. Saved \subseteq Timer
    BY DEF Saved
  <2> QED BY <1>3, <1>7, <2>1, <2>2, <2>3 DEF Ascending
<1>10. TasksKept' /\ EventsKept'
  BY <1>3, <1>7, <1>8, <1>9, <1>r DEF TasksKept, EventsKept, Reset
<1>11. MainStands' /\ ThreadsStand' /\ FaultOnlyAfterRace'
  BY <1>r DEF MainStands, ThreadsStand, Stands, FaultOnlyAfterRace, Reset
<1> QED BY <1>10, <1>11 DEF Orderly

(* Nothing is left to be in order when the process has ended, but a crash   *)
(* needs a race: before it no cursor goes astray.                          *)
LEMMA ResetOrderly ==
    ASSUME Reset, FaultOnlyAfterRace
    PROVE  Orderly
<1>1. Listed = {} /\ Linked = {}
  BY DEF Reset, Listed, Linked
<1>2. TasksKept /\ EventsKept
  BY <1>1, EmptyJoined DEF Reset, TasksKept, EventsKept, Ascending
<1> QED BY <1>2 DEF Orderly, Reset, MainStands, ThreadsStand, Stands

LEMMA NoFault ==
    ASSUME Typed, Orderly, ~raced
    PROVE  ~MainFault /\ \A th \in Thread : ~ThreadFault(th)
<1>1. Joined(task_list, Listed) /\ Joined(event_subsc_list, Linked)
  BY DEF Orderly, TasksKept, EventsKept, Kept
<1>2. \A t \in Listed : CanDelete(t)
  <2> SUFFICES ASSUME NEW t \in Listed PROVE CanDelete(t)
    OBVIOUS
  <2>1. /\ task_list[t].next \in Listed \cup {Root} /\ task_list[t].prev \in Listed \cup {Root}
        /\ event_subsc_list[t].next \in Linked \cup {Root} /\ event_subsc_list[t].prev \in Linked \cup {Root}
    BY <1>1, MembersSub, RingNext
  <2> QED BY <2>1, MembersSub, Elements DEF CanDelete, CanDel
<1>3. ~MainFault
  <2>1. mainPc \in {"visit", "fired"} => cur \in Listed
    BY DEF Orderly, MainStands
  <2> QED BY <1>2, <2>1, MembersSub, Elements DEF MainFault
<1>4. ASSUME NEW th \in Thread PROVE ~ThreadFault(th)
  <2>1. Stands(th)
    BY DEF Orderly, ThreadsStand
  <2> QED BY <1>2, <2>1, MembersSub, Elements DEF ThreadFault, Stands
<1> QED BY <1>3, <1>4

LEMMA OrderlyStep ==
    Typed /\ Typed' /\ Locked /\ Numbered /\ Traced /\ Filed /\ Orderly /\ [Next]_vars => Orderly'
<1> SUFFICES ASSUME Typed, Typed', Locked, Numbered, Traced, Filed, Orderly, [Next]_vars PROVE Orderly'
  OBVIOUS
<1>1. CASE Start
  BY <1>1, StartOrderly
<1>2. CASE Reset'
  <2>1. FaultOnlyAfterRace'
    <3>1. CASE MainFault \/ \E th \in Thread : ThreadFault(th)
      BY <3>1, NoFault DEF MainFault, ThreadFault, FaultOnlyAfterRace
    <3>2. CASE Stop
      BY <3>2 DEF Stop, End, FaultOnlyAfterRace
    <3>3. CASE proc' = "up" \/ UNCHANGED <<proc, raced>>
      BY <3>3 DEF Orderly, FaultOnlyAfterRace
    <3>4. CASE MainStep /\ ~MainFault
      BY <3>3, <3>4 DEF MainStep, MainWake, MainSkip, MainFire, MainRearm, MainDelete, MainRemove, Visiting
    <3>5. ASSUME NEW th \in Thread, Receive(th) \/ ThreadStep(th), ~ThreadFault(th)
          PROVE  proc' = "up"
      BY <3>5 DEF Receive, ThreadStep, WalkStep, SetStep, GetStep, DelStep, WalkPast, Activate,
         Mark, Stamp, AddInterval, EventDone, SetSubscribe, SetLink, SetLock, SetAppend, SetNumber,
         SetOpen, SetWrite, GetStart, GetNext, GetDone, DelStart, DelTask, DelRemove,
         DelDone, At, Walking
    <3>6. CASE Tick \/ UNCHANGED vars \/ Start
      BY <3>3, <3>6 DEF Tick, Start, vars
    <3> QED BY <3>1, <3>2, <3>3, <3>4, <3>5, <3>6 DEF Next
  <2>2. /\ Listed' = {} /\ Linked' = {}
    BY <1>2 DEF Reset, Listed, Linked
  <2>3. TasksKept' /\ EventsKept'
    BY <1>2, <2>2, EmptyJoined DEF Reset, TasksKept, EventsKept, Ascending
  <2> QED BY <1>2, <2>1, <2>3 DEF Orderly, Reset, MainStands, ThreadsStand, Stands
<1>3. CASE proc' = "up" /\ MainStep
  BY <1>3, MainOrderly
<1>4. ASSUME NEW th \in Thread, ThreadStep(th), proc' = "up" PROVE Orderly'
  BY <1>4, EventOrderly, SetOrderly, DelOrderly DEF ThreadStep, SetStep, DelStep, ThreadFault, End
<1>5. ASSUME NEW th \in Thread, Receive(th) PROVE Orderly'
  BY <1>5, ReceiveOrderly
<1>6. CASE UNCHANGED <<proc, files, listVars, id, countVars, oper_state, task_list_mutex,
                       mainVars, threadVars, raced, aligned>>
  <2>1. UNCHANGED <<task_list, event_subsc_list, heap, id, task_count, mainPc, cur, nxt,
                    pc, msg, pos, saved, raced, proc>>
    BY <1>6 DEF listVars, countVars, mainVars, threadVars
  <2>2. Listed' = Listed /\ Linked' = Linked
    BY <2>1 DEF Listed, Linked, Appending, Linking
  <2>3. Ascending(task_list, Listed)' <=> Ascending(task_list, Listed)
    BY <2>1, <2>2 DEF Ascending, Rank
  <2> QED BY <2>1, <2>2, <2>3 DEF Orderly, TasksKept, Kept, EventsKept, MainStands,
             ThreadsStand, Stands, FaultOnlyAfterRace
<1> QED BY <1>1, <1>2, <1>3, <1>4, <1>5, <1>6, StepKinds DEF MainStep

LEMMA OrderlyInvariant == Spec => []Orderly
<1>1. Init => Orderly
  BY ResetOrderly DEF Init, Reset, FaultOnlyAfterRace
<1> QED BY <1>1, OrderlyStep, TypedInvariant, LockedInvariant, NumberedInvariant, TracedInvariant,
        FiledInvariant, PTL DEF Spec

(* task_list_mutex is enough for the tasks that are added: until a task is   *)
(* freed while something else is under way, however the main loop and the   *)
(* threads interleave, task_list is a ring of all tasks.                    *)
THEOREM TasksAreKept == Spec => []ListKept
<1>1. Orderly => ListKept
  BY DEF Orderly, TasksKept, Kept, ListKept
<1> QED BY <1>1, OrderlyInvariant, PTL

(* However passes and messages overlap, none of them follows a pointer that *)
(* is not there until a task is freed under the hands of another, or a       *)
(* subscription is linked behind one that is no longer the last.             *)
THEOREM FaultsNeedARace == Spec => []FaultOnlyAfterRace
<1>1. Orderly => FaultOnlyAfterRace
  BY DEF Orderly
<1> QED BY <1>1, OrderlyInvariant, PTL

(***************************************************************************)
(* Files that stay                                                         *)
(***************************************************************************)

(* A task that is there, or whose file is being removed, stays so until the *)
(* file is removed.                                                        *)
LEMMA PresentFrame ==
    ASSUME Typed, [Next]_vars, proc = "up", proc' = "up", NEW t \in Timer,
           heap[t] = "live" \/ Removing(t), ~(MainRemove /\ cur = t),
           \A th \in Thread : ~(DelRemove(th) /\ pos[th] = t)
    PROVE  heap'[t] = "live" \/ Removing(t)'
<1>t. DOMAIN heap = Timer /\ DOMAIN pc = Thread /\ DOMAIN pos = Thread
  BY DEF Typed, TypeOK
<1> USE DEF Removing, listVars, mainVars, threadVars
<1>1. CASE MainStep
  <2>1. CASE MainDelete
    BY <1>t, <2>1 DEF MainDelete, DeleteTask
  <2>2. CASE ~MainDelete
    BY <1>1, <2>2 DEF MainStep, MainWake, MainSkip, MainFire, MainRearm, MainRemove,
       MainFault, End, Visiting
  <2> QED BY <2>1, <2>2
<1>2. ASSUME NEW th \in Thread, Receive(th) \/ ThreadStep(th)
      PROVE  heap'[t] = "live" \/ Removing(t)'
  <2> USE DEF Step, Return, Goto, At
  <2>1. CASE DelTask(th)
    BY <1>t, <2>1 DEF DelTask, DeleteTask
  <2>2. CASE SetSubscribe(th)
    BY <1>t, <2>2 DEF SetSubscribe
  <2>3. CASE ThreadFault(th)
    BY <2>3 DEF ThreadFault, End
  <2>4. CASE DelRemove(th)
    BY <1>t, <2>4 DEF DelRemove
  <2>5. CASE ~DelTask(th) /\ ~SetSubscribe(th) /\ ~ThreadFault(th) /\ ~DelRemove(th)
    <3>1. /\ UNCHANGED <<heap, mainPc, cur>> /\ pc[th] # "remove"
          /\ \E l, p : pc' = [pc EXCEPT ![th] = l] /\ pos' = [pos EXCEPT ![th] = p]
      BY <1>2, <2>5 DEF Receive, ThreadStep, WalkStep, SetStep, GetStep, DelStep, WalkPast,
         Walking, Activate, Mark, Stamp, AddInterval, EventDone, SetLink, SetLock, SetAppend, SetNumber,
         SetOpen, SetWrite, GetStart, GetNext, GetDone, DelStart, DelDone
    <3> QED BY <1>t, <3>1
  <2> QED BY <2>1, <2>2, <2>3, <2>4, <2>5
<1>3. CASE Tick \/ UNCHANGED vars
  BY <1>3 DEF Tick, vars
<1> QED BY <1>1, <1>2, <1>3 DEF Next, Start, Stop, End

LEMMA NoStrayFileStep ==
    Typed /\ Traced /\ Filed /\ Orderly /\ NoStrayFile /\ [Next]_vars => NoStrayFile'
<1> SUFFICES ASSUME Typed, Traced, Filed, Orderly, NoStrayFile, [Next]_vars,
                    aligned', ~raced', proc' = "up", NEW n \in Id, NEW t \in Timer, files'[n] = t
             PROVE  id'[t] = n /\ (heap'[t] = "live" \/ Removing(t)')
  BY DEF NoStrayFile
<1>t. /\ DOMAIN files = Id /\ DOMAIN id = Timer /\ Torn \notin Timer /\ None \notin Timer
  BY NoneAssumption DEF Typed, TypeOK
<1>1. CASE Start
  <2>1. PICK m \in 0..MaxId : \E order \in [1..m -> Id] : FromDisk(m, order)
    BY <1>1, LoadSpec DEF Start, Typed
  <2>2. PICK order \in [1..m -> Id] : FromDisk(m, order)
    BY <2>1
  <2>3. files' = files /\ t \in Saved /\ \A i \in 1..m : order[i] = i
    BY <1>1, <2>2 DEF FromDisk, Start, Saved
  <2>4. heap'[t] = "live" /\ id'[t] \in 1..m /\ files[order[id'[t]]] = t
    BY <2>2, <2>3 DEF FromDisk
  <2>5. id'[t] \in Id /\ files[id'[t]] = files[n] /\ files[n] = t
    BY <2>2, <2>3, <2>4
  <2>6. id'[t] = n
    BY <2>5 DEF Filed, OneFile
  <2> QED BY <2>4, <2>6
<1>2. CASE UNCHANGED <<proc, files, listVars, id, countVars, oper_state, task_list_mutex,
                       mainVars, threadVars, raced, aligned>>
  BY <1>2 DEF NoStrayFile, Removing, listVars, mainVars, threadVars
<1>3. CASE proc = "up" /\ aligned' = aligned /\ ~Start
  <2>1. ~raced
    BY <1>3, StepKinds
  <2>2. ASSUME files[n] = t PROVE id[t] = n /\ (heap[t] = "live" \/ Removing(t))
    BY <1>3, <2>1, <2>2 DEF NoStrayFile
  <2>3. ASSUME files[n] = t PROVE id'[t] = n
    <3>1. ASSUME NEW th \in Thread, SetNumber(th) PROVE id'[t] = id[t]
      <4>1. msg[th].type = "SET" /\ msg[th].arg \notin Saved
        BY <3>1 DEF SetNumber, At, Typed, Cursors, Traced, Requests
      <4>2. msg[th].arg # t
        BY <2>3, <4>1 DEF Saved
      <4> QED BY <1>t, <3>1, <4>2 DEF SetNumber
    <3> QED BY <1>3, <2>2, <2>3, <3>1, IdFrame
  <2>4. ASSUME files[n] = t, ~(MainRemove /\ cur = t),
               \A th \in Thread : ~(DelRemove(th) /\ pos[th] = t)
        PROVE  id'[t] = n /\ (heap'[t] = "live" \/ Removing(t)')
    BY <1>3, <2>2, <2>3, <2>4, PresentFrame
  <2>5. ASSUME NEW u, RemoveFile(u) PROVE files[n] = t /\ u # t
    <3>1. files[n] = t /\ n # id[u]
      BY <1>t, <2>5 DEF RemoveFile
    <3> QED BY <2>2, <3>1
  <2>6. CASE MainRemove
    <3>1. files[n] = t /\ cur # t
      BY <2>5, <2>6 DEF MainRemove
    <3>2. \A th \in Thread : ~(DelRemove(th) /\ pos[th] = t)
      BY <2>5 DEF DelRemove
    <3> QED BY <2>4, <3>1, <3>2
  <2>7. ASSUME NEW th \in Thread, DelRemove(th)
        PROVE  id'[t] = n /\ (heap'[t] = "live" \/ Removing(t)')
    <3>1. files[n] = t
      BY <2>5, <2>7 DEF DelRemove
    <3>2. ~(MainRemove /\ cur = t) /\ \A u \in Thread : ~(DelRemove(u) /\ pos[u] = t)
      BY <2>5 DEF DelRemove, MainRemove
    <3> QED BY <2>4, <3>1, <3>2
  <2>8. CASE ~MainRemove /\ \A th \in Thread : ~DelRemove(th)
    <3>1. CASE files[n] = t
      BY <2>4, <2>8, <3>1
    <3>2. CASE files[n] # t
      <4>1. PICK th \in Thread : SetWrite(th)
        BY <1>t, <2>8, <3>2, FilesFrame DEF SetOpen
      <4>2. n = id[msg[th].arg] /\ t = msg[th].arg /\ id' = id /\ heap' = heap
        BY <1>t, <3>2, <4>1 DEF SetWrite, fieldVars, listVars
      <4>3. heap[t] = "live"
        BY <2>1, <4>1, <4>2 DEF SetWrite, At, Orderly, ThreadsStand, Stands
      <4> QED BY <4>2, <4>3
    <3> QED BY <3>1, <3>2
  <2> QED BY <2>6, <2>7, <2>8
<1> QED BY <1>1, <1>2, <1>3, StepKinds DEF Start

(* With the load in order, and until a task is freed under the hands of      *)
(* another, a file means that its timer is there: what was deleted has no   *)
(* file to come back from.                                                 *)
THEOREM FilesHaveTimers == Spec => []NoStrayFile
<1>1. Init => NoStrayFile
  BY NoneAssumption DEF Init, NoStrayFile
<1> QED BY <1>1, NoStrayFileStep, TypedInvariant, TracedInvariant, FiledInvariant,
        OrderlyInvariant, PTL DEF Spec
=============================================================================
