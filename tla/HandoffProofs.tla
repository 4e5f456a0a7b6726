----------------------------- MODULE HandoffProofs -----------------------------
(***************************************************************************)
(* Proofs about WorkHandoff: what work_list_mutex protects, and when the    *)
(* bytes in the pipe are enough to wake the main thread, for any number of  *)
(* mosquitto threads, requests and nodes and any length of the buffer.      *)
(***************************************************************************)
EXTENDS WorkHandoff, ListsAndCounters

vars == <<handoffVars, known>>

(***************************************************************************)
(* Types, and what the mutex protects                                       *)
(***************************************************************************)

(* A thread holds a request while it is about to add it, and only then.      *)
HoldsRequest ==
    \A t \in Thread : treq[t] # NULL <=> tpc[t] \in {"lock", "add"}

(* work_list_mutex belongs to whoever is between its lock and its unlock;    *)
(* outside of a drain the main thread is at no place of the list.            *)
MutexHeld ==
    /\ mpc = "drain" <=> mutex = MainThread
    /\ \A t \in Thread : tpc[t] = "add" <=> mutex = t
    /\ mpc # "drain" => cursor = 0

(* Every step of a thread or of the drain preserves the types.               *)
LEMMA HandoffTypeStep ==
    ASSUME TypeOK, HoldsRequest, [Next]_vars
    PROVE  TypeOK'
<1> USE DEF TypeOK
<1>c. /\ SignalLen \in Nat /\ SignalLen > 1 /\ BufSize \in Nat /\ MaxSignals \in Nat
      /\ MaxSignals * SignalLen \in Nat
      /\ Len(work_list) \in Nat
  BY PipeAssumption, LenProperties
<1>1. CASE NodesChange
  BY <1>1 DEF NodesChange, handoffVars, threadVars, mainVars
<1>2. ASSUME NEW t \in Thread, NEW r \in Requests, UNCHANGED known, Receive(t, r)
      PROVE  TypeOK'
  BY <1>2 DEF Receive, mainVars
<1>3. ASSUME NEW t \in Thread, UNCHANGED known, ThreadLock(t) PROVE TypeOK'
  BY <1>3 DEF ThreadLock, mainVars
<1>4. ASSUME NEW t \in Thread, UNCHANGED known, ThreadAdd(t) PROVE TypeOK'
  <2>0. treq[t] \in Requests
    BY <1>4 DEF ThreadAdd, HoldsRequest
  <2>1. work_list' \in Seq(Requests) /\ Len(work_list') = Len(work_list) + 1
    BY <1>4, <2>0, InFront, AppendProperties DEF ThreadAdd
  <2>2. cursor' \in 0 .. Len(work_list')
    BY <1>4, <1>c, <2>1 DEF ThreadAdd, mainVars
  <2> QED BY <1>4, <2>1, <2>2 DEF ThreadAdd, mainVars
<1>5. ASSUME NEW t \in Thread, UNCHANGED known, ThreadSignal(t) PROVE TypeOK'
  <2>1. pipe' \in 0 .. MaxSignals * SignalLen
    BY <1>5, <1>c DEF ThreadSignal
  <2> QED BY <1>5, <2>1 DEF ThreadSignal, mainVars
<1>6. ASSUME UNCHANGED known, ReadPipe PROVE TypeOK'
  <2>1. pipe' \in 0 .. MaxSignals * SignalLen
    BY <1>6, <1>c DEF ReadPipe, BytesRead
  <2> QED BY <1>6, <2>1 DEF ReadPipe, threadVars
<1>7. ASSUME UNCHANGED known, MainLock PROVE TypeOK'
  <2>1. cursor' \in 0 .. Len(work_list')
    BY <1>7, <1>c DEF MainLock
  <2> QED BY <1>7, <2>1 DEF MainLock, threadVars
<1>8. ASSUME NEW r \in Requests, UNCHANGED known, DrainFound(r) \/ DrainRefuse(r)
      PROVE  TypeOK'
  <2>1. cursor + 1 \in 1 .. Len(work_list)
    BY <1>8, <1>c DEF DrainFound, DrainRefuse, DrainMore
  <2>2. /\ RemoveAt(work_list, cursor + 1) \in Seq(Requests)
        /\ Len(RemoveAt(work_list, cursor + 1)) = Len(work_list) - 1
    BY <2>1, Removed
  <2>3. cursor' \in 0 .. Len(work_list')
    BY <1>8, <1>c, <2>1, <2>2 DEF DrainFound, DrainRefuse
  <2> QED BY <1>8, <2>2, <2>3 DEF DrainFound, DrainRefuse, threadVars
<1>9. ASSUME NEW r \in Requests, UNCHANGED known, DrainPass(r) PROVE TypeOK'
  <2>1. cursor' \in 0 .. Len(work_list')
    BY <1>9, <1>c DEF DrainPass, DrainMore
  <2> QED BY <1>9, <2>1 DEF DrainPass, threadVars
<1>10. ASSUME UNCHANGED known, MainUnlock PROVE TypeOK'
  <2>1. cursor' \in 0 .. Len(work_list')
    BY <1>10, <1>c DEF MainUnlock
  <2> QED BY <1>10, <2>1 DEF MainUnlock, threadVars
<1>11. CASE UNCHANGED vars
  BY <1>11 DEF vars, handoffVars, threadVars, mainVars
<1> QED BY <1>1, <1>2, <1>3, <1>4, <1>5, <1>6, <1>7, <1>8, <1>9, <1>10, <1>11
        DEF Next, Step, ThreadStep, MainStep

(* Every step of a thread or of the drain keeps the mutex and the requests   *)
(* where they belong.                                                        *)
LEMMA MutexStep ==
    ASSUME TypeOK, HoldsRequest, MutexHeld, [Next]_vars
    PROVE  HoldsRequest' /\ MutexHeld'
<1> USE NobodyAssumption DEF TypeOK, HoldsRequest, MutexHeld
<1>1. CASE NodesChange
  BY <1>1 DEF NodesChange, handoffVars, threadVars, mainVars
<1>2. ASSUME NEW t \in Thread, NEW r \in Requests, Receive(t, r)
      PROVE  HoldsRequest' /\ MutexHeld'
  BY <1>2 DEF Receive, mainVars
<1>3. ASSUME NEW t \in Thread, ThreadLock(t) PROVE HoldsRequest' /\ MutexHeld'
  BY <1>3 DEF ThreadLock, mainVars
<1>4. ASSUME NEW t \in Thread, ThreadAdd(t) PROVE HoldsRequest' /\ MutexHeld'
  BY <1>4 DEF ThreadAdd, mainVars
<1>5. ASSUME NEW t \in Thread, ThreadSignal(t) PROVE HoldsRequest' /\ MutexHeld'
  BY <1>5 DEF ThreadSignal, mainVars
<1>6. CASE ReadPipe
  BY <1>6 DEF ReadPipe, threadVars
<1>7. CASE MainLock
  BY <1>7 DEF MainLock, threadVars
<1>8. ASSUME NEW r \in Requests, DrainFound(r) \/ DrainRefuse(r)
      PROVE  HoldsRequest' /\ MutexHeld'
  BY <1>8 DEF DrainFound, DrainRefuse, DrainMore, threadVars
<1>9. ASSUME NEW r \in Requests, DrainPass(r) PROVE HoldsRequest' /\ MutexHeld'
  BY <1>9 DEF DrainPass, DrainMore, threadVars
<1>10. CASE MainUnlock
  BY <1>10 DEF MainUnlock, threadVars
<1>11. CASE UNCHANGED vars
  BY <1>11 DEF vars, handoffVars, threadVars, mainVars
<1> QED BY <1>1, <1>2, <1>3, <1>4, <1>5, <1>6, <1>7, <1>8, <1>9, <1>10, <1>11
        DEF Next, Step, ThreadStep, MainStep

(***************************************************************************)
(* One place for every request                                              *)
(***************************************************************************)

(* Every step of a thread or of the drain leaves a request in one place.     *)
LEMMA OwnedStep ==
    ASSUME TypeOK, HoldsRequest, OwnedOnce, [Next]_vars
    PROVE  OwnedOnce'
<1>s. ASSUME UNCHANGED <<work_list, treq>> PROVE OwnedOnce'
  BY <1>s DEF OwnedOnce
<1>1. ASSUME NEW t \in Thread, NEW r \in Requests, Receive(t, r) PROVE OwnedOnce'
  <2>1. treq' = [treq EXCEPT ![t] = r] /\ work_list' = work_list
    BY <1>1 DEF Receive
  <2>2. r \notin ToSet(work_list) /\ \A u \in Thread : treq[u] # r
    BY <1>1 DEF Receive, InHandoff
  <2>3. \A u \in Thread : treq'[u] = IF u = t THEN r ELSE treq[u]
    BY <2>1 DEF TypeOK
  <2> QED BY <2>1, <2>2, <2>3 DEF OwnedOnce
<1>2. ASSUME NEW t \in Thread, ThreadAdd(t) PROVE OwnedOnce'
  <2>1. /\ work_list' = <<treq[t]>> \o work_list \/ work_list' = Append(work_list, treq[t])
        /\ treq' = [treq EXCEPT ![t] = NULL]
    BY <1>2 DEF ThreadAdd
  <2>2. treq[t] \in Requests /\ treq[t] # NULL /\ treq[t] \notin ToSet(work_list)
    BY <1>2 DEF ThreadAdd, HoldsRequest, OwnedOnce, TypeOK
  <2>3. /\ \A i, j \in 1 .. Len(work_list') : i # j => work_list'[i] # work_list'[j]
        /\ \A r \in ToSet(work_list') : r = treq[t] \/ r \in ToSet(work_list)
    BY <2>1, <2>2, AddedOnce DEF TypeOK, OwnedOnce
  <2>4. \A u \in Thread : treq'[u] = IF u = t THEN NULL ELSE treq[u]
    BY <2>1 DEF TypeOK
  <2>5. ASSUME NEW u \in Thread, treq'[u] # NULL PROVE treq'[u] \notin ToSet(work_list')
    BY <2>2, <2>3, <2>4, <2>5 DEF OwnedOnce
  <2>6. ASSUME NEW u \in Thread, NEW v \in Thread, treq'[u] # NULL, treq'[u] = treq'[v]
        PROVE  u = v
    BY <2>4, <2>6 DEF OwnedOnce
  <2> QED BY <2>3, <2>5, <2>6 DEF OwnedOnce
<1>3. ASSUME NEW r \in Requests, DrainFound(r) \/ DrainRefuse(r) PROVE OwnedOnce'
  <2>1. /\ cursor + 1 \in 1 .. Len(work_list)
        /\ work_list' = RemoveAt(work_list, cursor + 1)
        /\ treq' = treq
    BY <1>3, LenProperties DEF DrainFound, DrainRefuse, DrainMore, threadVars, TypeOK
  <2>2. /\ \A i, j \in 1 .. Len(work_list') : i # j => work_list'[i] # work_list'[j]
        /\ ToSet(work_list') \subseteq ToSet(work_list)
    BY <2>1, RemovedOnce DEF OwnedOnce, TypeOK
  <2> QED BY <2>1, <2>2 DEF OwnedOnce
<1>4. CASE \/ NodesChange \/ ReadPipe \/ MainLock \/ MainUnlock
           \/ \E r \in Requests : DrainPass(r)
           \/ \E t \in Thread : ThreadLock(t) \/ ThreadSignal(t)
           \/ UNCHANGED vars
  BY <1>4, <1>s DEF NodesChange, ReadPipe, MainLock, MainUnlock, DrainPass, ThreadLock,
                    ThreadSignal, vars, handoffVars, threadVars, mainVars
<1> QED BY <1>1, <1>2, <1>3, <1>4 DEF Next, Step, ThreadStep, MainStep

(***************************************************************************)
(* What the drain has gone past                                             *)
(***************************************************************************)

(* While the main thread drains, no thread touches the list and no node      *)
(* comes or goes: what the drain has gone past stays without a node.         *)
LEMMA PassedStep ==
    ASSUME TypeOK, MutexHeld, PassedAreUnknown, [Next]_vars
    PROVE  PassedAreUnknown'
<1>c. Len(work_list) \in Nat
  BY LenProperties DEF TypeOK
<1>1. CASE NodesChange
  BY <1>1 DEF NodesChange, handoffVars, mainVars, PassedAreUnknown
<1>2. ASSUME NEW t \in Thread, ThreadAdd(t) PROVE PassedAreUnknown'
  <2>1. mpc # "drain" /\ mpc' = mpc
    BY <1>2, NobodyAssumption DEF ThreadAdd, MutexHeld, mainVars
  <2> QED BY <2>1 DEF PassedAreUnknown
<1>3. ASSUME NEW r \in Requests, UNCHANGED known, DrainFound(r) \/ DrainRefuse(r)
      PROVE  PassedAreUnknown'
  <2>1. /\ cursor \in Nat /\ cursor + 1 \in 1 .. Len(work_list)
        /\ work_list' = RemoveAt(work_list, cursor + 1)
        /\ cursor' = cursor /\ mpc = "drain"
    BY <1>3, <1>c DEF DrainFound, DrainRefuse, DrainMore, TypeOK
  <2>2. \A i \in 1 .. cursor : work_list'[i] = work_list[i]
    <3>1. /\ \A j \in 1 .. Len(work_list) - 1 :
                work_list'[j] = IF j < cursor + 1 THEN work_list[j] ELSE work_list[j + 1]
      BY <2>1, Removed DEF TypeOK
    <3> QED BY <1>c, <2>1, <3>1
  <2> QED BY <1>3, <2>1, <2>2 DEF PassedAreUnknown
<1>4. ASSUME NEW r \in Requests, UNCHANGED known, DrainPass(r) PROVE PassedAreUnknown'
  <2>1. /\ cursor \in Nat /\ cursor' = cursor + 1 /\ work_list' = work_list
        /\ mpc = "drain" /\ Target[work_list[cursor + 1]] \notin known
    BY <1>4 DEF DrainPass, DrainMore, Drained, TypeOK
  <2>2. \A i \in 1 .. cursor + 1 : i \in 1 .. cursor \/ i = cursor + 1
    BY <2>1
  <2> QED BY <1>4, <2>1, <2>2 DEF PassedAreUnknown
<1>5. CASE MainLock
  BY <1>5 DEF MainLock, PassedAreUnknown
<1>6. CASE MainUnlock
  BY <1>6 DEF MainUnlock, PassedAreUnknown
<1>7. CASE ReadPipe
  BY <1>7 DEF ReadPipe, PassedAreUnknown
<1>8. CASE /\ UNCHANGED known
           /\ \/ \E t \in Thread, r \in Requests : Receive(t, r)
              \/ \E t \in Thread : ThreadLock(t) \/ ThreadSignal(t)
              \/ UNCHANGED vars
  BY <1>8 DEF Receive, ThreadLock, ThreadSignal, vars, handoffVars, mainVars,
              PassedAreUnknown
<1> QED BY <1>1, <1>2, <1>3, <1>4, <1>5, <1>6, <1>7, <1>8
        DEF Next, Step, ThreadStep, MainStep, vars

(***************************************************************************)
(* Wakeups                                                                  *)
(***************************************************************************)

(* No read ends inside a text: the unread signals fit into one buffer, or    *)
(* the buffer holds a whole number of texts.                                 *)
ReadsWholeTexts ==
    \/ MaxSignals * SignalLen <= BufSize
    \/ BufSize % SignalLen = 0

(* The unread bytes start where a text starts.                               *)
Aligned == pipe % SignalLen = 0

(* Nothing is no text at all, and one text is one.                           *)
LEMMA WholeText == SignalLen \in Nat /\ SignalLen > 0 /\ 0 % SignalLen = 0 /\ SignalLen % SignalLen = 0
<1>1. SignalLen \in Nat /\ SignalLen > 0
  BY PipeAssumption
<1>2. 0 = SignalLen * 0 /\ SignalLen = SignalLen * 1
  BY <1>1
<1> QED BY <1>1, <1>2, Divisible

(* A read takes nothing but whole texts and leaves nothing but whole texts.  *)
LEMMA AlignedStep ==
    ASSUME ReadsWholeTexts, TypeOK, Aligned, [Next]_vars
    PROVE  Aligned'
<1>c. /\ pipe \in Nat /\ BufSize \in Nat /\ pipe <= MaxSignals * SignalLen
      /\ SignalLen \in Nat /\ MaxSignals * SignalLen \in Nat
  BY PipeAssumption DEF TypeOK
<1>1. ASSUME NEW t \in Thread, ThreadSignal(t) PROVE Aligned'
  <2>1. pipe \in Int /\ SignalLen \in Int /\ pipe % SignalLen = 0 /\ SignalLen % SignalLen = 0
    BY <1>c, WholeText DEF Aligned
  <2>2. (pipe + SignalLen) % SignalLen = 0
    BY <2>1, WholeText, DivisibleSum
  <2> QED BY <1>1, <2>2 DEF ThreadSignal, Aligned
<1>2. CASE ReadPipe
  <2>1. CASE pipe <= BufSize
    <3>1. pipe' = 0
      BY <1>2, <1>c, <2>1 DEF ReadPipe, BytesRead
    <3> QED BY <3>1, WholeText DEF Aligned
  <2>2. CASE ~(pipe <= BufSize)
    <3>1. pipe' = pipe - BufSize
      BY <1>2, <1>c, <2>2 DEF ReadPipe, BytesRead
    <3>2. BufSize % SignalLen = 0
      BY <1>c, <2>2 DEF ReadsWholeTexts
    <3>3. pipe \in Int /\ BufSize \in Int /\ pipe % SignalLen = 0
      BY <1>c DEF Aligned
    <3>4. (pipe - BufSize) % SignalLen = 0
      BY <3>2, <3>3, WholeText, DivisibleSum
    <3> QED BY <3>1, <3>4 DEF Aligned
  <2> QED BY <2>1, <2>2
<1>3. CASE UNCHANGED pipe
  BY <1>3 DEF Aligned
<1> QED BY <1>1, <1>2, <1>3
        DEF Next, NodesChange, Step, Receive, ThreadStep, ThreadLock, ThreadAdd, MainStep,
            MainLock, DrainFound, DrainRefuse, DrainPass, MainUnlock, vars, handoffVars

(* What the next place of the drain leaves to be reached.                    *)
Behind(n, s) == {s[i] : i \in n + 1 .. Len(s)}

(* WakeupPending speaks of the requests behind the cursor.                   *)
LEMMA PendingBehind ==
    ASSUME TypeOK, NEW r
    PROVE  WakeupPending(r) <=> \/ \E t \in Thread : tpc[t] = "signal"
                                \/ pipe > 0 /\ Aligned
                                \/ mpc = "lock"
                                \/ mpc = "drain" /\ r \in Behind(cursor, work_list)
BY MembersBehind DEF WakeupPending, Aligned, Behind, TypeOK

(* Every step leaves each request that no drain went past with a wakeup.     *)
LEMMA WakeupStep ==
    ASSUME TypeOK, TypeOK', HoldsRequest, MutexHeld, OwnedOnce, Aligned, Aligned',
           NoLostWakeup, [Next]_vars
    PROVE  NoLostWakeup'
<1> SUFFICES ASSUME NEW r \in ToSet(work_list') \ passed'
             PROVE  \/ \E t \in Thread : tpc'[t] = "signal"
                    \/ pipe' > 0
                    \/ mpc' = "lock"
                    \/ mpc' = "drain" /\ r \in Behind(cursor', work_list')
  <2>1. \A r : WakeupPending(r)' <=> \/ \E t \in Thread : tpc'[t] = "signal"
                                     \/ pipe' > 0 /\ Aligned'
                                     \/ mpc' = "lock"
                                     \/ mpc' = "drain" /\ r \in Behind(cursor', work_list')
    <3> SUFFICES ASSUME NEW r
                 PROVE  WakeupPending(r)' <=>
                            \/ \E t \in Thread : tpc'[t] = "signal"
                            \/ pipe' > 0 /\ Aligned'
                            \/ mpc' = "lock"
                            \/ mpc' = "drain" /\ r \in Behind(cursor', work_list')
      OBVIOUS
    <3>1. r \in ToSet(SubSeq(work_list', cursor' + 1, Len(work_list')))
             <=> \E i \in cursor' + 1 .. Len(work_list') : work_list'[i] = r
      BY MembersBehind DEF TypeOK
    <3> QED BY <3>1 DEF WakeupPending, Aligned, Behind
  <2> QED BY <2>1 DEF NoLostWakeup
<1>c. Len(work_list) \in Nat /\ cursor \in Nat /\ pipe \in Nat
  BY LenProperties, PipeAssumption DEF TypeOK
<1>p. ASSUME r \in ToSet(work_list) \ passed
      PROVE  \/ \E t \in Thread : tpc[t] = "signal"
             \/ pipe > 0
             \/ mpc = "lock"
             \/ mpc = "drain" /\ r \in Behind(cursor, work_list)
  BY <1>p, PendingBehind DEF NoLostWakeup
<1>1. CASE NodesChange \/ UNCHANGED vars
  BY <1>1, <1>p DEF NodesChange, vars, handoffVars, threadVars, mainVars
<1>2. ASSUME NEW t \in Thread, NEW q \in Requests, Receive(t, q)
      PROVE  \/ \E u \in Thread : tpc'[u] = "signal"
             \/ pipe' > 0
             \/ mpc' = "lock"
             \/ mpc' = "drain" /\ r \in Behind(cursor', work_list')
  BY <1>2, <1>p DEF Receive, mainVars, TypeOK
<1>3. ASSUME NEW t \in Thread, ThreadLock(t)
      PROVE  \/ \E u \in Thread : tpc'[u] = "signal"
             \/ pipe' > 0
             \/ mpc' = "lock"
             \/ mpc' = "drain" /\ r \in Behind(cursor', work_list')
  BY <1>3, <1>p DEF ThreadLock, mainVars, TypeOK
<1>4. ASSUME NEW t \in Thread, ThreadAdd(t) PROVE \E u \in Thread : tpc'[u] = "signal"
  BY <1>4 DEF ThreadAdd, TypeOK
<1>5. ASSUME NEW t \in Thread, ThreadSignal(t) PROVE pipe' > 0
  BY <1>5, <1>c, WholeText DEF ThreadSignal
<1>6. ASSUME ReadPipe PROVE mpc' = "lock"
  BY <1>6 DEF ReadPipe, Aligned
<1>7. ASSUME MainLock PROVE mpc' = "drain" /\ r \in Behind(cursor', work_list')
  <2>1. /\ mpc' = "drain" /\ cursor' = 0 /\ work_list' = work_list
    BY <1>7 DEF MainLock
  <2>2. \E i \in 1 .. Len(work_list) : work_list[i] = r
    BY <2>1, Members DEF TypeOK
  <2> QED BY <2>1, <2>2 DEF Behind
<1>8. ASSUME NEW q \in Requests, DrainFound(q) \/ DrainRefuse(q)
      PROVE  \/ mpc' = "drain" /\ r \in Behind(cursor', work_list')
             \/ \E u \in Thread : tpc'[u] = "signal"
             \/ pipe' > 0
  <2>1. /\ cursor + 1 \in 1 .. Len(work_list)
        /\ work_list' = RemoveAt(work_list, cursor + 1)
        /\ q = work_list[cursor + 1]
        /\ cursor' = cursor /\ mpc = "drain" /\ mpc' = mpc
        /\ passed' = passed \ {q}
        /\ UNCHANGED <<tpc, pipe>>
    BY <1>8, <1>c DEF DrainFound, DrainRefuse, DrainMore, Drained, threadVars
  <2>2. ToSet(work_list') = ToSet(work_list) \ {q}
    BY <2>1, RemovedOnce DEF OwnedOnce, TypeOK
  <2>3. r \in ToSet(work_list) \ passed /\ r # q
    BY <2>1, <2>2
  <2>4. CASE r \in Behind(cursor, work_list)
    <3>1. PICK i \in cursor + 1 .. Len(work_list) : work_list[i] = r
      BY <2>4 DEF Behind
    <3>2. i - 1 \in cursor + 1 .. Len(work_list) - 1 /\ i - 1 \in 1 .. Len(work_list) - 1
      BY <1>c, <2>1, <2>3, <3>1
    <3>3. /\ Len(work_list') = Len(work_list) - 1
          /\ \A j \in 1 .. Len(work_list) - 1 :
                work_list'[j] = IF j < cursor + 1 THEN work_list[j] ELSE work_list[j + 1]
      <4>1. work_list \in Seq(Requests)
        BY DEF TypeOK
      <4> QED BY <2>1, <4>1, Removed
    <3>4. work_list'[i - 1] = r
      BY <1>c, <3>1, <3>2, <3>3
    <3> QED BY <2>1, <3>2, <3>3, <3>4 DEF Behind
  <2> QED BY <1>p, <2>1, <2>3, <2>4
<1>9. ASSUME NEW q \in Requests, DrainPass(q)
      PROVE  \/ mpc' = "drain" /\ r \in Behind(cursor', work_list')
             \/ \E u \in Thread : tpc'[u] = "signal"
             \/ pipe' > 0
  <2>1. /\ cursor + 1 \in 1 .. Len(work_list)
        /\ q = work_list[cursor + 1]
        /\ work_list' = work_list
        /\ cursor' = cursor + 1 /\ mpc = "drain" /\ mpc' = mpc
        /\ passed' = passed \cup {q}
        /\ UNCHANGED <<tpc, pipe>>
    BY <1>9, <1>c DEF DrainPass, DrainMore, Drained, threadVars
  <2>2. r \in ToSet(work_list) \ passed /\ r # q
    BY <2>1
  <2>3. CASE r \in Behind(cursor, work_list)
    <3>1. PICK i \in cursor + 1 .. Len(work_list) : work_list[i] = r
      BY <2>3 DEF Behind
    <3>2. i \in cursor' + 1 .. Len(work_list')
      BY <1>c, <2>1, <2>2, <3>1
    <3> QED BY <2>1, <3>1, <3>2 DEF Behind
  <2> QED BY <1>p, <2>1, <2>2, <2>3
<1>10. ASSUME MainUnlock
       PROVE  (\E u \in Thread : tpc'[u] = "signal") \/ pipe' > 0
  <2>1. /\ mpc = "drain" /\ cursor = Len(work_list) /\ work_list' = work_list
        /\ passed' = passed
        /\ UNCHANGED <<tpc, pipe>>
    BY <1>10 DEF MainUnlock, threadVars
  <2>2. r \notin Behind(cursor, work_list)
    BY <1>c, <2>1 DEF Behind
  <2> QED BY <1>p, <2>1, <2>2
<1> QED BY <1>1, <1>2, <1>3, <1>4, <1>5, <1>6, <1>7, <1>8, <1>9, <1>10
        DEF Next, Step, ThreadStep, MainStep

(***************************************************************************)
(* The theorems                                                             *)
(***************************************************************************)

HandoffInv == TypeOK /\ HoldsRequest /\ MutexHeld /\ OwnedOnce /\ PassedAreUnknown

(* The hand-off starts with an empty list and nobody in it.                  *)
LEMMA HandoffStart == HandoffInit => HandoffInv /\ Aligned /\ NoLostWakeup
<1> SUFFICES ASSUME HandoffInit PROVE HandoffInv /\ Aligned /\ NoLostWakeup
  OBVIOUS
<1> USE DEF HandoffInit, Init
<1>1. /\ work_list \in Seq(Requests) /\ Len(work_list) = 0 /\ ToSet(work_list) = {}
  BY EmptySeq DEF ToSet
<1>2. MaxSignals * SignalLen \in Nat
  BY PipeAssumption
<1>3. TypeOK
  <2>1. pipe \in 0 .. MaxSignals * SignalLen /\ cursor \in 0 .. Len(work_list)
    BY <1>1, <1>2
  <2>2. /\ tpc \in [Thread -> {"idle", "lock", "add", "signal"}]
        /\ treq \in [Thread -> Requests \cup {NULL}]
    OBVIOUS
  <2> QED BY <1>1, <2>1, <2>2 DEF TypeOK
<1>4. HoldsRequest /\ MutexHeld
  BY NobodyAssumption DEF HoldsRequest, MutexHeld
<1>5. OwnedOnce /\ PassedAreUnknown
  BY <1>1 DEF OwnedOnce, PassedAreUnknown
<1>6. Aligned
  BY WholeText DEF Aligned
<1>7. NoLostWakeup
  BY <1>1 DEF NoLostWakeup
<1> QED BY <1>3, <1>4, <1>5, <1>6, <1>7 DEF HandoffInv

(* What work_list_mutex protects, in any interleaving of the threads.        *)
THEOREM HandoffInvariant == HandoffSafety => []HandoffInv
<1>1. HandoffInv /\ [Next]_vars => HandoffInv'
  BY HandoffTypeStep, MutexStep, OwnedStep, PassedStep DEF HandoffInv
<1> QED BY <1>1, HandoffStart, PTL DEF HandoffSafety, vars

(* WorkHandoff!TypeOK for every value of the constants.                      *)
THEOREM HandoffTypeCorrect == HandoffSafety => []TypeOK
BY HandoffInvariant, PTL DEF HandoffInv

(* A request never has two owners, so it is never freed twice.               *)
THEOREM NeverTwice == HandoffSafety => []OwnedOnce
BY HandoffInvariant, PTL DEF HandoffInv

(* The saved next pointer of the drain never skips a request that a thread   *)
(* added meanwhile: all it went past are those whose node is missing.        *)
THEOREM DrainUndisturbed == HandoffSafety => []PassedAreUnknown
BY HandoffInvariant, PTL DEF HandoffInv

(* As long as no read ends inside a text, no wakeup is lost.  256 is no      *)
(* multiple of 10, so in the code this is 25 unread signals at most.         *)
THEOREM NoWakeupLost ==
    ASSUME ReadsWholeTexts
    PROVE  HandoffSafety => []NoLostWakeup
<1>1. HandoffInv /\ Aligned /\ NoLostWakeup /\ [Next]_vars
          => (HandoffInv /\ Aligned /\ NoLostWakeup)'
  <2> SUFFICES ASSUME HandoffInv, Aligned, NoLostWakeup, [Next]_vars
               PROVE  (HandoffInv /\ Aligned /\ NoLostWakeup)'
    OBVIOUS
  <2>1. HandoffInv'
    BY HandoffTypeStep, MutexStep, OwnedStep, PassedStep DEF HandoffInv
  <2>2. Aligned'
    BY AlignedStep DEF HandoffInv
  <2> QED BY <2>1, <2>2, WakeupStep DEF HandoffInv
<1> QED BY <1>1, HandoffStart, PTL DEF HandoffSafety, vars
=============================================================================
