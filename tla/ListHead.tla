------------------------------ MODULE ListHead ------------------------------
(***************************************************************************)
(* The circular doubly linked lists of list.h, pointer by pointer, so that *)
(* two threads that change a list without a lock do to it what they do in  *)
(* the program.                                                            *)
(*                                                                         *)
(* A list gives each entry its two pointers.  list_del leaves poison in    *)
(* the entry it takes out, and free() then overwrites it: Wild stands for  *)
(* whatever is there, an address that faults when it is followed.          *)
(***************************************************************************)
EXTENDS Integers, Sequences

CONSTANTS
    Elem,   \* the entries: one struct list_head in each
    Root,   \* the struct list_head of the list itself
    Wild    \* LIST_POISON1, LIST_POISON2, or what the allocator writes there

ASSUME PointerAssumption ==
    /\ Root \notin Elem
    /\ Wild \notin Elem \cup {Root}

Place == Elem \cup {Root}
Pointer == Place \cup {Wild}
Lists == [Place -> [next : Pointer, prev : Pointer]]

\* An entry outside the list, and INIT_LIST_HEAD.
Loose == [next |-> Wild, prev |-> Wild]
EmptyList ==
    [p \in Place |-> IF p = Root THEN [next |-> Root, prev |-> Root] ELSE Loose]

\* list_add_tail of x, when last is what the thread has read from head->prev.
AddAfter(list, last, x) ==
    [list EXCEPT ![Root].prev = x, ![x] = [next |-> Root, prev |-> last],
                 ![last].next = x]

\* list_del of x.  An entry without both neighbours has been taken out before,
\* and list_del would write through what is there now.
CanDel(list, x) == list[x].next # Wild /\ list[x].prev # Wild
Del(list, x) ==
    [list EXCEPT ![list[x].next].prev = list[x].prev,
                 ![list[x].prev].next = list[x].next, ![x] = Loose]

\* The list that list_add_tail makes of the entries of a sequence.
ListOf(seq) ==
    LET n == Len(seq)
        Ring(i) == IF i \in 1..n THEN seq[i] ELSE Root
    IN  [p \in Place |->
            IF p = Root THEN [next |-> Ring(1), prev |-> Ring(n)]
            ELSE IF \E i \in 1..n : seq[i] = p
            THEN LET i == CHOOSE i \in 1..n : seq[i] = p
                 IN  [next |-> Ring(i + 1), prev |-> Ring(i - 1)]
            ELSE Loose]

\* What every walk and every list_del relies on: Root and the entries in the
\* list are each the neighbour of their neighbours.
Joined(list, in) ==
    \A p \in in \cup {Root} :
        /\ list[p].next \in in \cup {Root} /\ list[list[p].next].prev = p
        /\ list[p].prev \in in \cup {Root} /\ list[list[p].prev].next = p
=============================================================================
