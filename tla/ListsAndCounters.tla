--------------------------- MODULE ListsAndCounters ---------------------------
(***************************************************************************)
(* Facts about the data the gateway is built from: lists to which list_add  *)
(* and list_add_tail add and from which list_del takes, and counters of a   *)
(* fixed width, kept modulo M.                                              *)
(***************************************************************************)
EXTENDS Integers, SequencesExt, SequenceTheorems, TLAPS

(***************************************************************************)
(* Lists                                                                    *)
(***************************************************************************)

(* list_del of the i-th request: those behind it move up by one place.      *)
LEMMA Removed ==
    ASSUME NEW S, NEW s \in Seq(S), NEW i \in 1 .. Len(s)
    PROVE  /\ RemoveAt(s, i) \in Seq(S)
           /\ Len(RemoveAt(s, i)) = Len(s) - 1
           /\ \A j \in 1 .. Len(s) - 1 :
                 RemoveAt(s, i)[j] = IF j < i THEN s[j] ELSE s[j + 1]
<1> DEFINE front == SubSeq(s, 1, i - 1)
           back  == SubSeq(s, i + 1, Len(s))
<1>1. Len(s) \in Nat /\ \A j \in 1 .. Len(s) : s[j] \in S
  BY LenProperties, ElementOfSeq
<1>2. /\ front \in Seq(S)
      /\ Len(front) = i - 1
      /\ \A j \in 1 .. i - 1 : front[j] = s[j]
  <2>1. \A j \in 1 .. i - 1 : s[j] \in S
    BY <1>1
  <2>2. /\ SubSeq(s, 1, i - 1) \in Seq(S)
        /\ Len(SubSeq(s, 1, i - 1)) = IF 1 <= i - 1 THEN (i - 1) - 1 + 1 ELSE 0
        /\ \A j \in 1 .. (i - 1) - 1 + 1 : SubSeq(s, 1, i - 1)[j] = s[1 + j - 1]
    BY <1>1, <2>1, SubSeqProperties
  <2> QED BY <1>1, <2>2
<1>3. /\ back \in Seq(S)
      /\ Len(back) = Len(s) - i
      /\ \A j \in 1 .. Len(s) - i : back[j] = s[i + j]
  <2>1. \A j \in i + 1 .. Len(s) : s[j] \in S
    BY <1>1
  <2>2. /\ SubSeq(s, i + 1, Len(s)) \in Seq(S)
        /\ Len(SubSeq(s, i + 1, Len(s))) = IF i + 1 <= Len(s) THEN Len(s) - (i + 1) + 1 ELSE 0
        /\ \A j \in 1 .. Len(s) - (i + 1) + 1 :
              SubSeq(s, i + 1, Len(s))[j] = s[(i + 1) + j - 1]
    BY <1>1, <2>1, SubSeqProperties
  <2> QED BY <1>1, <2>2
<1>4. RemoveAt(s, i) = front \o back
  BY DEF RemoveAt
<1> HIDE DEF front, back
<1>5. /\ front \o back \in Seq(S)
      /\ Len(front \o back) = Len(front) + Len(back)
      /\ \A j \in 1 .. Len(front) + Len(back) :
            (front \o back)[j] = IF j <= Len(front) THEN front[j] ELSE back[j - Len(front)]
  BY <1>2, <1>3, ConcatProperties
<1>6. ASSUME NEW j \in 1 .. Len(s) - 1
      PROVE  (front \o back)[j] = IF j < i THEN s[j] ELSE s[j + 1]
  <2>1. CASE j < i
    BY <1>1, <1>2, <1>3, <1>5, <2>1
  <2>2. CASE ~(j < i)
    <3>1. j - Len(front) \in 1 .. Len(s) - i /\ i + (j - Len(front)) = j + 1
      BY <1>1, <1>2, <2>2
    <3>2. (front \o back)[j] = back[j - Len(front)]
      BY <1>1, <1>2, <1>3, <1>5, <2>2
    <3> QED BY <1>3, <2>2, <3>1, <3>2
  <2> QED BY <2>1, <2>2
<1>7. Len(front \o back) = Len(s) - 1
  BY <1>1, <1>2, <1>3, <1>5
<1> QED BY <1>4, <1>5, <1>6, <1>7

(* list_add: the new request comes first, the others move down.             *)
LEMMA InFront ==
    ASSUME NEW S, NEW s \in Seq(S), NEW e \in S
    PROVE  /\ <<e>> \o s \in Seq(S)
           /\ Len(<<e>> \o s) = Len(s) + 1
           /\ (<<e>> \o s)[1] = e
           /\ \A j \in 2 .. Len(s) + 1 : (<<e>> \o s)[j] = s[j - 1]
<1>1. <<e>> \in Seq(S) /\ Len(<<e>>) = 1 /\ <<e>>[1] = e
  OBVIOUS
<1>2. Len(s) \in Nat
  BY LenProperties
<1>3. /\ <<e>> \o s \in Seq(S)
      /\ Len(<<e>> \o s) = Len(<<e>>) + Len(s)
      /\ \A j \in 1 .. Len(<<e>>) + Len(s) :
            (<<e>> \o s)[j] = IF j <= Len(<<e>>) THEN <<e>>[j] ELSE s[j - Len(<<e>>)]
  BY <1>1, ConcatProperties
<1> QED BY <1>1, <1>2, <1>3

(* What is in a list is at one of its places.                               *)
LEMMA Members ==
    ASSUME NEW S, NEW s \in Seq(S), NEW r
    PROVE  r \in ToSet(s) <=> \E i \in 1 .. Len(s) : s[i] = r
BY LenProperties DEF ToSet

(* What the drain has yet to reach.                                          *)
LEMMA MembersBehind ==
    ASSUME NEW S, NEW s \in Seq(S), NEW n \in 0 .. Len(s), NEW r
    PROVE  r \in ToSet(SubSeq(s, n + 1, Len(s))) <=> \E i \in n + 1 .. Len(s) : s[i] = r
<1> DEFINE b == SubSeq(s, n + 1, Len(s))
<1>1. Len(s) \in Nat /\ \A j \in n + 1 .. Len(s) : s[j] \in S
  BY LenProperties, ElementOfSeq
<1>2. /\ b \in Seq(S)
      /\ Len(b) = IF n + 1 <= Len(s) THEN Len(s) - (n + 1) + 1 ELSE 0
      /\ \A j \in 1 .. Len(s) - (n + 1) + 1 : b[j] = s[(n + 1) + j - 1]
  BY <1>1, SubSeqProperties
<1>3. Len(b) = Len(s) - n /\ \A j \in 1 .. Len(s) - n : b[j] = s[n + j]
  BY <1>1, <1>2
<1> HIDE DEF b
<1>4. r \in ToSet(b) <=> \E j \in 1 .. Len(b) : b[j] = r
  BY <1>2, Members
<1>5. ASSUME NEW j \in 1 .. Len(b), b[j] = r PROVE \E i \in n + 1 .. Len(s) : s[i] = r
  <2>1. n + j \in n + 1 .. Len(s) /\ s[n + j] = r
    BY <1>1, <1>3, <1>5
  <2> QED BY <2>1
<1>6. ASSUME NEW i \in n + 1 .. Len(s), s[i] = r PROVE \E j \in 1 .. Len(b) : b[j] = r
  <2>1. i - n \in 1 .. Len(b) /\ b[i - n] = r
    BY <1>1, <1>3, <1>6
  <2> QED BY <2>1
<1> QED BY <1>4, <1>5, <1>6 DEF b

(* Both ways of adding a new request keep the list free of duplicates, and   *)
(* add nothing but this request.                                             *)
LEMMA AddedOnce ==
    ASSUME NEW S, NEW s \in Seq(S), NEW e \in S, e \notin ToSet(s),
           NEW new, new = <<e>> \o s \/ new = Append(s, e),
           \A i, j \in 1 .. Len(s) : i # j => s[i] # s[j]
    PROVE  /\ \A i, j \in 1 .. Len(new) : i # j => new[i] # new[j]
           /\ \A r \in ToSet(new) : r = e \/ r \in ToSet(s)
<1>1. Len(s) \in Nat /\ \A i \in 1 .. Len(s) : s[i] \in ToSet(s)
  BY LenProperties, Members
<1>2. CASE new = <<e>> \o s
  <2>1. /\ new \in Seq(S)
        /\ Len(new) = Len(s) + 1
        /\ new[1] = e
        /\ \A j \in 2 .. Len(new) : new[j] = s[j - 1] /\ j - 1 \in 1 .. Len(s)
    BY <1>1, <1>2, InFront
  <2>2. \A j \in 2 .. Len(new) : new[j] \in ToSet(s)
    BY <1>1, <2>1
  <2>3. ASSUME NEW i \in 1 .. Len(new), NEW j \in 1 .. Len(new), i # j
        PROVE  new[i] # new[j]
    <3>1. CASE i = 1
      BY <1>1, <2>1, <2>2, <2>3, <3>1
    <3>2. CASE j = 1
      BY <1>1, <2>1, <2>2, <2>3, <3>2
    <3>3. CASE i # 1 /\ j # 1
      <4>1. i \in 2 .. Len(new) /\ j \in 2 .. Len(new) /\ i - 1 # j - 1
        BY <1>1, <2>1, <2>3, <3>3
      <4> QED BY <2>1, <4>1
    <3> QED BY <3>1, <3>2, <3>3
  <2>4. ASSUME NEW r \in ToSet(new) PROVE r = e \/ r \in ToSet(s)
    <3>1. PICK i \in 1 .. Len(new) : new[i] = r
      BY <2>1, <2>4, Members
    <3>2. i = 1 \/ i \in 2 .. Len(new)
      BY <1>1, <2>1
    <3> QED BY <2>1, <2>2, <3>1, <3>2
  <2> QED BY <2>3, <2>4
<1>3. CASE new = Append(s, e)
  <2>1. /\ new \in Seq(S)
        /\ Len(new) = Len(s) + 1
        /\ new[Len(new)] = e
        /\ \A j \in 1 .. Len(s) : new[j] = s[j]
    BY <1>1, <1>3, AppendProperties
  <2>2. \A j \in 1 .. Len(new) : j = Len(new) \/ j \in 1 .. Len(s)
    BY <1>1, <2>1
  <2>3. ASSUME NEW i \in 1 .. Len(new), NEW j \in 1 .. Len(new), i # j
        PROVE  new[i] # new[j]
    BY <1>1, <2>1, <2>2, <2>3
  <2>4. ASSUME NEW r \in ToSet(new) PROVE r = e \/ r \in ToSet(s)
    <3>1. PICK i \in 1 .. Len(new) : new[i] = r
      BY <2>1, <2>4, Members
    <3> QED BY <1>1, <2>1, <2>2, <3>1
  <2> QED BY <2>3, <2>4
<1> QED BY <1>2, <1>3

(* Removing a request removes its only entry.                                *)
LEMMA RemovedOnce ==
    ASSUME NEW S, NEW s \in Seq(S), NEW n \in 1 .. Len(s),
           \A i, j \in 1 .. Len(s) : i # j => s[i] # s[j]
    PROVE  /\ \A i, j \in 1 .. Len(RemoveAt(s, n)) :
                 i # j => RemoveAt(s, n)[i] # RemoveAt(s, n)[j]
           /\ ToSet(RemoveAt(s, n)) = ToSet(s) \ {s[n]}
<1> DEFINE new == RemoveAt(s, n)
           back(j) == IF j < n THEN j ELSE j + 1
<1>1. /\ Len(s) \in Nat
      /\ new \in Seq(S)
      /\ Len(new) = Len(s) - 1
      /\ \A j \in 1 .. Len(s) - 1 : new[j] = IF j < n THEN s[j] ELSE s[j + 1]
  BY LenProperties, Removed
<1> HIDE DEF new
<1>2. \A j \in 1 .. Len(new) : /\ back(j) \in 1 .. Len(s)
                               /\ back(j) # n
                               /\ new[j] = s[back(j)]
  BY <1>1
<1>3. \A i, j \in 1 .. Len(new) : i # j => back(i) # back(j)
  BY <1>1
<1>4. \A i, j \in 1 .. Len(new) : i # j => new[i] # new[j]
  BY <1>2, <1>3
<1>5. ASSUME NEW r \in ToSet(new) PROVE r \in ToSet(s) \ {s[n]}
  <2>1. PICK j \in 1 .. Len(new) : new[j] = r
    BY <1>1, <1>5, Members
  <2>2. r = s[back(j)] /\ back(j) \in 1 .. Len(s) /\ back(j) # n
    BY <1>2, <2>1
  <2>3. r \in ToSet(s)
    BY <2>2, Members
  <2> QED BY <2>2, <2>3
<1>6. ASSUME NEW r \in ToSet(s) \ {s[n]} PROVE r \in ToSet(new)
  <2>1. PICK i \in 1 .. Len(s) : s[i] = r
    BY <1>6, Members
  <2>2. i # n
    BY <1>6, <2>1
  <2>3. CASE i < n
    <3>1. i \in 1 .. Len(new) /\ new[i] = r
      BY <1>1, <2>1, <2>3
    <3> QED BY <1>1, <3>1, Members
  <2>4. CASE ~(i < n)
    <3>1. i - 1 \in 1 .. Len(new) /\ new[i - 1] = r
      BY <1>1, <2>1, <2>2, <2>4
    <3> QED BY <1>1, <3>1, Members
  <2> QED BY <2>3, <2>4
<1> QED BY <1>4, <1>5, <1>6 DEF new

(***************************************************************************)
(* Counters                                                                 *)
(***************************************************************************)

(* Multiples of M are at least M apart. *)
LEMMA MultiplesApart ==
    ASSUME NEW M \in Nat, M > 0, NEW a \in Int, NEW b \in Int, a < b
    PROVE  M * a + M <= M * b
<1>1. b - a - 1 \in Nat
  OBVIOUS
<1>2. M * (b - a - 1) >= 0
  BY <1>1
<1>3. M * (b - a - 1) = M * b - M * a - M
  OBVIOUS
<1>4. M * b \in Int /\ M * a \in Int
  OBVIOUS
<1> QED BY <1>2, <1>3, <1>4

(* A number has one remainder below M. *)
LEMMA RemainderUnique ==
    ASSUME NEW M \in Nat, M > 0, NEW a \in Int, NEW b \in Int,
           NEW r \in 0 .. M - 1, NEW s \in 0 .. M - 1,
           M * a + r = M * b + s
    PROVE  r = s
<1>1. CASE a < b
  BY <1>1, MultiplesApart
<1>2. CASE b < a
  BY <1>2, MultiplesApart
<1>3. CASE a = b
  BY <1>3
<1> QED BY <1>1, <1>2, <1>3

(* % yields that remainder. *)
LEMMA Remainder ==
    ASSUME NEW M \in Nat, M > 0, NEW x \in Int
    PROVE  /\ x % M \in 0 .. M - 1
           /\ \E q \in Int : x = M * q + (x % M)
<1>1. x = M * (x \div M) + (x % M)
  OBVIOUS
<1> QED BY <1>1

(* A number that fits is its own remainder. *)
LEMMA RemainderSmall ==
    ASSUME NEW M \in Nat, M > 0, NEW x \in 0 .. M - 1
    PROVE  x % M = x
OBVIOUS

(* Adding k to the wrapped counter or to the exact one is the same. *)
THEOREM WrappedSum ==
    ASSUME NEW M \in Nat, M > 0, NEW x \in Int, NEW k \in Int
    PROVE  ((x % M) + k) % M = (x + k) % M
<1> DEFINE y == x % M
           u == (y + k) % M
           v == (x + k) % M
<1>1. PICK a \in Int : x = M * a + y
  BY Remainder
<1>2. y \in Int /\ y + k \in Int /\ x + k \in Int
  OBVIOUS
<1>3. u \in 0 .. M - 1 /\ v \in 0 .. M - 1
  BY <1>2, Remainder
<1>4. PICK b \in Int : y + k = M * b + u
  BY <1>2, Remainder
<1>5. PICK c \in Int : x + k = M * c + v
  BY <1>2, Remainder
<1> HIDE DEF y, u, v
<1>6. M * (a + b) + u = M * c + v
  <2>1. M * (a + b) = M * a + M * b
    OBVIOUS
  <2> QED BY <1>1, <1>2, <1>3, <1>4, <1>5, <2>1
<1>7. u = v
  BY <1>3, <1>6, RemainderUnique
<1> QED BY <1>7 DEF y, u, v

(* Remainder 0 is divisibility.                                              *)
LEMMA Divisible ==
    ASSUME NEW M \in Nat, M > 0, NEW x \in Int
    PROVE  x % M = 0 <=> \E a \in Int : x = M * a
<1>1. ASSUME x % M = 0 PROVE \E a \in Int : x = M * a
  BY <1>1, Remainder
<1>2. ASSUME NEW a \in Int, x = M * a PROVE x % M = 0
  <2>1. PICK q \in Int : x = M * q + (x % M)
    BY Remainder
  <2>2. M * a + 0 = M * q + (x % M)
    <3>1. M * a \in Int
      OBVIOUS
    <3> QED BY <1>2, <2>1, <3>1
  <2>3. 0 \in 0 .. M - 1 /\ x % M \in 0 .. M - 1
    BY Remainder
  <2> DEFINE r == x % M
  <2> HIDE DEF r
  <2>4. r \in 0 .. M - 1 /\ M * a + 0 = M * q + r
    BY <2>2, <2>3 DEF r
  <2>5. 0 = r
    BY <2>3, <2>4, RemainderUnique
  <2> QED BY <2>5 DEF r
<1> QED BY <1>1, <1>2

(* Whole texts added to whole texts, and taken from them, are whole texts.   *)
LEMMA DivisibleSum ==
    ASSUME NEW M \in Nat, M > 0, NEW x \in Int, NEW y \in Int,
           x % M = 0, y % M = 0
    PROVE  (x + y) % M = 0 /\ (x - y) % M = 0
<1>1. PICK a \in Int : x = M * a
  BY Divisible
<1>2. PICK b \in Int : y = M * b
  BY Divisible
<1>3. x + y = M * (a + b) /\ x - y = M * (a - b)
  BY <1>1, <1>2
<1>4. /\ a + b \in Int /\ a - b \in Int
      /\ x + y \in Int /\ x - y \in Int
  OBVIOUS
<1> QED BY <1>3, <1>4, Divisible
=============================================================================
