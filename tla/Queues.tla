-------------------------------- MODULE Queues ---------------------------------
(* Facts about FIFO queues of distinct members, such as the waiters of an   *)
(* asyncio.Lock: a member joins at the end, leaves from the front, or gives *)
(* up from wherever it waits.                                               *)
EXTENDS Integers, Sequences, SequencesExt, TLAPS

Elems(q) == {q[i] : i \in DOMAIN q}
Distinct(q) == \A i, j \in DOMAIN q : q[i] = q[j] => i = j
Ahead(q, t, u) == \E i, j \in DOMAIN q : i < j /\ q[i] = t /\ q[j] = u

(* The empty queue.                                                         *)
LEMMA EmptyQueue ==
  /\ Elems(<<>>) = {} /\ Distinct(<<>>)
  /\ \A t, u : ~Ahead(<<>>, t, u)
BY DEF Elems, Distinct, Ahead

(* Every queue has a head, unless it is empty.                              *)
LEMMA HeadOfQueue ==
  ASSUME NEW S, NEW q \in Seq(S)
  PROVE  /\ Elems(q) \subseteq S
         /\ Elems(q) # {} <=> q # <<>>
         /\ q # <<>> => Head(q) \in Elems(q)
<1>1. q # <<>> => 1 \in DOMAIN q /\ Head(q) = q[1]
  OBVIOUS
<1>2. Elems(<<>>) = {}  BY EmptyQueue
<1> QED BY <1>1, <1>2 DEF Elems

(* A member that joins waits behind all the others.                         *)
LEMMA JoinQueue ==
  ASSUME NEW S, NEW q \in Seq(S), NEW t \in S, Distinct(q), t \notin Elems(q)
  PROVE  /\ Append(q, t) \in Seq(S) /\ Append(q, t) # <<>>
         /\ Elems(Append(q, t)) = Elems(q) \cup {t}
         /\ Distinct(Append(q, t))
         /\ Head(Append(q, t)) = IF q = <<>> THEN t ELSE Head(q)
         /\ \A x, y : Ahead(Append(q, t), x, y) => Ahead(q, x, y) \/ (x \in Elems(q) /\ y = t)
<1> DEFINE r == Append(q, t)
<1>1. /\ r \in Seq(S) /\ r # <<>> /\ Len(q) \in Nat
      /\ DOMAIN q = 1..Len(q) /\ DOMAIN r = 1..(Len(q) + 1)
      /\ r[Len(q) + 1] = t /\ \A i \in DOMAIN q : r[i] = q[i]
      /\ Head(r) = r[1] /\ (q = <<>> <=> Len(q) = 0) /\ (q # <<>> => Head(q) = q[1])
  OBVIOUS
<1> HIDE DEF r
<1>2. Elems(r) = Elems(q) \cup {t}
  <2>1. ASSUME NEW i \in DOMAIN r  PROVE r[i] \in Elems(q) \cup {t}
    BY <1>1 DEF Elems
  <2>2. ASSUME NEW i \in DOMAIN q  PROVE q[i] \in Elems(r)
    BY <1>1 DEF Elems
  <2>3. t \in Elems(r)
    <3>1. (Len(q) + 1) \in DOMAIN r  BY <1>1
    <3> QED BY <1>1, <3>1 DEF Elems
  <2> QED BY <2>1, <2>2, <2>3 DEF Elems
<1>3. Distinct(r)
  BY <1>1 DEF Distinct, Elems
<1>4. Head(r) = IF q = <<>> THEN t ELSE Head(q)
  BY <1>1
<1>5. ASSUME NEW x, NEW y, Ahead(r, x, y)  PROVE Ahead(q, x, y) \/ (x \in Elems(q) /\ y = t)
  <2>1. PICK i \in DOMAIN r, j \in DOMAIN r : i < j /\ r[i] = x /\ r[j] = y
    BY <1>5 DEF Ahead
  <2>2. i \in DOMAIN q /\ q[i] = x  BY <1>1, <2>1
  <2>3. CASE j \in DOMAIN q  BY <1>1, <2>1, <2>2, <2>3 DEF Ahead
  <2>4. CASE j \notin DOMAIN q
    <3>1. y = t  BY <1>1, <2>1, <2>4
    <3> QED BY <2>2, <3>1 DEF Elems
  <2> QED BY <2>3, <2>4
<1> QED BY <1>1, <1>2, <1>3, <1>4, <1>5 DEF r

(* When the head leaves, the others keep their order.                       *)
LEMMA LeaveQueue ==
  ASSUME NEW S, NEW q \in Seq(S), Distinct(q), q # <<>>
  PROVE  /\ Tail(q) \in Seq(S) /\ Head(q) \in S
         /\ Elems(Tail(q)) = Elems(q) \ {Head(q)}
         /\ Distinct(Tail(q))
         /\ \A x, y : Ahead(Tail(q), x, y) => Ahead(q, x, y)
         /\ \A y \in Elems(Tail(q)) : Ahead(q, Head(q), y)
<1> DEFINE r == Tail(q)
<1>1. /\ r \in Seq(S) /\ Len(q) \in Nat \ {0} /\ Head(q) = q[1] /\ Head(q) \in S
      /\ DOMAIN q = 1..Len(q) /\ DOMAIN r = 1..(Len(q) - 1)
      /\ \A i \in DOMAIN r : r[i] = q[i + 1]
  OBVIOUS
<1> HIDE DEF r
<1>2. ASSUME NEW i \in DOMAIN q, i # 1  PROVE (i - 1) \in DOMAIN r /\ r[i - 1] = q[i]
  BY <1>1, <1>2
<1>3. ASSUME NEW i \in DOMAIN r
      PROVE  (i + 1) \in DOMAIN q /\ r[i] = q[i + 1] /\ r[i] # q[1] /\ r[i] \in Elems(r)
  BY <1>1 DEF Distinct, Elems
<1>4. Elems(r) = Elems(q) \ {Head(q)}
  <2>1. ASSUME NEW x \in Elems(r)  PROVE x \in Elems(q) /\ x # Head(q)
    <3>1. PICK i \in DOMAIN r : x = r[i]  BY DEF Elems
    <3> QED BY <1>1, <1>3, <3>1 DEF Elems
  <2>2. ASSUME NEW x \in Elems(q), x # Head(q)  PROVE x \in Elems(r)
    <3>1. PICK i \in DOMAIN q : x = q[i]  BY DEF Elems
    <3>2. i # 1  BY <1>1, <2>2, <3>1
    <3> QED BY <1>2, <3>1, <3>2 DEF Elems
  <2> QED BY <2>1, <2>2
<1>5. Distinct(r)
  <2> SUFFICES ASSUME NEW i \in DOMAIN r, NEW j \in DOMAIN r, r[i] = r[j]  PROVE i = j
    BY DEF Distinct
  <2>1. q[i + 1] = q[j + 1] /\ (i + 1) \in DOMAIN q /\ (j + 1) \in DOMAIN q  BY <1>3
  <2>2. i + 1 = j + 1  BY <2>1 DEF Distinct
  <2> QED BY <1>1, <2>2
<1>6. ASSUME NEW x, NEW y, Ahead(r, x, y)  PROVE Ahead(q, x, y)
  <2>1. PICK i \in DOMAIN r, j \in DOMAIN r : i < j /\ r[i] = x /\ r[j] = y
    BY <1>6 DEF Ahead
  <2>2. i + 1 < j + 1 /\ q[i + 1] = x /\ q[j + 1] = y  BY <1>1, <2>1
  <2> QED BY <1>3, <2>2 DEF Ahead
<1>7. ASSUME NEW y \in Elems(r)  PROVE Ahead(q, Head(q), y)
  <2>1. PICK i \in DOMAIN r : y = r[i]  BY DEF Elems
  <2>2. 1 \in DOMAIN q /\ (i + 1) \in DOMAIN q /\ 1 < i + 1 /\ q[i + 1] = y  BY <1>1, <2>1
  <2> QED BY <1>1, <2>2 DEF Ahead
<1> QED BY <1>1, <1>4, <1>5, <1>6, <1>7 DEF r

(* The members of two sequences, one after the other.                       *)
LEMMA Concatenated ==
  ASSUME NEW S, NEW a \in Seq(S), NEW b \in Seq(S)
  PROVE  /\ a \o b \in Seq(S) /\ Len(a \o b) = Len(a) + Len(b)
         /\ Len(a) \in Nat /\ Len(b) \in Nat /\ DOMAIN (a \o b) = 1..(Len(a) + Len(b))
         /\ \A i \in 1..(Len(a) + Len(b)) :
              (a \o b)[i] = IF i <= Len(a) THEN a[i] ELSE b[i - Len(a)]
OBVIOUS

(* A member that takes the lock at once is in front of the others.          *)
LEMMA FrontOfQueue ==
  ASSUME NEW S, NEW q \in Seq(S), NEW t \in S, Distinct(q), t \notin Elems(q)
  PROVE  /\ <<t>> \o q \in Seq(S) /\ <<t>> \o q # <<>> /\ Head(<<t>> \o q) = t
         /\ Elems(<<t>> \o q) = Elems(q) \cup {t}
         /\ Distinct(<<t>> \o q)
<1> DEFINE r == <<t>> \o q
<1>0. <<t>> \in Seq(S) /\ Len(<<t>>) = 1 /\ <<t>>[1] = t
  OBVIOUS
<1>1. /\ r \in Seq(S) /\ Len(q) \in Nat /\ DOMAIN q = 1..Len(q) /\ DOMAIN r = 1..(1 + Len(q))
      /\ \A i \in 1..(1 + Len(q)) : r[i] = IF i <= 1 THEN t ELSE q[i - 1]
  BY <1>0, Concatenated
<1> HIDE DEF r
<1>2. r[1] = t /\ \A i \in DOMAIN r : i # 1 => (i - 1) \in DOMAIN q /\ r[i] = q[i - 1]
  BY <1>1
<1>3. \A i \in DOMAIN q : (i + 1) \in DOMAIN r /\ r[i + 1] = q[i]
  BY <1>1
<1>4. 1 \in DOMAIN r  BY <1>1
<1>5. r # <<>> /\ Head(r) = t
  BY <1>1, <1>2, <1>4
<1>6. Elems(r) = Elems(q) \cup {t}
  BY <1>2, <1>3, <1>4 DEF Elems
<1>7. Distinct(r)
  <2> SUFFICES ASSUME NEW i \in DOMAIN r, NEW j \in DOMAIN r, r[i] = r[j]  PROVE i = j
    BY DEF Distinct
  <2>1. CASE i = 1 \/ j = 1
    BY <1>2, <2>1 DEF Elems
  <2>2. CASE i # 1 /\ j # 1
    <3>1. q[i - 1] = q[j - 1] /\ (i - 1) \in DOMAIN q /\ (j - 1) \in DOMAIN q  BY <1>2, <2>2
    <3>2. i - 1 = j - 1  BY <3>1 DEF Distinct
    <3> QED BY <1>1, <3>2
  <2> QED BY <2>1, <2>2
<1> QED BY <1>1, <1>5, <1>6, <1>7 DEF r

(* RemoveFirst takes a member out, wherever it waits.                       *)
LEMMA RemovedAt ==
  ASSUME NEW S, NEW q \in Seq(S), Distinct(q), NEW k \in DOMAIN q
  PROVE  LET r == RemoveFirst(q, q[k])
         IN /\ r \in Seq(S) /\ DOMAIN r = 1..(Len(q) - 1)
            /\ \A i \in DOMAIN r : r[i] = q[IF i < k THEN i ELSE i + 1]
<1>1. Len(q) \in Nat /\ DOMAIN q = 1..Len(q)
  OBVIOUS
<1>2. {i \in 1..Len(q) : q[i] = q[k]} = {k}
  BY <1>1 DEF Distinct
<1>3. Min({k}) = k
  <2>1. k \in Int  BY <1>1
  <2>2. (CHOOSE x \in {k} : \A y \in {k} : x =< y) = k
    <3>1. \E x \in {k} : \A y \in {k} : x =< y  BY <2>1
    <3> QED BY <3>1
  <2> QED BY <2>2 DEF Min
<1>4. SelectInSeq(q, LAMBDA v : v = q[k]) = k
  BY <1>2, <1>3 DEF SelectInSeq
<1>5. RemoveFirst(q, q[k]) = SubSeq(q, 1, k - 1) \o SubSeq(q, k + 1, Len(q))
  BY <1>1, <1>4 DEF RemoveFirst, RemoveAt
<1> DEFINE a == SubSeq(q, 1, k - 1)
           b == SubSeq(q, k + 1, Len(q))
<1>6. a \in Seq(S) /\ Len(a) = k - 1 /\ \A i \in 1..(k - 1) : a[i] = q[i]
  BY <1>1
<1>7. b \in Seq(S) /\ Len(b) = Len(q) - k /\ \A i \in 1..(Len(q) - k) : b[i] = q[k + i]
  BY <1>1
<1> HIDE DEF a, b
<1>8. /\ a \o b \in Seq(S) /\ Len(a \o b) = Len(q) - 1
      /\ \A i \in 1..(Len(q) - 1) : (a \o b)[i] = IF i <= k - 1 THEN a[i] ELSE b[i - (k - 1)]
  <2>1. /\ a \o b \in Seq(S) /\ Len(a \o b) = Len(a) + Len(b)
        /\ \A i \in 1..(Len(a) + Len(b)) :
             (a \o b)[i] = IF i <= Len(a) THEN a[i] ELSE b[i - Len(a)]
    BY <1>6, <1>7, Concatenated
  <2>2. Len(a) = k - 1 /\ Len(b) = Len(q) - k  BY <1>6, <1>7
  <2>3. Len(a) + Len(b) = Len(q) - 1  BY <1>1, <2>2
  <2> QED BY <2>1, <2>2, <2>3
<1>9. \A i \in 1..(Len(q) - 1) : (a \o b)[i] = q[IF i < k THEN i ELSE i + 1]
  <2> SUFFICES ASSUME NEW i \in 1..(Len(q) - 1)
               PROVE  (a \o b)[i] = q[IF i < k THEN i ELSE i + 1]
    OBVIOUS
  <2>1. CASE i < k
    <3>1. i \in 1..(k - 1)  BY <1>1, <2>1
    <3> QED BY <1>1, <1>6, <1>8, <2>1, <3>1
  <2>2. CASE ~(i < k)
    <3>1. (i - (k - 1)) \in 1..(Len(q) - k) /\ k + (i - (k - 1)) = i + 1  BY <1>1, <2>2
    <3>2. b[i - (k - 1)] = q[i + 1]  BY <1>7, <3>1
    <3> QED BY <1>1, <1>8, <2>2, <3>2
  <2> QED BY <2>1, <2>2
<1>10. DOMAIN (a \o b) = 1..(Len(q) - 1)
  BY <1>8
<1> QED BY <1>5, <1>8, <1>9, <1>10 DEF a, b

LEMMA GiveUpQueue ==
  ASSUME NEW S, NEW q \in Seq(S), Distinct(q), NEW t
  PROVE  /\ RemoveFirst(q, t) \in Seq(S)
         /\ Elems(RemoveFirst(q, t)) = Elems(q) \ {t}
         /\ Distinct(RemoveFirst(q, t))
         /\ \A x, y : Ahead(RemoveFirst(q, t), x, y) => Ahead(q, x, y)
         /\ q # <<>> /\ Head(q) # t =>
              RemoveFirst(q, t) # <<>> /\ Head(RemoveFirst(q, t)) = Head(q)
<1>1. CASE t \notin Elems(q)
  <2>1. RemoveFirst(q, t) = q  BY <1>1 DEF RemoveFirst, Elems
  <2> QED BY <1>1, <2>1
<1>2. CASE t \in Elems(q)
  <2>1. PICK k \in DOMAIN q : t = q[k]  BY <1>2 DEF Elems
  <2> DEFINE r == RemoveFirst(q, t)
  <2>2. /\ r \in Seq(S) /\ DOMAIN r = 1..(Len(q) - 1)
        /\ \A i \in DOMAIN r : r[i] = q[IF i < k THEN i ELSE i + 1]
    BY <2>1, RemovedAt
  <2> HIDE DEF r
  <2>3. Len(q) \in Nat /\ DOMAIN q = 1..Len(q)
    OBVIOUS
  <2> DEFINE at(i) == IF i < k THEN i ELSE i + 1
  <2>4. ASSUME NEW i \in DOMAIN r
        PROVE  at(i) \in DOMAIN q /\ at(i) # k /\ r[i] = q[at(i)]
    BY <2>2, <2>3
  <2>5. ASSUME NEW j \in DOMAIN q, j # k
        PROVE  \E i \in DOMAIN r : at(i) = j
    <3>1. CASE j < k
      <4>1. j \in DOMAIN r /\ at(j) = j  BY <2>2, <2>3, <3>1
      <4> QED BY <4>1
    <3>2. CASE ~(j < k)
      <4>1. (j - 1) \in DOMAIN r /\ at(j - 1) = j  BY <2>2, <2>3, <2>5, <3>2
      <4> QED BY <4>1
    <3> QED BY <3>1, <3>2
  <2>6. ASSUME NEW i \in DOMAIN r, NEW j \in DOMAIN r
        PROVE  (at(i) = at(j) => i = j) /\ (i < j => at(i) < at(j))
    BY <2>2, <2>3
  <2> HIDE DEF at
  <2>7. Elems(r) = Elems(q) \ {t}
    <3>1. ASSUME NEW i \in DOMAIN r  PROVE r[i] \in Elems(q) /\ r[i] # t
      BY <2>1, <2>4 DEF Elems, Distinct
    <3>2. ASSUME NEW j \in DOMAIN q, q[j] # t  PROVE q[j] \in Elems(r)
      <4>1. PICK i \in DOMAIN r : at(i) = j  BY <2>1, <2>5, <3>2
      <4> QED BY <2>4, <4>1 DEF Elems
    <3> QED BY <3>1, <3>2 DEF Elems
  <2>8. Distinct(r)
    BY <2>4, <2>6 DEF Distinct
  <2>9. ASSUME NEW x, NEW y, Ahead(r, x, y)  PROVE Ahead(q, x, y)
    <3>1. PICK i \in DOMAIN r, j \in DOMAIN r : i < j /\ r[i] = x /\ r[j] = y
      BY <2>9 DEF Ahead
    <3> QED BY <2>4, <2>6, <3>1 DEF Ahead
  <2>10. ASSUME q # <<>>, Head(q) # t  PROVE r # <<>> /\ Head(r) = Head(q)
    <3>1. Head(q) = q[1] /\ k # 1 /\ Len(q) # 0  BY <2>1, <2>10
    <3>2. 1 \in DOMAIN r /\ r[1] = q[1]  BY <2>1, <2>2, <2>3, <3>1
    <3>3. r # <<>> /\ Head(r) = r[1]  BY <2>2, <3>2
    <3> QED BY <3>1, <3>2, <3>3
  <2> QED BY <2>2, <2>7, <2>8, <2>9, <2>10 DEF r
<1> QED BY <1>1, <1>2
--------------------------------------------------------------------------------
(* Queues whose members may repeat, such as the callbacks of an event loop. *)

Once(q, a) == \A i, j \in DOMAIN q : q[i] = a /\ q[j] = a => i = j

(* Every b in the queue has an a ahead of it.                               *)
Guarded(q, a, b) == \A j \in DOMAIN q : q[j] = b => \E i \in DOMAIN q : i < j /\ q[i] = a

(* What is known of a queue r that is q with x behind it, or q without its  *)
(* head.                                                                    *)
Gains(q, r, x) ==
  /\ Elems(r) = Elems(q) \cup {x}
  /\ \A a : Once(q, a) /\ (a = x => a \notin Elems(q)) => Once(r, a)
  /\ \A a, b : Guarded(q, a, b) /\ (b = x => a \in Elems(q)) => Guarded(r, a, b)
Loses(q, r, x) ==
  /\ x \in Elems(q) /\ Elems(r) \subseteq Elems(q)
  /\ \A a \in Elems(q) : a # x => a \in Elems(r)
  /\ \A a : Once(q, a) => Once(r, a) /\ (a = x => a \notin Elems(r))
  /\ \A a, b : Guarded(q, a, b) => b # x /\ (a # x => Guarded(r, a, b))

(* No b, no need of an a.                                                   *)
LEMMA NothingToGuard == ASSUME NEW q, NEW a, NEW b, b \notin Elems(q) PROVE Guarded(q, a, b)
BY DEF Elems, Guarded

LEMMA NeverTwice == ASSUME NEW q, NEW a, a \notin Elems(q) PROVE Once(q, a)
BY DEF Elems, Once

LEMMA AppendGains ==
  ASSUME NEW S, NEW q \in Seq(S), NEW x \in S
  PROVE  Append(q, x) \in Seq(S) /\ Gains(q, Append(q, x), x)
<1> DEFINE r == Append(q, x)
<1>1. /\ r \in Seq(S) /\ Len(q) \in Nat /\ r[Len(q) + 1] = x
      /\ DOMAIN q = 1..Len(q) /\ DOMAIN r = 1..(Len(q) + 1)
      /\ \A i \in DOMAIN q : r[i] = q[i]
  OBVIOUS
<1> HIDE DEF r
<1>2. ASSUME NEW i \in DOMAIN r
      PROVE  (i \in DOMAIN q /\ r[i] = q[i]) \/ (i = Len(q) + 1 /\ r[i] = x)
  BY <1>1
<1>3. \A i \in DOMAIN q : i \in DOMAIN r /\ i < Len(q) + 1
  BY <1>1
<1>4. Len(q) + 1 \in DOMAIN r  BY <1>1
<1>5. Elems(r) = Elems(q) \cup {x}
  BY <1>1, <1>2, <1>3, <1>4 DEF Elems
<1>6. ASSUME NEW a, Once(q, a), a = x => a \notin Elems(q)  PROVE Once(r, a)
  BY <1>2, <1>6 DEF Once, Elems
<1>7. ASSUME NEW a, NEW b, Guarded(q, a, b), b = x => a \in Elems(q)  PROVE Guarded(r, a, b)
  <2> SUFFICES ASSUME NEW j \in DOMAIN r, r[j] = b
               PROVE  \E i \in DOMAIN r : i < j /\ r[i] = a
    BY DEF Guarded
  <2>1. CASE j \in DOMAIN q
    BY <1>1, <1>3, <1>7, <2>1 DEF Guarded
  <2>2. CASE j = Len(q) + 1
    <3>1. PICK i \in DOMAIN q : q[i] = a  BY <1>1, <1>7, <2>2 DEF Elems
    <3> QED BY <1>1, <1>3, <2>2, <3>1
  <2> QED BY <1>2, <2>1, <2>2
<1> QED BY <1>1, <1>5, <1>6, <1>7 DEF r, Gains

LEMMA TailLoses ==
  ASSUME NEW S, NEW q \in Seq(S), q # <<>>
  PROVE  Head(q) \in S /\ Tail(q) \in Seq(S) /\ Loses(q, Tail(q), Head(q))
<1> DEFINE r == Tail(q)
           x == Head(q)
<1>1. /\ r \in Seq(S) /\ Len(q) \in Nat \ {0} /\ x = q[1] /\ x \in S
      /\ DOMAIN q = 1..Len(q) /\ DOMAIN r = 1..(Len(q) - 1)
      /\ \A i \in DOMAIN r : r[i] = q[i + 1]
  OBVIOUS
<1> HIDE DEF r, x
<1>2. ASSUME NEW i \in DOMAIN q, i # 1  PROVE (i - 1) \in DOMAIN r /\ r[i - 1] = q[i]
  BY <1>1, <1>2
<1>3. ASSUME NEW i \in DOMAIN r  PROVE (i + 1) \in DOMAIN q /\ i + 1 # 1 /\ r[i] = q[i + 1]
  BY <1>1
<1>4. 1 \in DOMAIN q  BY <1>1
<1>5. x \in Elems(q) /\ Elems(r) \subseteq Elems(q)
  BY <1>1, <1>3, <1>4 DEF Elems
<1>6. ASSUME NEW a \in Elems(q), a # x  PROVE a \in Elems(r)
  <2>1. PICK i \in DOMAIN q : q[i] = a  BY DEF Elems
  <2> QED BY <1>1, <1>2, <1>6, <2>1 DEF Elems
<1>7. ASSUME NEW a, Once(q, a)  PROVE Once(r, a) /\ (a = x => a \notin Elems(r))
  <2>1. ASSUME NEW i \in DOMAIN r, NEW j \in DOMAIN r, r[i] = a, r[j] = a  PROVE i = j
    <3>1. i + 1 = j + 1  BY <1>3, <1>7, <2>1 DEF Once
    <3> QED BY <1>1, <3>1
  <2>2. ASSUME a = x, NEW i \in DOMAIN r, r[i] = a  PROVE FALSE
    BY <1>1, <1>3, <1>4, <1>7, <2>2 DEF Once
  <2> QED BY <2>1, <2>2 DEF Once, Elems
<1>8. ASSUME NEW a, NEW b, Guarded(q, a, b)  PROVE b # x /\ (a # x => Guarded(r, a, b))
  <2>1. b # x
    BY <1>1, <1>4, <1>8 DEF Guarded
  <2>2. ASSUME a # x, NEW j \in DOMAIN r, r[j] = b
        PROVE  \E i \in DOMAIN r : i < j /\ r[i] = a
    <3>1. PICK i \in DOMAIN q : i < j + 1 /\ q[i] = a
      BY <1>3, <1>8, <2>2 DEF Guarded
    <3>2. i # 1  BY <1>1, <2>2, <3>1
    <3>3. (i - 1) \in DOMAIN r /\ r[i - 1] = a /\ i - 1 < j  BY <1>1, <1>2, <3>1, <3>2
    <3> QED BY <3>3
  <2> QED BY <2>1, <2>2 DEF Guarded
<1> QED BY <1>1, <1>5, <1>6, <1>7, <1>8 DEF r, x, Loses

(* Putting one member behind a sequence is appending it.                    *)
LEMMA BehindIsAppend ==
  ASSUME NEW S, NEW q \in Seq(S), NEW x \in S
  PROVE  q \o <<x>> = Append(q, x) /\ q \o <<>> = q
OBVIOUS
================================================================================
