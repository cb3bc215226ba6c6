-------------------------- MODULE Messages_proofs ---------------------------
(***************************************************************************)
(* Where messages come to stand in the queue, for any due times and        *)
(* priorities; and that their memory has one user, and what they own is    *)
(* destroyed once, for any messages, objects, tags and capacity of the     *)
(* pool.                                                                   *)
(***************************************************************************)
EXTENDS InsertionOrder, MessagePool, MessageOrder_proofs

-----------------------------------------------------------------------------
(* Insertion                                                               *)

(* The n messages of the queue are numbered.                               *)
OrderInv ==
  LET n == Len(ordered)
  IN  /\ ordered \in Seq(1..n)
      /\ dueOf \in [1..n -> DueTimes] /\ priorityOf \in [1..n -> Priorities]
      /\ dueOf \in Seq(DueTimes) /\ priorityOf \in Seq(Priorities)
      /\ Sorted(ordered, dueOf, priorityOf)

LEMMA InsertIsStable ==
  ASSUME NEW S, NEW q \in Seq(S), NEW due \in [S -> Int], NEW priority \in [S -> Int],
         NEW m \in S, Sorted(q, due, priority)
  PROVE  InsertsStably(q, due, priority, m)
<1> DEFINE p == FindInsertPosition(q, due, priority, m)
<1>1. p \in 1..(Len(q) + 1)
  BY PositionInRange
<1>2. /\ \A i \in 1..(p - 1) : ~Before(due, priority, m, q[i])
      /\ \A i \in p..Len(q) : Before(due, priority, m, q[i])
  BY <1>1, PositionSeparates
<1>3. Insert(q, due, priority, m) = SubSeq(q, 1, p - 1) \o <<m>> \o SubSeq(q, p, Len(q))
  BY DEF Insert, InsertAt
<1> HIDE DEF p
<1> QED
  BY <1>1, <1>2, <1>3 DEF InsertsStably

(* The queue with the message that comes next.                             *)
LEMMA AppendedOrder ==
  ASSUME OrderInv, NEW d \in DueTimes, NEW p \in Priorities
  PROVE  LET n    == Len(ordered) + 1
             due  == Append(dueOf, d)
             prio == Append(priorityOf, p)
         IN  /\ n \in Nat /\ n \in 1..n /\ ordered \in Seq(1..n)
             /\ due \in [1..n -> DueTimes] /\ prio \in [1..n -> Priorities]
             /\ due \in [1..n -> Int] /\ prio \in [1..n -> Int]
             /\ due \in Seq(DueTimes) /\ prio \in Seq(Priorities)
             /\ Sorted(ordered, due, prio)
<1> DEFINE l    == Len(ordered)
           n    == l + 1
           due  == Append(dueOf, d)
           prio == Append(priorityOf, p)
<1>1. /\ l \in Nat /\ ordered \in Seq(1..l)
      /\ dueOf \in [1..l -> DueTimes] /\ priorityOf \in [1..l -> Priorities]
      /\ dueOf \in Seq(DueTimes) /\ priorityOf \in Seq(Priorities)
      /\ Sorted(ordered, dueOf, priorityOf)
  BY DEF OrderInv
<1> HIDE DEF l
<1>2. Len(dueOf) = l /\ Len(priorityOf) = l
  BY <1>1
<1>3. /\ due \in Seq(DueTimes) /\ Len(due) = n /\ \A i \in 1..l : due[i] = dueOf[i]
      /\ prio \in Seq(Priorities) /\ Len(prio) = n /\ \A i \in 1..l : prio[i] = priorityOf[i]
  BY <1>1, <1>2
<1> HIDE DEF due, prio
<1>4. due \in [1..n -> DueTimes] /\ prio \in [1..n -> Priorities]
  BY <1>3
<1>5. due \in [1..n -> Int] /\ prio \in [1..n -> Int]
  BY <1>4, OrderAssumption
<1>6. n \in Nat /\ n \in 1..n /\ 1..l \subseteq 1..n
  BY <1>1
<1> HIDE DEF n
<1>7. ordered \in Seq(1..n) /\ \A i \in 1..Len(ordered) : ordered[i] \in 1..l
  BY <1>1, <1>6
<1>8. Sorted(ordered, due, prio)
  BY <1>1, <1>3, <1>7 DEF Sorted, Before
<1> QED
  BY <1>3, <1>4, <1>5, <1>6, <1>7, <1>8 DEF l, n, due, prio

LEMMA InsertOrders ==
  ASSUME NEW S, NEW q \in Seq(S), NEW due \in [S -> Int], NEW priority \in [S -> Int],
         NEW m \in S, Sorted(q, due, priority)
  PROVE  /\ Insert(q, due, priority, m) \in Seq(S)
         /\ Len(Insert(q, due, priority, m)) = Len(q) + 1
         /\ Sorted(Insert(q, due, priority, m), due, priority)
<1>1. Insert(q, due, priority, m) \in Seq(S)
  BY InsertType
<1>2. Len(Insert(q, due, priority, m)) = Len(q) + 1
  BY InsertLength
<1>3. Sorted(Insert(q, due, priority, m), due, priority)
  BY InsertKeepsSorted
<1> QED
  BY <1>1, <1>2, <1>3

LEMMA PostOrders == ASSUME OrderInv, PostNext PROVE OrderInv'
<1>1. PICK d \in DueTimes, p \in Priorities :
        /\ dueOf' = Append(dueOf, d)
        /\ priorityOf' = Append(priorityOf, p)
        /\ ordered' = Insert(ordered, dueOf', priorityOf', Len(ordered) + 1)
  BY DEF PostNext
<1> DEFINE n == Len(ordered) + 1
<1>2. /\ n \in Nat /\ n \in 1..n /\ ordered \in Seq(1..n)
      /\ dueOf' \in [1..n -> DueTimes] /\ priorityOf' \in [1..n -> Priorities]
      /\ dueOf' \in [1..n -> Int] /\ priorityOf' \in [1..n -> Int]
      /\ dueOf' \in Seq(DueTimes) /\ priorityOf' \in Seq(Priorities)
      /\ Sorted(ordered, dueOf', priorityOf')
  BY <1>1, AppendedOrder
<1>3. ordered' = Insert(ordered, dueOf', priorityOf', n) /\ n = Len(ordered) + 1
  BY <1>1
<1> HIDE DEF n
<1>4. /\ ordered' \in Seq(1..n) /\ Len(ordered') = n
      /\ Sorted(ordered', dueOf', priorityOf')
  <2> DEFINE S == 1..n
  <2>1. /\ ordered \in Seq(S) /\ n \in S
        /\ dueOf' \in [S -> Int] /\ priorityOf' \in [S -> Int]
        /\ Sorted(ordered, dueOf', priorityOf')
    BY <1>2
  <2> HIDE DEF S
  <2>2. /\ Insert(ordered, dueOf', priorityOf', n) \in Seq(S)
        /\ Len(Insert(ordered, dueOf', priorityOf', n)) = Len(ordered) + 1
        /\ Sorted(Insert(ordered, dueOf', priorityOf', n), dueOf', priorityOf')
    BY <2>1, InsertOrders
  <2> QED
    BY <1>3, <2>2 DEF S
<1> QED
  BY <1>2, <1>4 DEF OrderInv

LEMMA OrderNextInv == ASSUME OrderInv, [OrderNext]_orderVars PROVE OrderInv'
<1>1. CASE RemoveEvery
  BY <1>1 DEF RemoveEvery, OrderInv, Sorted
<1>2. CASE UNCHANGED orderVars
  <2>1. ordered' = ordered /\ dueOf' = dueOf /\ priorityOf' = priorityOf
    BY <1>2 DEF orderVars
  <2> QED
    BY <2>1 DEF OrderInv
<1> QED
  BY <1>1, <1>2, PostOrders DEF OrderNext

(* Whatever messages were inserted, the next one is inserted behind those  *)
(* that it need not precede and before those that have to run later, and   *)
(* the queue stays sorted (findInsertPositionLocked).                      *)
THEOREM InsertionIsAlwaysStable == OrderSpec => []InsertionIsStable
<1>1. OrderInit => OrderInv
  BY DEF OrderInit, OrderInv, Sorted
<1>2. OrderInv /\ [OrderNext]_orderVars => OrderInv'
  BY OrderNextInv
<1>3. OrderInv => InsertionIsStable
  <2> SUFFICES ASSUME OrderInv PROVE InsertionIsStable
    OBVIOUS
  <2>1. ASSUME NEW d \in DueTimes, NEW p \in Priorities
        PROVE  InsertsStably(ordered, Append(dueOf, d), Append(priorityOf, p), Len(ordered) + 1)
    BY <2>1, AppendedOrder, InsertIsStable
  <2> QED
    BY <2>1 DEF InsertionIsStable, OrderInv
<1> QED
  BY <1>1, <1>2, <1>3, PTL DEF OrderSpec

-----------------------------------------------------------------------------
(* Memory                                                                  *)

ObjectState == {"unborn", "alive", "dead", "destroyedTwice"}

(* MessagesAreRecycled of a pool p, messages ms and objects os, which      *)
(* Release is given when a step has changed them before.                   *)
Pooled(p, ms) ==
  /\ p \in Seq(Items) /\ Len(p) <= PoolCapacity
  /\ \A a, b \in 1..Len(p) : p[a] = p[b] => a = b
  /\ \A i \in Items : ms[i].at = "pool" <=> \E a \in 1..Len(p) : p[a] = i

Owned(ms, os) ==
  /\ \A o \in Objects : os[o] # "destroyedTwice"
  /\ \A i \in Items :
       ms[i].object # NoObject => ms[i].at \notin {"heap", "pool"} /\ os[ms[i].object] = "alive"
  /\ \A i, j \in Items : ms[i].object = ms[j].object => i = j \/ ms[i].object = NoObject

Recycled(p, ms, os) ==
  /\ ms \in [Items -> Message]
  /\ os \in [Objects -> ObjectState]
  /\ Pooled(p, ms)
  /\ Owned(ms, os)

PoolInv == Recycled(pool, msgs, objects) /\ isOpen \in BOOLEAN

LEMMA InvIsRecycled == PoolInv <=> MessagesAreRecycled
<1> USE DEF PoolInv, Recycled, Pooled, Owned, ObjectState, MessagesAreRecycled, OneUser,
            PoolTypeOK, ObjectsAreCleanedOnce
<1>1. ASSUME pool \in Seq(Items)
      PROVE  IsInjective(pool) <=> \A a, b \in 1..Len(pool) : pool[a] = pool[b] => a = b
  BY <1>1 DEF IsInjective
<1>2. ASSUME pool \in Seq(Items)
      PROVE  ToSet(pool) = At("pool") <=>
               \A i \in Items : msgs[i].at = "pool" <=> \E a \in 1..Len(pool) : pool[a] = i
  <2>1. \A i : i \in ToSet(pool) <=> \E a \in 1..Len(pool) : pool[a] = i
    BY <1>2 DEF ToSet
  <2>2. \A i \in ToSet(pool) : i \in Items
    BY <1>2, <2>1
  <2>3. \A i : i \in At("pool") <=> i \in Items /\ msgs[i].at = "pool"
    BY DEF At
  <2> QED
    BY <2>1, <2>2, <2>3
<1> QED
  BY <1>1, <1>2

-----------------------------------------------------------------------------
(* What is released                                                        *)

LEMMA MinOfTwo ==
  ASSUME NEW a \in Int, NEW b \in Int
  PROVE  /\ Min({a, b}) \in {a, b} /\ Min({a, b}) <= a /\ Min({a, b}) <= b
<1>1. \E x \in {a, b} : \A y \in {a, b} : x =< y
  OBVIOUS
<1> QED
  BY <1>1 DEF Min

(* As many as there is room for, the first ones.                           *)
LEMMA KeptIsPrefix ==
  ASSUME NEW room \in Nat, NEW s \in Seq(Items)
  PROVE  /\ Kept(room, s) \in Seq(Items)
         /\ Len(Kept(room, s)) <= room /\ Len(Kept(room, s)) <= Len(s)
         /\ \A a \in 1..Len(Kept(room, s)) : Kept(room, s)[a] = s[a]
<1> DEFINE n == Min({room, Len(s)})
           k == Kept(room, s)
<1>1. n \in Nat /\ n <= room /\ n <= Len(s)
  <2>1. Len(s) \in Nat /\ Len(s) \in Int /\ room \in Int
    OBVIOUS
  <2>2. n \in {room, Len(s)} /\ n <= room /\ n <= Len(s)
    BY <2>1, MinOfTwo
  <2> QED
    BY <2>1, <2>2
<1>2. k = SubSeq(s, 1, n)
  BY DEF Kept
<1> HIDE DEF n, k
<1>3. \A a \in 1..n : s[a] \in Items
  BY <1>1
<1>4. k \in Seq(Items) /\ Len(k) = n /\ \A a \in 1..n : k[a] = s[a]
  <2>1. /\ k \in Seq(Items)
        /\ Len(k) = IF 1 <= n THEN n - 1 + 1 ELSE 0
        /\ \A a \in 1..n - 1 + 1 : k[a] = s[1 + a - 1]
    BY <1>1, <1>2, <1>3, SubSeqProperties
  <2> QED
    BY <1>1, <2>1
<1> QED
  BY <1>1, <1>4 DEF k

LEMMA InToSet == ASSUME NEW s \in Seq(Items), NEW i
                 PROVE  i \in ToSet(s) <=> \E a \in 1..Len(s) : s[a] = i
  BY DEF ToSet

(* Release keeps the memory, and what it owns, in order.                   *)
LEMMA ReleaseRecycles ==
  ASSUME NEW from, NEW ms, NEW os, Recycled(from, ms, os),
         NEW released \in Seq(Items),
         \A a, b \in 1..Len(released) : released[a] = released[b] => a = b,
         \A a \in 1..Len(released) : ms[released[a]].at \notin {"heap", "pool"},
         Release(from, released, ms, os)
  PROVE  Recycled(pool', msgs', objects')
<1> DEFINE kept == Kept(PoolCapacity - Len(from), released)
           gone == {ms[i].object : i \in ToSet(released)} \ {NoObject}
<1>1. /\ ms \in [Items -> Message] /\ os \in [Objects -> ObjectState]
      /\ from \in Seq(Items) /\ Len(from) <= PoolCapacity
  BY DEF Recycled, Pooled
<1>2. PoolCapacity - Len(from) \in Nat
  BY <1>1, PoolAssumption
<1>3. /\ kept \in Seq(Items)
      /\ Len(kept) <= PoolCapacity - Len(from) /\ Len(kept) <= Len(released)
      /\ \A a \in 1..Len(kept) : kept[a] = released[a]
  BY <1>2, KeptIsPrefix
<1>4. /\ pool' = from \o kept
      /\ msgs' = [i \in Items |->
                    IF i \in ToSet(kept) THEN [performCleanup(ms[i]) EXCEPT !.at = "pool"]
                    ELSE IF i \in ToSet(released) THEN NewMessage
                    ELSE ms[i]]
      /\ objects' = [o \in Objects |-> IF o \in gone THEN Destroyed(os[o]) ELSE os[o]]
  BY DEF Release
<1> HIDE DEF kept
<1>5. \A i \in ToSet(kept) : i \in ToSet(released)
  BY <1>3, InToSet
<1>6. \A i \in Items :
        /\ i \in ToSet(kept) => msgs'[i].at = "pool" /\ msgs'[i].object = NoObject
        /\ i \in ToSet(released) /\ i \notin ToSet(kept) =>
             msgs'[i].at = "heap" /\ msgs'[i].object = NoObject
        /\ i \notin ToSet(released) => msgs'[i] = ms[i]
        /\ msgs'[i] \in Message
  <2> TAKE i \in Items
  <2>1. ms[i] \in Message
    BY <1>1
  <2>2. CASE i \in ToSet(kept)
    <3>1. msgs'[i] = [performCleanup(ms[i]) EXCEPT !.at = "pool"]
      BY <1>4, <2>2
    <3>2. msgs'[i] = [ms[i] EXCEPT !.at = "pool", !.hasHandler = FALSE, !.object = NoObject]
      BY <2>1, <3>1 DEF performCleanup, Message
    <3> QED
      BY <1>5, <2>1, <2>2, <3>2 DEF Message
  <2>3. CASE i \notin ToSet(kept) /\ i \in ToSet(released)
    <3>1. msgs'[i] = NewMessage
      BY <1>4, <2>3
    <3> QED
      BY <2>3, <3>1 DEF NewMessage, Message
  <2>4. CASE i \notin ToSet(released)
    BY <1>4, <1>5, <2>1, <2>4
  <2> QED
    BY <2>2, <2>3, <2>4
<1>7. msgs' \in [Items -> Message]
  BY <1>4, <1>6
<1>8. Pooled(pool', msgs')
  <2> DEFINE m == Len(from)
             k == Len(kept)
  <2>1. m \in Nat /\ k \in Nat /\ m + k <= PoolCapacity
    BY <1>1, <1>3, PoolAssumption
  <2>2. /\ pool' \in Seq(Items) /\ Len(pool') = m + k
        /\ \A a \in 1..m + k : pool'[a] = IF a <= m THEN from[a] ELSE kept[a - m]
    BY <1>1, <1>3, <1>4, ConcatProperties
  <2> HIDE DEF m, k
  <2>3. /\ \A a \in 1..m : from[a] \in Items /\ ms[from[a]].at = "pool"
        /\ \A a, b \in 1..m : from[a] = from[b] => a = b
        /\ \A i \in Items : ms[i].at = "pool" <=> \E a \in 1..m : from[a] = i
    BY <1>1 DEF Recycled, Pooled, m
  <2>4. /\ \A a \in 1..k : a \in 1..Len(released) /\ kept[a] = released[a] /\ kept[a] \in Items
        /\ \A i : i \in ToSet(kept) <=> \E a \in 1..k : kept[a] = i
    BY <1>3, InToSet DEF k
  <2>5. \A a, b \in 1..m + k : pool'[a] = pool'[b] => a = b
    <3> SUFFICES ASSUME NEW a \in 1..m + k, NEW b \in 1..m + k, pool'[a] = pool'[b] PROVE a = b
      OBVIOUS
    <3>1. CASE a <= m /\ b <= m
      BY <2>1, <2>2, <2>3, <3>1
    <3>2. CASE a > m /\ b > m
      <4>1. a - m \in 1..k /\ b - m \in 1..k /\ kept[a - m] = kept[b - m]
        BY <2>1, <2>2, <3>2
      <4>2. a - m = b - m
        BY <2>4, <4>1
      <4> QED
        BY <2>1, <4>2
    <3>3. CASE a <= m /\ b > m
      <4>1. b - m \in 1..k /\ a \in 1..m /\ from[a] = kept[b - m]
        BY <2>1, <2>2, <3>3
      <4> QED
        BY <2>3, <2>4, <4>1
    <3>4. CASE a > m /\ b <= m
      <4>1. a - m \in 1..k /\ b \in 1..m /\ from[b] = kept[a - m]
        BY <2>1, <2>2, <3>4
      <4> QED
        BY <2>3, <2>4, <4>1
    <3> QED
      BY <2>1, <3>1, <3>2, <3>3, <3>4
  <2>6. \A i \in Items : msgs'[i].at = "pool" <=> \E a \in 1..m + k : pool'[a] = i
    <3> TAKE i \in Items
    <3>1. (\E a \in 1..m + k : pool'[a] = i) <=> (\E a \in 1..m : from[a] = i) \/ i \in ToSet(kept)
      <4>1. ASSUME NEW a \in 1..m + k, pool'[a] = i
            PROVE  (\E b \in 1..m : from[b] = i) \/ i \in ToSet(kept)
        <5>1. CASE a <= m
          BY <2>1, <2>2, <4>1, <5>1
        <5>2. CASE a > m
          <6>1. a - m \in 1..k /\ kept[a - m] = i
            BY <2>1, <2>2, <4>1, <5>2
          <6> QED
            BY <2>4, <6>1
        <5> QED
          BY <2>1, <5>1, <5>2
      <4>2. ASSUME NEW a \in 1..m, from[a] = i PROVE \E b \in 1..m + k : pool'[b] = i
        <5>1. a \in 1..m + k /\ a <= m
          BY <2>1
        <5> QED
          BY <2>2, <4>2, <5>1
      <4>3. ASSUME NEW a \in 1..k, kept[a] = i PROVE \E b \in 1..m + k : pool'[b] = i
        <5> DEFINE b == a + m
        <5>1. b \in 1..m + k /\ ~(b <= m) /\ b - m = a
          BY <2>1
        <5> HIDE DEF b
        <5>2. pool'[b] = kept[a]
          BY <2>2, <5>1
        <5> QED
          BY <4>3, <5>1, <5>2
      <4> QED
        BY <2>4, <4>1, <4>2, <4>3
    <3>2. i \in ToSet(released) => ms[i].at # "pool"
      BY InToSet
    <3>3. CASE i \in ToSet(released)
      BY <1>6, <2>3, <3>1, <3>2, <3>3
    <3>4. CASE i \notin ToSet(released)
      BY <1>5, <1>6, <2>3, <3>1, <3>4
    <3> QED
      BY <3>3, <3>4
  <2> QED
    BY <2>1, <2>2, <2>5, <2>6 DEF Pooled
<1>9. /\ \A o \in Objects : os[o] # "destroyedTwice"
      /\ \A i \in Items :
           ms[i].object # NoObject => ms[i].at \notin {"heap", "pool"} /\ os[ms[i].object] = "alive"
      /\ \A i, j \in Items : ms[i].object = ms[j].object => i = j \/ ms[i].object = NoObject
      /\ \A i \in Items : ms[i].object \in Objects \cup {NoObject}
  BY <1>1 DEF Recycled, Owned, Message
<1>10. \A o \in gone : o \in Objects /\ os[o] = "alive" /\
                       \E i \in Items : i \in ToSet(released) /\ ms[i].object = o
  <2>1. \A i \in ToSet(released) : i \in Items
    BY InToSet
  <2> QED
    BY <1>9, <2>1
<1>11. \A o \in Objects : objects'[o] = IF o \in gone THEN "dead" ELSE os[o]
  BY <1>4, <1>10 DEF Destroyed
<1>12. objects' \in [Objects -> ObjectState]
  <2>1. \A o \in Objects : os[o] \in ObjectState /\ Destroyed(os[o]) \in ObjectState
    BY <1>1 DEF ObjectState, Destroyed
  <2> QED
    BY <1>4, <2>1
<1> HIDE DEF gone
<1>13. Owned(msgs', objects')
  <2>1. \A o \in Objects : objects'[o] # "destroyedTwice"
    BY <1>9, <1>11
  <2>2. \A i \in Items : msgs'[i].object # NoObject =>
                           i \notin ToSet(released) /\ msgs'[i] = ms[i] /\ ms[i].object \notin gone
    BY <1>5, <1>6, <1>9, <1>10
  <2>3. \A i \in Items :
          msgs'[i].object # NoObject =>
            msgs'[i].at \notin {"heap", "pool"} /\ objects'[msgs'[i].object] = "alive"
    BY <1>9, <1>11, <2>2
  <2>4. \A i, j \in Items : msgs'[i].object = msgs'[j].object => i = j \/ msgs'[i].object = NoObject
    BY <1>9, <2>2
  <2> QED
    BY <2>1, <2>3, <2>4 DEF Owned
<1> QED
  BY <1>7, <1>8, <1>12, <1>13 DEF Recycled
-----------------------------------------------------------------------------
(* Steps                                                                   *)

(* The last of the pool is taken, or memory that is in no pool.            *)
LEMMA RestIsPooled ==
  ASSUME Recycled(pool, msgs, objects), NEW i \in Obtainable, NEW m,
         m \in [Items -> Message], m[i].at # "pool",
         \A j \in Items \ {i} : m[j].at = msgs[j].at
  PROVE  /\ i \in Items /\ msgs[i].at \in {"heap", "pool"}
         /\ Pooled(Rest, m)
<1>1. /\ pool \in Seq(Items) /\ Len(pool) <= PoolCapacity
      /\ \A a, b \in 1..Len(pool) : pool[a] = pool[b] => a = b
      /\ \A j \in Items : msgs[j].at = "pool" <=> \E a \in 1..Len(pool) : pool[a] = j
  BY DEF Recycled, Pooled
<1>2. CASE pool = << >>
  <2>1. i \in Items /\ msgs[i].at = "heap"
    BY <1>2 DEF Obtainable, At
  <2>2. \A j \in Items : m[j].at # "pool"
    BY <1>1, <1>2, <2>1
  <2>3. Rest = << >> /\ Len(pool) = 0
    BY <1>2 DEF Rest
  <2> QED
    BY <1>1, <1>2, <2>1, <2>2, <2>3 DEF Pooled
<1>3. CASE pool # << >>
  <2> DEFINE n == Len(pool) - 1
             r == Rest
  <2>1. n \in Nat /\ Len(pool) = n + 1
    BY <1>1, <1>3
  <2>2. i = pool[n + 1]
    BY <1>3, <2>1 DEF Obtainable, Last
  <2>3. r \in Seq(Items) /\ Len(r) = n /\ \A a \in 1..n : r[a] = pool[a]
    <3>1. \A a \in 1..n : pool[a] \in Items
      BY <1>1, <2>1
    <3>2. r = SubSeq(pool, 1, n)
      BY <1>3 DEF Rest, Front
    <3> HIDE DEF n, r
    <3>3. /\ r \in Seq(Items)
          /\ Len(r) = IF 1 <= n THEN n - 1 + 1 ELSE 0
          /\ \A a \in 1..n - 1 + 1 : r[a] = pool[1 + a - 1]
      BY <2>1, <3>1, <3>2, SubSeqProperties
    <3> QED
      BY <2>1, <3>3
  <2> HIDE DEF n, r
  <2>4. i \in Items /\ n + 1 \in 1..Len(pool)
    BY <1>1, <2>1, <2>2
  <2>5. msgs[i].at = "pool"
    BY <1>1, <2>2, <2>4
  <2>6. \A a \in 1..n : a \in 1..Len(pool) /\ a # n + 1
    BY <2>1
  <2>7. ASSUME NEW j \in Items PROVE m[j].at = "pool" <=> \E a \in 1..n : r[a] = j
    <3>1. CASE j = i
      BY <1>1, <2>2, <2>3, <2>4, <2>6, <3>1
    <3>2. CASE j # i
      <4>1. m[j].at = "pool" <=> \E a \in 1..Len(pool) : pool[a] = j
        BY <1>1, <3>2
      <4>2. \A a \in 1..Len(pool) : a \in 1..n \/ a = n + 1
        BY <2>1
      <4> QED
        BY <2>2, <2>3, <2>6, <3>2, <4>1, <4>2
    <3> QED
      BY <3>1, <3>2
  <2>8. \A a, b \in 1..n : r[a] = r[b] => a = b
    <3> SUFFICES ASSUME NEW a \in 1..n, NEW b \in 1..n, r[a] = r[b] PROVE a = b
      OBVIOUS
    <3>1. pool[a] = pool[b] /\ a \in 1..Len(pool) /\ b \in 1..Len(pool)
      BY <2>3, <2>6
    <3> QED
      BY <1>1, <3>1
  <2>9. Pooled(r, m)
    <3>1. Len(r) <= PoolCapacity
      BY <1>1, <2>1, <2>3, PoolAssumption
    <3> QED
      BY <2>3, <2>7, <2>8, <3>1 DEF Pooled
  <2> QED
    BY <2>4, <2>5, <2>9 DEF r
<1> QED
  BY <1>2, <1>3

(* A message given to nobody owns nothing.                                 *)
LEMMA FreeOwnsNothing ==
  ASSUME NEW p, NEW ms, NEW os, Recycled(p, ms, os), NEW i \in Items, ms[i].at \in {"heap", "pool"}
  PROVE  ms[i].object = NoObject
  BY DEF Recycled, Owned

(* A field of one message is set, that stays with its user.                *)
LEMMA UseRecycles ==
  ASSUME PoolInv, NEW i \in Items, NEW m \in Message,
         msgs[i].at \notin {"heap", "pool"},
         m.at \notin {"heap", "pool"}, m.object = msgs[i].object,
         pool' = pool, msgs' = [msgs EXCEPT ![i] = m], objects' = objects, isOpen' = isOpen
  PROVE  PoolInv'
<1>1. /\ msgs' \in [Items -> Message] /\ msgs'[i] = m
      /\ \A j \in Items \ {i} : msgs'[j] = msgs[j]
  BY DEF PoolInv, Recycled
<1>2. Pooled(pool, msgs')
  BY <1>1 DEF PoolInv, Recycled, Pooled
<1>3. Owned(msgs', objects)
  BY <1>1 DEF PoolInv, Recycled, Owned
<1> QED
  BY <1>1, <1>2, <1>3 DEF PoolInv, Recycled

LEMMA ObtainInv == ASSUME PoolInv, obtainInplaceMessage PROVE PoolInv'
<1>1. PICK i \in Obtainable :
        msgs' = [msgs EXCEPT ![i].at = "held", ![i].hasHandler = TRUE, ![i].given = NoTag]
  BY DEF obtainInplaceMessage
<1>2. msgs \in [Items -> Message] /\ Recycled(pool, msgs, objects)
  BY DEF PoolInv, Recycled
<1>3. i \in Items
  BY <1>2 DEF Obtainable, At, Last, Recycled, Pooled
<1>4. msgs[i] \in Message
  BY <1>2, <1>3
<1> DEFINE m == [msgs[i] EXCEPT !.at = "held", !.hasHandler = TRUE, !.given = NoTag]
<1>5. m \in Message /\ m.at = "held" /\ m.object = msgs[i].object
  BY <1>4 DEF Message
<1>6. msgs' = [msgs EXCEPT ![i] = m]
  BY <1>1, <1>2, <1>3, <1>4 DEF Message
<1> HIDE DEF m
<1>7. /\ msgs' \in [Items -> Message] /\ msgs'[i] = m
      /\ \A j \in Items \ {i} : msgs'[j] = msgs[j]
  BY <1>2, <1>3, <1>5, <1>6
<1>8. msgs[i].at \in {"heap", "pool"} /\ Pooled(Rest, msgs')
  BY <1>2, <1>5, <1>7, RestIsPooled
<1>9. msgs[i].object = NoObject
  BY <1>2, <1>3, <1>8, FreeOwnsNothing
<1>10. Owned(msgs', objects)
  BY <1>2, <1>5, <1>7, <1>9 DEF Recycled, Owned
<1> QED
  BY <1>2, <1>7, <1>8, <1>10 DEF PoolInv, Recycled, obtainInplaceMessage

LEMMA PlaceInv == ASSUME PoolInv, inplaceObject PROVE PoolInv'
<1>1. PICK i \in At("held"), o \in Objects :
        /\ msgs[i].object = NoObject /\ objects[o] = "unborn"
        /\ msgs' = [msgs EXCEPT ![i].object = o]
        /\ objects' = [objects EXCEPT ![o] = "alive"]
        /\ UNCHANGED <<pool, isOpen>>
  BY DEF inplaceObject
<1>2. /\ msgs \in [Items -> Message] /\ objects \in [Objects -> ObjectState]
      /\ Pooled(pool, msgs) /\ Owned(msgs, objects)
  BY DEF PoolInv, Recycled
<1>3. i \in Items /\ msgs[i].at = "held" /\ msgs[i] \in Message /\ o # NoObject
  BY <1>2, PoolAssumption DEF At
<1>4. /\ msgs' \in [Items -> Message]
      /\ msgs'[i].at = "held" /\ msgs'[i].object = o
      /\ \A j \in Items \ {i} : msgs'[j] = msgs[j]
  <2>1. [msgs[i] EXCEPT !.object = o] \in Message
    BY <1>3 DEF Message
  <2> QED
    BY <1>1, <1>2, <1>3, <2>1 DEF Message
<1>5. /\ objects' \in [Objects -> ObjectState] /\ objects'[o] = "alive"
      /\ \A p \in Objects \ {o} : objects'[p] = objects[p]
  BY <1>1, <1>2 DEF ObjectState
<1>6. Pooled(pool, msgs')
  BY <1>2, <1>3, <1>4 DEF Pooled
<1>7. \A j \in Items \ {i} : msgs[j].object # o /\ msgs[j].object \in Objects \cup {NoObject}
  BY <1>1, <1>2, <1>3 DEF Owned, Message
<1>8. Owned(msgs', objects')
  BY <1>2, <1>3, <1>4, <1>5, <1>7 DEF Owned
<1> QED
  BY <1>1, <1>4, <1>5, <1>6, <1>8 DEF PoolInv, Recycled

LEMMA TagInv == ASSUME PoolInv, SetTag PROVE PoolInv'
<1>1. PICK i \in At("held"), t \in Tags :
        msgs' = [msgs EXCEPT ![i].tag = t, ![i].given = t] /\ UNCHANGED <<pool, objects, isOpen>>
  BY DEF SetTag
<1> DEFINE m == [msgs[i] EXCEPT !.tag = t, !.given = t]
<1>2. i \in Items /\ msgs[i].at = "held" /\ msgs[i] \in Message
  BY DEF At, PoolInv, Recycled
<1>3. m \in Message /\ m.at = "held" /\ m.object = msgs[i].object
  BY <1>2 DEF Message
<1>4. msgs' = [msgs EXCEPT ![i] = m]
  BY <1>1, <1>2 DEF PoolInv, Recycled, Message
<1> HIDE DEF m
<1> QED
  BY <1>1, <1>2, <1>3, <1>4, UseRecycles

(* A message goes on with what it is: handled, or lost by its handler.     *)
LEMMA MoveInv ==
  ASSUME PoolInv, NEW i \in Items, msgs[i].at \notin {"heap", "pool"},
         NEW where \in {"held", "queue", "running", "leaked"},
         msgs' = [msgs EXCEPT ![i].at = where], UNCHANGED <<pool, objects, isOpen>>
  PROVE  PoolInv'
<1> DEFINE m == [msgs[i] EXCEPT !.at = where]
<1>1. msgs[i] \in Message
  BY DEF PoolInv, Recycled
<1>2. m \in Message /\ m.at = where /\ m.object = msgs[i].object
  BY <1>1 DEF Message
<1>3. msgs' = [msgs EXCEPT ![i] = m]
  BY <1>1 DEF PoolInv, Recycled, Message
<1> HIDE DEF m
<1> QED
  BY <1>2, <1>3, UseRecycles

LEMMA DiscardInv == ASSUME PoolInv, Discard PROVE PoolInv'
<1>1. PICK i \in At("held") :
        msgs' = [msgs EXCEPT ![i] = NewMessage] /\ UNCHANGED <<pool, objects, isOpen>>
  BY DEF Discard
<1>2. /\ msgs \in [Items -> Message] /\ Pooled(pool, msgs) /\ Owned(msgs, objects)
      /\ i \in Items /\ msgs[i].at = "held"
  BY DEF PoolInv, Recycled, At
<1>3. NewMessage \in Message /\ NewMessage.at = "heap" /\ NewMessage.object = NoObject
  BY DEF NewMessage, Message
<1>4. /\ msgs' \in [Items -> Message] /\ msgs'[i] = NewMessage
      /\ \A j \in Items \ {i} : msgs'[j] = msgs[j]
  BY <1>1, <1>2, <1>3
<1>5. Pooled(pool, msgs')
  BY <1>2, <1>3, <1>4 DEF Pooled
<1>6. Owned(msgs', objects)
  BY <1>2, <1>3, <1>4 DEF Owned
<1> QED
  BY <1>1, <1>4, <1>5, <1>6 DEF PoolInv, Recycled

(* The queue takes a message or releases it.                               *)
LEMMA PostRecycles ==
  ASSUME NEW from, NEW ms, NEW os, Recycled(from, ms, os),
         NEW i \in Items, ms[i].at = "held", Post(from, i, ms, os)
  PROVE  Recycled(pool', msgs', objects')
<1>1. CASE Release(from, <<i>>, ms, os)
  <2> DEFINE one == <<i>>
  <2>1. /\ one \in Seq(Items)
        /\ \A a, b \in 1..Len(one) : one[a] = one[b] => a = b
        /\ \A a \in 1..Len(one) : one[a] = i
    OBVIOUS
  <2>2. Release(from, one, ms, os) /\ \A a \in 1..Len(one) : ms[one[a]].at \notin {"heap", "pool"}
    BY <1>1, <2>1
  <2> HIDE DEF one
  <2> QED
    BY <2>1, <2>2, ReleaseRecycles
<1>2. CASE pool' = from /\ msgs' = [ms EXCEPT ![i].at = "queue"] /\ objects' = os
  <2>1. ms \in [Items -> Message] /\ Pooled(from, ms) /\ Owned(ms, os) /\ ms[i] \in Message
    BY DEF Recycled
  <2> DEFINE m == [ms[i] EXCEPT !.at = "queue"]
  <2>2. m \in Message /\ m.at = "queue" /\ m.object = ms[i].object
    BY <2>1 DEF Message
  <2>3. msgs' = [ms EXCEPT ![i] = m]
    BY <1>2, <2>1 DEF Message
  <2> HIDE DEF m
  <2>4. /\ msgs' \in [Items -> Message] /\ msgs'[i] = m
        /\ \A j \in Items \ {i} : msgs'[j] = ms[j]
    BY <2>1, <2>2, <2>3
  <2>5. Pooled(from, msgs')
    BY <2>1, <2>2, <2>4 DEF Pooled
  <2>6. Owned(msgs', os)
    BY <2>1, <2>2, <2>4 DEF Owned
  <2> QED
    BY <1>2, <2>4, <2>5, <2>6 DEF Recycled
<1> QED
  BY <1>1, <1>2 DEF Post

LEMMA PostInplaceInv == ASSUME PoolInv, PostInplace PROVE PoolInv'
<1>1. PICK i \in At("held") : Post(pool, i, msgs, objects)
  BY DEF PostInplace
<1>2. i \in Items /\ msgs[i].at = "held"
  BY DEF At
<1> QED
  BY <1>1, <1>2, PostRecycles DEF PoolInv, PostInplace

LEMMA PostCopyInv == ASSUME PoolInv, PostCopy PROVE PoolInv'
<1>1. PICK i \in Obtainable, t \in Tags \cup {NoTag}, o \in Objects \cup {NoObject} :
        /\ o # NoObject => objects[o] = "unborn"
        /\ Post(Rest, i,
                [msgs EXCEPT ![i] = [at |-> "held", tag |-> t, given |-> t,
                                     hasHandler |-> TRUE, object |-> o]],
                [p \in Objects |-> IF p = o THEN "alive" ELSE objects[p]])
  BY DEF PostCopy
<1> DEFINE m == [at |-> "held", tag |-> t, given |-> t, hasHandler |-> TRUE, object |-> o]
           ms == [msgs EXCEPT ![i] = m]
           os == [p \in Objects |-> IF p = o THEN "alive" ELSE objects[p]]
<1>2. /\ msgs \in [Items -> Message] /\ objects \in [Objects -> ObjectState]
      /\ Recycled(pool, msgs, objects) /\ Owned(msgs, objects)
  BY DEF PoolInv, Recycled
<1>3. i \in Items
  BY <1>2 DEF Obtainable, At, Last, Recycled, Pooled
<1>4. m \in Message /\ m.at = "held" /\ m.object = o
  BY DEF Message
<1>5. Post(Rest, i, ms, os)
  BY <1>1
<1> HIDE DEF m
<1>6. /\ ms \in [Items -> Message] /\ ms[i] = m
      /\ \A j \in Items \ {i} : ms[j] = msgs[j]
  BY <1>2, <1>3, <1>4
<1>7. /\ os \in [Objects -> ObjectState]
      /\ \A p \in Objects : os[p] = IF p = o THEN "alive" ELSE objects[p]
  BY <1>2 DEF ObjectState
<1> HIDE DEF ms, os
<1>8. Pooled(Rest, ms)
  BY <1>2, <1>4, <1>6, RestIsPooled
<1>9. \A j \in Items : msgs[j].object \in Objects \cup {NoObject} /\
                       (o # NoObject => msgs[j].object # o)
  BY <1>1, <1>2 DEF Owned, Message
<1>10. Owned(ms, os)
  <2>1. \A p \in Objects : os[p] # "destroyedTwice"
    BY <1>2, <1>7 DEF Owned
  <2>2. \A j \in Items : ms[j].object # NoObject =>
          ms[j].at \notin {"heap", "pool"} /\ os[ms[j].object] = "alive"
    <3> TAKE j \in Items
    <3>1. CASE j = i
      BY <1>4, <1>6, <1>7, <3>1
    <3>2. CASE j # i
      BY <1>2, <1>6, <1>7, <1>9, <3>2 DEF Owned
    <3> QED
      BY <3>1, <3>2
  <2>3. \A j, k \in Items : ms[j].object = ms[k].object => j = k \/ ms[j].object = NoObject
    BY <1>2, <1>4, <1>6, <1>9 DEF Owned
  <2> QED
    BY <2>1, <2>2, <2>3 DEF Owned
<1>11. Recycled(Rest, ms, os)
  BY <1>6, <1>7, <1>8, <1>10 DEF Recycled
<1>12. Recycled(pool', msgs', objects')
  BY <1>3, <1>4, <1>5, <1>6, <1>11, PostRecycles
<1> QED
  BY <1>12 DEF PoolInv, PostCopy

LEMMA ProcessInv == ASSUME PoolInv, processMessage PROVE PoolInv'
<1>1. PICK i \in At("running") : Release(pool, <<i>>, msgs, objects)
  BY DEF processMessage
<1>2. <<i>> \in Seq(Items) /\ Len(<<i>>) = 1 /\ <<i>>[1] = i /\ msgs[i].at = "running"
  BY DEF At
<1>3. /\ \A a, b \in 1..Len(<<i>>) : <<i>>[a] = <<i>>[b] => a = b
      /\ \A a \in 1..Len(<<i>>) : msgs[<<i>>[a]].at \notin {"heap", "pool"}
  BY <1>2
<1>4. Recycled(pool', msgs', objects')
  BY <1>1, <1>2, <1>3, ReleaseRecycles DEF PoolInv
<1> QED
  BY <1>4 DEF PoolInv, processMessage

(* Removal by identifier, by tag, and of all by a shutdown.                *)
LEMMA RemoveRecycles ==
  ASSUME PoolInv, NEW removed \in SUBSET At("queue"), RemoveAll(removed),
         isOpen' = isOpen
  PROVE  PoolInv'
<1>1. PICK released \in SetToSeqs(removed) : Release(pool, released, msgs, objects)
  BY DEF RemoveAll
<1> DEFINE n == Cardinality(removed)
<1>2. n \in Nat
  <2>1. removed \subseteq Items
    BY DEF At
  <2> QED
    BY <2>1, FS_Subset, FS_CardinalityType, PoolAssumption
<1>3. released \in [1..n -> removed] /\ \A a, b \in 1..n : a # b => released[a] # released[b]
  BY <1>1 DEF SetToSeqs
<1> HIDE DEF n
<1>4. \A j \in removed : j \in Items /\ msgs[j].at = "queue"
  BY DEF At
<1>5. released \in Seq(Items) /\ Len(released) = n
  BY <1>2, <1>3, <1>4
<1> QED
  BY <1>1, <1>3, <1>4, <1>5, ReleaseRecycles DEF PoolInv

LEMMA DestroyInv == ASSUME PoolInv, DestroyQueue PROVE PoolInv'
<1>1. /\ msgs \in [Items -> Message] /\ Pooled(pool, msgs) /\ Owned(msgs, objects)
      /\ pool' = << >> /\ objects' = objects /\ isOpen' = FALSE
      /\ msgs' = [i \in Items |-> IF msgs[i].at = "pool" THEN NewMessage ELSE msgs[i]]
  BY DEF PoolInv, Recycled, DestroyQueue
<1>2. NewMessage \in Message /\ NewMessage.at = "heap" /\ NewMessage.object = NoObject
  BY DEF NewMessage, Message
<1>3. msgs' \in [Items -> Message] /\ \A i \in Items : msgs'[i].at # "pool"
  BY <1>1, <1>2
<1>4. Pooled(<< >>, msgs')
  BY <1>3, PoolAssumption DEF Pooled
<1>5. \A i \in Items : msgs'[i].object # NoObject => msgs'[i] = msgs[i]
  BY <1>1, <1>2
<1>6. Owned(msgs', objects)
  BY <1>1, <1>5 DEF Owned
<1> QED
  BY <1>1, <1>3, <1>4, <1>6 DEF PoolInv, Recycled

LEMMA InitInv == ASSUME PoolInit PROVE PoolInv
<1>1. NewMessage \in Message /\ NewMessage.at = "heap" /\ NewMessage.object = NoObject
  BY DEF NewMessage, Message
<1>2. /\ msgs \in [Items -> Message] /\ objects \in [Objects -> ObjectState]
      /\ \A i \in Items : msgs[i] = NewMessage
      /\ \A o \in Objects : objects[o] = "unborn"
      /\ pool = << >> /\ isOpen = TRUE
  BY <1>1 DEF PoolInit, ObjectState
<1>3. Pooled(<< >>, msgs)
  BY <1>1, <1>2, PoolAssumption DEF Pooled
<1>4. Owned(msgs, objects)
  BY <1>1, <1>2 DEF Owned
<1> QED
  BY <1>2, <1>3, <1>4 DEF PoolInv, Recycled

LEMMA NextInv == ASSUME PoolInv, [PoolNext]_poolVars PROVE PoolInv'
<1>1. CASE UNCHANGED poolVars
  <2>1. pool' = pool /\ msgs' = msgs /\ objects' = objects /\ isOpen' = isOpen
    BY <1>1 DEF poolVars
  <2> QED
    BY <2>1 DEF PoolInv
<1>2. CASE Handle
  <2>1. PICK i \in At("queue") : msgs' = [msgs EXCEPT ![i].at = "running"]
    BY <1>2 DEF Handle
  <2>2. i \in Items /\ msgs[i].at = "queue"
    BY DEF At
  <2> QED
    BY <1>2, <2>1, <2>2, MoveInv DEF Handle
<1>3. CASE HandlerThrows
  <2>1. PICK i \in At("running") : msgs' = [msgs EXCEPT ![i].at = "leaked"]
    BY <1>3 DEF HandlerThrows
  <2>2. i \in Items /\ msgs[i].at = "running"
    BY DEF At
  <2> QED
    BY <1>3, <2>1, <2>2, MoveInv DEF HandlerThrows
<1>4. CASE removeMessage
  <2>1. PICK i \in At("queue") : RemoveAll({i})
    BY <1>4 DEF removeMessage
  <2> QED
    BY <1>4, <2>1, RemoveRecycles DEF removeMessage
<1>5. CASE removeMessageByTag
  <2>1. PICK t \in Tags : RemoveAll({i \in At("queue") : msgs[i].tag = t})
    BY <1>5 DEF removeMessageByTag
  <2> QED
    BY <1>5, <2>1, RemoveRecycles DEF removeMessageByTag
<1>6. CASE shutdownNow
  BY <1>6, RemoveRecycles DEF shutdownNow
<1>7. CASE obtainInplaceMessage \/ inplaceObject \/ SetTag \/ Discard
  BY <1>7, ObtainInv, PlaceInv, TagInv, DiscardInv
<1>8. CASE PostInplace \/ PostCopy \/ processMessage \/ DestroyQueue
  BY <1>8, PostInplaceInv, PostCopyInv, ProcessInv, DestroyInv
<1> QED
  BY <1>1, <1>2, <1>3, <1>4, <1>5, <1>6, <1>7, <1>8 DEF PoolNext

-----------------------------------------------------------------------------

(* For any number of messages, objects and tags, and any capacity: memory  *)
(* in the pool is nobody else's, the pool never overflows, and what a      *)
(* message owns lives while it is in use and is destroyed once, when it    *)
(* goes back (MemoryPool and releaseMessage of MessageQueue).              *)
THEOREM MessagesAreAlwaysRecycled ==
  PoolSpec => []MessagesAreRecycled
<1>1. PoolInit => PoolInv
  BY InitInv
<1>2. PoolInv /\ [PoolNext]_poolVars => PoolInv'
  BY NextInv
<1>3. PoolInv => MessagesAreRecycled
  BY InvIsRecycled
<1> QED
  BY <1>1, <1>2, <1>3, PTL DEF PoolSpec
=============================================================================
