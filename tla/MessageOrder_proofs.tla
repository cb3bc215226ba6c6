------------------------- MODULE MessageOrder_proofs -------------------------
(***************************************************************************)
(* Facts about insertion into the ordered deque and removal from it, for   *)
(* every deque, due time and priority.                                     *)
(***************************************************************************)
EXTENDS MessageOrder, TLAPS, WellFoundedInduction, FiniteSetTheorems, SequenceTheorems

-----------------------------------------------------------------------------
(* Least and greatest elements                                             *)

LEMMA Least ==
  ASSUME NEW T \in SUBSET Nat, T # {}
  PROVE  \E i \in T : \A j \in T : i <= j
<1>1. PICK i \in T : \A j \in T : ~(j < i)
  <2>1. IsWellFoundedOn(OpToRel(<, Nat), Nat)
    BY NatLessThanWellFounded
  <2>2. PICK i \in T : \A j \in T : <<j, i>> \notin OpToRel(<, Nat)
    BY <2>1, WFMin
  <2> QED BY <2>2 DEF OpToRel
<1> QED BY <1>1

LEMMA Greatest ==
  ASSUME NEW N \in Nat, NEW T \in SUBSET (0..N), T # {}
  PROVE  \E i \in T : \A j \in T : j <= i
<1> DEFINE U == {N - j : j \in T}
<1>1. U \subseteq Nat /\ U # {}
  <2>1. \A j \in T : N - j \in Nat
    OBVIOUS
  <2> QED BY <2>1
<1> HIDE DEF U
<1>2. PICK k \in U : \A l \in U : k <= l
  BY <1>1, Least
<1>3. PICK i \in T : k = N - i
  BY DEF U
<1>4. \A j \in T : N - j \in U
  BY DEF U
<1> QED BY <1>2, <1>3, <1>4

-----------------------------------------------------------------------------
(* The scans of findInsertPositionLocked                                   *)

(* A scan forward ends where it should, at the end of the deque if nothing *)
(* stops it. Stop is given by the positions where it holds.                *)
LEMMA ForwardExists ==
  ASSUME NEW n \in Nat, NEW from \in 1..(n + 1), NEW Stops
  PROVE  \E i \in from..(n + 1) :
           /\ i = n + 1 \/ i \in Stops
           /\ \A j \in from..(i - 1) : j \notin Stops
<1> DEFINE T == {i \in from..(n + 1) : i = n + 1 \/ i \in Stops}
<1>1. T \in SUBSET Nat /\ n + 1 \in T
  OBVIOUS
<1>2. PICK i \in T : \A j \in T : i <= j
  BY <1>1, Least
<1>3. \A j \in from..(i - 1) : j \notin Stops
  BY <1>2
<1> QED BY <1>2, <1>3

LEMMA BackwardExists ==
  ASSUME NEW n \in Nat \ {0}, NEW Stops
  PROVE  \E i \in 1..n :
           /\ i = 1 \/ i \in Stops
           /\ \A j \in (i + 1)..n : j \notin Stops
<1> DEFINE T == {i \in 1..n : i = 1 \/ i \in Stops}
<1>1. T \in SUBSET (0..n) /\ 1 \in T
  OBVIOUS
<1>2. PICK i \in T : \A j \in T : j <= i
  BY <1>1, Greatest
<1>3. \A j \in (i + 1)..n : j \notin Stops
  BY <1>2
<1> QED BY <1>2, <1>3

(* What the three scans find, whether q is sorted or not: d and w are the  *)
(* due times and priorities at the n positions of q, dm and wm those of    *)
(* the new message; the scans stop at tail, byDue and p.                   *)
ScansStopAt(n, d, w, dm, wm, tail, byDue, p) ==
  /\ tail <= byDue /\ byDue <= p
  /\ tail = 1 \/ d[tail] < dm
  /\ byDue = n + 1 \/ d[byDue] >= dm
  /\ \A j \in tail..(byDue - 1) : d[j] < dm
  /\ p = n + 1 \/ ~(d[p] = dm /\ w[p] <= wm)
  /\ \A j \in byDue..(p - 1) : d[j] = dm /\ w[j] <= wm

(* f of the message at each position of q.                                 *)
Along(f, q) == [i \in 1..Len(q) |-> f[q[i]]]

LEMMA Scans ==
  ASSUME NEW S, NEW q \in Seq(S), q # << >>,
         NEW due \in [S -> Int], NEW priority \in [S -> Int], NEW m \in S,
         NEW p, p = FindInsertPosition(q, due, priority, m)
  PROVE  /\ p \in 1..(Len(q) + 1)
         /\ \E tail \in 1..Len(q), byDue \in 1..(Len(q) + 1) :
              ScansStopAt(Len(q), Along(due, q), Along(priority, q),
                          due[m], priority[m], tail, byDue, p)
<1> DEFINE n     == Len(q)
           tail  == CHOOSE i \in 1..n :
                      /\ i = 1 \/ due[q[i]] < due[m]
                      /\ \A j \in (i + 1)..n : ~(due[q[j]] < due[m])
           byDue == CHOOSE i \in tail..(n + 1) :
                      /\ i = n + 1 \/ due[q[i]] >= due[m]
                      /\ \A j \in tail..(i - 1) : ~(due[q[j]] >= due[m])
           Same(i) == due[q[i]] = due[m] /\ priority[q[i]] <= priority[m]
           third == CHOOSE i \in byDue..(n + 1) :
                      /\ i = n + 1 \/ ~Same(i)
                      /\ \A j \in byDue..(i - 1) : ~~Same(j)
<1> HIDE DEF tail, byDue, Same, third
<1>1. n \in Nat \ {0} /\ \A i \in 1..n : q[i] \in S
  OBVIOUS
<1> HIDE DEF n
<1>2. /\ tail \in 1..n
      /\ tail = 1 \/ due[q[tail]] < due[m]
  <2> DEFINE Stops == {i \in 1..n : due[q[i]] < due[m]}
  <2> HIDE DEF Stops
  <2>1. \E i \in 1..n : /\ i = 1 \/ i \in Stops
                        /\ \A j \in (i + 1)..n : j \notin Stops
    BY <1>1, BackwardExists
  <2>2. \A i \in 1..n : i \in Stops <=> due[q[i]] < due[m]
    BY DEF Stops
  <2>3. \E i \in 1..n : /\ i = 1 \/ due[q[i]] < due[m]
                        /\ \A j \in (i + 1)..n : ~(due[q[j]] < due[m])
    <3>1. PICK i \in 1..n : /\ i = 1 \/ i \in Stops
                            /\ \A j \in (i + 1)..n : j \notin Stops
      BY <2>1
    <3>2. \A j \in (i + 1)..n : j \in 1..n
      BY <1>1
    <3>3. i = 1 \/ due[q[i]] < due[m]
      BY <2>2, <3>1
    <3>4. \A j \in (i + 1)..n : ~(due[q[j]] < due[m])
      BY <2>2, <3>1, <3>2
    <3> QED BY <3>3, <3>4
  <2> QED BY <2>3 DEF tail
<1>3. /\ byDue \in tail..(n + 1)
      /\ byDue = n + 1 \/ due[q[byDue]] >= due[m]
      /\ \A j \in tail..(byDue - 1) : ~(due[q[j]] >= due[m])
  <2> DEFINE Stops == {i \in 1..n : due[q[i]] >= due[m]}
  <2> HIDE DEF Stops
  <2>. n \in Nat /\ tail \in 1..(n + 1)
    BY <1>1, <1>2
  <2>1. PICK k \in tail..(n + 1) : /\ k = n + 1 \/ k \in Stops
                                  /\ \A j \in tail..(k - 1) : j \notin Stops
    BY ForwardExists
  <2>2. \A i \in 1..n : i \in Stops <=> due[q[i]] >= due[m]
    BY DEF Stops
  <2>3. /\ k = n + 1 \/ due[q[k]] >= due[m]
        /\ \A j \in tail..(k - 1) : ~(due[q[j]] >= due[m])
    BY <2>1, <2>2
  <2> QED BY <2>3 DEF byDue
<1>4. /\ third \in byDue..(n + 1)
      /\ third = n + 1 \/ ~Same(third)
      /\ \A j \in byDue..(third - 1) : ~~Same(j)
  <2> DEFINE Stops == {i \in 1..n : ~Same(i)}
  <2> HIDE DEF Stops
  <2>. n \in Nat /\ byDue \in 1..(n + 1)
    BY <1>1, <1>2, <1>3
  <2>1. PICK k \in byDue..(n + 1) : /\ k = n + 1 \/ k \in Stops
                                   /\ \A j \in byDue..(k - 1) : j \notin Stops
    BY ForwardExists
  <2>2. \A i \in 1..n : i \in Stops <=> ~Same(i)
    BY DEF Stops
  <2>3. /\ k = n + 1 \/ ~Same(k)
        /\ \A j \in byDue..(k - 1) : ~~Same(j)
    BY <2>1, <2>2
  <2> QED BY <2>3 DEF third
<1>5. p = third
  BY DEF FindInsertPosition, ScanBackward, ScanForward, tail, byDue, third, Same, n
<1>6. \A j \in tail..(byDue - 1) : due[q[j]] < due[m]
  BY <1>1, <1>2, <1>3
<1>7. /\ tail \in 1..n /\ byDue \in 1..(n + 1) /\ third \in 1..(n + 1)
      /\ tail <= byDue /\ byDue <= third
  BY <1>1, <1>2, <1>3, <1>4
<1> DEFINE d == Along(due, q)
           w == Along(priority, q)
<1>8. \A i \in 1..n : d[i] = due[q[i]] /\ w[i] = priority[q[i]]
  BY DEF Along, n
<1> HIDE DEF d, w
<1>9. ScansStopAt(n, d, w, due[m], priority[m], tail, byDue, third)
  <2>1. tail = 1 \/ d[tail] < due[m]
    BY <1>2, <1>8
  <2>2. byDue = n + 1 \/ d[byDue] >= due[m]
    <3>1. byDue = n + 1 \/ byDue \in 1..n
      BY <1>1, <1>7
    <3>2. ASSUME byDue \in 1..n PROVE d[byDue] = due[q[byDue]]
      BY <1>8, <3>2
    <3> QED BY <1>3, <3>1, <3>2
  <2>3. \A j \in tail..(byDue - 1) : d[j] < due[m]
    <3>1. \A j \in tail..(byDue - 1) : j \in 1..n
      BY <1>1, <1>7
    <3> QED BY <1>6, <1>8, <3>1
  <2>4. third = n + 1 \/ ~(d[third] = due[m] /\ w[third] <= priority[m])
    <3>1. third = n + 1 \/ third \in 1..n
      BY <1>1, <1>7
    <3>2. ASSUME third \in 1..n
          PROVE  d[third] = due[q[third]] /\ w[third] = priority[q[third]]
      BY <1>8, <3>2
    <3> QED BY <1>4, <3>1, <3>2 DEF Same
  <2>5. \A j \in byDue..(third - 1) : d[j] = due[m] /\ w[j] <= priority[m]
    <3>1. \A j \in byDue..(third - 1) : Same(j) /\ j \in 1..n
      BY <1>1, <1>4, <1>7
    <3> QED BY <1>8, <3>1 DEF Same
  <2> QED BY <1>7, <2>1, <2>2, <2>3, <2>4, <2>5 DEF ScansStopAt
<1> QED BY <1>5, <1>7, <1>9 DEF n, d, w

LEMMA PositionInRange ==
  ASSUME NEW S, NEW q \in Seq(S),
         NEW due \in [S -> Int], NEW priority \in [S -> Int], NEW m \in S
  PROVE  FindInsertPosition(q, due, priority, m) \in 1..(Len(q) + 1)
<1>1. CASE q = << >>
  BY <1>1 DEF FindInsertPosition
<1>2. CASE q # << >>
  BY <1>2, Scans
<1> QED BY <1>1, <1>2

(* The scans over a sorted deque, given by the due time d[i] and the       *)
(* priority w[i] at each position: where the third one stops separates     *)
(* what must not run after the new message from what must not run before.  *)
Separates(n, d, w, dm, wm, p) ==
  /\ \A i \in 1..(p - 1) : ~(dm < d[i]) /\ ~(dm = d[i] /\ wm < w[i])
  /\ \A i \in p..n : dm < d[i] \/ (dm = d[i] /\ wm < w[i])

LEMMA ScansSeparate ==
  ASSUME NEW n \in Nat, NEW d \in [1..n -> Int], NEW w \in [1..n -> Int],
         NEW dm \in Int, NEW wm \in Int,
         NEW tail \in 1..n, NEW byDue \in 1..(n + 1), NEW p \in 1..(n + 1),
         ScansStopAt(n, d, w, dm, wm, tail, byDue, p),
         \A i, j \in 1..n : i < j => ~(d[j] < d[i]) /\ ~(d[j] = d[i] /\ w[j] < w[i])
  PROVE  Separates(n, d, w, dm, wm, p)
<1>1. ASSUME NEW i \in 1..(p - 1)
      PROVE  ~(dm < d[i]) /\ ~(dm = d[i] /\ wm < w[i])
  <2>1. CASE i < tail
    BY <2>1 DEF ScansStopAt
  <2>2. CASE i >= tail /\ i < byDue
    BY <2>2 DEF ScansStopAt
  <2>3. CASE i >= byDue
    BY <2>3 DEF ScansStopAt
  <2> QED BY <2>1, <2>2, <2>3
<1>2. ASSUME NEW i \in p..n
      PROVE  dm < d[i] \/ (dm = d[i] /\ wm < w[i])
  <2>1. d[p] >= dm
    <3>1. CASE p = byDue
      BY <3>1 DEF ScansStopAt
    <3>2. CASE p > byDue
      BY <3>2 DEF ScansStopAt
    <3> QED BY <3>1, <3>2 DEF ScansStopAt
  <2>2. CASE i = p
    BY <2>1, <2>2 DEF ScansStopAt
  <2>3. CASE i > p
    BY <2>1, <2>3 DEF ScansStopAt
  <2> QED BY <2>2, <2>3
<1> QED BY <1>1, <1>2 DEF Separates

(* In a sorted deque the position is behind everything that need not run   *)
(* after m, and before everything that has to.                             *)
LEMMA PositionSeparates ==
  ASSUME NEW S, NEW q \in Seq(S),
         NEW due \in [S -> Int], NEW priority \in [S -> Int], NEW m \in S,
         Sorted(q, due, priority),
         NEW p \in 1..(Len(q) + 1), p = FindInsertPosition(q, due, priority, m)
  PROVE  /\ \A i \in 1..(p - 1) : ~Before(due, priority, m, q[i])
         /\ \A i \in p..Len(q) : Before(due, priority, m, q[i])
<1>1. CASE q = << >>
  <2>1. p = 1
    BY <1>1 DEF FindInsertPosition
  <2> QED BY <1>1, <2>1
<1>2. CASE q # << >>
  <2> DEFINE d == Along(due, q)
             w == Along(priority, q)
  <2>1. /\ d \in [1..Len(q) -> Int] /\ w \in [1..Len(q) -> Int]
        /\ due[m] \in Int /\ priority[m] \in Int /\ Len(q) \in Nat
    BY DEF Along
  <2>2. \A i \in 1..Len(q) : d[i] = due[q[i]] /\ w[i] = priority[q[i]]
    BY DEF Along
  <2> HIDE DEF d, w
  <2>3. PICK tail \in 1..Len(q), byDue \in 1..(Len(q) + 1) :
          ScansStopAt(Len(q), d, w, due[m], priority[m], tail, byDue, p)
    BY <1>2, Scans DEF d, w
  <2>4. \A i, j \in 1..Len(q) :
          i < j => ~(d[j] < d[i]) /\ ~(d[j] = d[i] /\ w[j] < w[i])
    BY <2>2 DEF Sorted, Before
  <2>5. /\ \A i \in 1..(p - 1) : ~(due[m] < d[i]) /\ ~(due[m] = d[i] /\ priority[m] < w[i])
        /\ \A i \in p..Len(q) : due[m] < d[i] \/ (due[m] = d[i] /\ priority[m] < w[i])
    <3> DEFINE n  == Len(q)
               dm == due[m]
               wm == priority[m]
    <3>1. /\ n \in Nat /\ d \in [1..n -> Int] /\ w \in [1..n -> Int]
          /\ dm \in Int /\ wm \in Int
          /\ tail \in 1..n /\ byDue \in 1..(n + 1) /\ p \in 1..(n + 1)
      BY <2>1
    <3>2. ScansStopAt(n, d, w, dm, wm, tail, byDue, p)
      BY <2>3
    <3>3. \A i, j \in 1..n : i < j => ~(d[j] < d[i]) /\ ~(d[j] = d[i] /\ w[j] < w[i])
      BY <2>4
    <3> HIDE DEF n, dm, wm
    <3>4. Separates(n, d, w, dm, wm, p)
      BY <3>1, <3>2, <3>3, ScansSeparate
    <3> QED BY <3>4 DEF n, dm, wm, Separates
  <2>6. /\ \A i \in 1..(p - 1) : d[i] = due[q[i]] /\ w[i] = priority[q[i]]
        /\ \A i \in p..Len(q) : d[i] = due[q[i]] /\ w[i] = priority[q[i]]
    BY <2>2
  <2> QED BY ZenonT(30), <2>5, <2>6 DEF Before
<1> QED BY <1>1, <1>2

-----------------------------------------------------------------------------
(* Insertion                                                               *)

(* r is q with m put in at p.                                              *)
IsSplice(r, q, p, m) ==
  /\ Len(r) = Len(q) + 1
  /\ \A i \in 1..(p - 1) : r[i] = q[i]
  /\ r[p] = m
  /\ \A i \in (p + 1)..(Len(q) + 1) : r[i] = q[i - 1]

LEMMA Spliced ==
  ASSUME NEW S, NEW q \in Seq(S), NEW p \in 1..(Len(q) + 1), NEW m \in S
  PROVE  /\ InsertAt(q, p, m) \in Seq(S)
         /\ IsSplice(InsertAt(q, p, m), q, p, m)
<1> DEFINE front == SubSeq(q, 1, p - 1)
           some  == front \o <<m>>
           back  == SubSeq(q, p, Len(q))
<1>1. /\ front \in Seq(S)
      /\ Len(front) = p - 1
      /\ \A i \in 1..(p - 1) : front[i] = q[i]
  BY SubSeqProperties
<1>2. /\ back \in Seq(S)
      /\ Len(back) = Len(q) + 1 - p
      /\ \A i \in 1..(Len(q) + 1 - p) : back[i] = q[p + i - 1]
  BY SubSeqProperties
<1>3. <<m>> \in Seq(S) /\ Len(<<m>>) = 1 /\ <<m>>[1] = m
  OBVIOUS
<1> HIDE DEF front, back
<1>4. /\ some \in Seq(S)
      /\ Len(some) = p
      /\ \A i \in 1..p : some[i] = IF i <= p - 1 THEN front[i] ELSE <<m>>[i - (p - 1)]
  <2>1. /\ some \in Seq(S)
        /\ Len(some) = Len(front) + Len(<<m>>)
        /\ \A i \in 1..(Len(front) + Len(<<m>>)) :
             some[i] = IF i <= Len(front) THEN front[i] ELSE <<m>>[i - Len(front)]
    BY <1>1, <1>3, ConcatProperties
  <2>2. Len(front) + Len(<<m>>) = p
    BY <1>1, <1>3
  <2> QED BY <1>1, <2>1, <2>2, Zenon
<1>5. /\ \A i \in 1..(p - 1) : some[i] = q[i]
      /\ some[p] = m
  BY <1>1, <1>3, <1>4
<1> HIDE DEF some
<1> DEFINE all == some \o back
<1>6. /\ all \in Seq(S)
      /\ Len(all) = Len(q) + 1
      /\ \A i \in 1..(Len(q) + 1) : all[i] = IF i <= p THEN some[i] ELSE back[i - p]
  <2>1. /\ all \in Seq(S)
        /\ Len(all) = Len(some) + Len(back)
        /\ \A i \in 1..(Len(some) + Len(back)) :
             all[i] = IF i <= Len(some) THEN some[i] ELSE back[i - Len(some)]
    BY <1>2, <1>4, ConcatProperties
  <2>2. Len(some) + Len(back) = Len(q) + 1
    BY <1>2, <1>4
  <2> QED BY <1>4, <2>1, <2>2, Zenon
<1>7. InsertAt(q, p, m) = all
  BY DEF InsertAt, some, front, back
<1> HIDE DEF all
<1>8. \A i \in 1..p : all[i] = some[i]
  BY <1>6
<1>9. \A i \in (p + 1)..(Len(q) + 1) : all[i] = q[i - 1]
  <2> SUFFICES ASSUME NEW i \in (p + 1)..(Len(q) + 1)
               PROVE  all[i] = q[i - 1]
    OBVIOUS
  <2>1. all[i] = back[i - p]
    BY <1>6
  <2>2. i - p \in 1..(Len(q) + 1 - p) /\ p + (i - p) - 1 = i - 1
    OBVIOUS
  <2>3. back[i - p] = q[p + (i - p) - 1]
    BY <1>2, <2>2
  <2> QED BY <2>1, <2>2, <2>3
<1>10. IsSplice(all, q, p, m)
  BY <1>5, <1>6, <1>8, <1>9 DEF IsSplice
<1> QED BY <1>6, <1>7, <1>10

LEMMA InsertSplices ==
  ASSUME NEW S, NEW q \in Seq(S),
         NEW due \in [S -> Int], NEW priority \in [S -> Int], NEW m \in S
  PROVE  \E p \in 1..(Len(q) + 1), r \in Seq(S) :
           /\ p = FindInsertPosition(q, due, priority, m)
           /\ r = Insert(q, due, priority, m)
           /\ IsSplice(r, q, p, m)
<1>1. FindInsertPosition(q, due, priority, m) \in 1..(Len(q) + 1)
  BY PositionInRange
<1> QED BY <1>1, Spliced DEF Insert

(* The deque stays a sequence of messages, one longer.                     *)
LEMMA InsertType ==
  ASSUME NEW S, NEW q \in Seq(S),
         NEW due \in [S -> Int], NEW priority \in [S -> Int], NEW m \in S
  PROVE  Insert(q, due, priority, m) \in Seq(S)
<1>1. PICK p \in 1..(Len(q) + 1), r \in Seq(S) :
        r = Insert(q, due, priority, m) /\ IsSplice(r, q, p, m)
  BY InsertSplices
<1> QED BY <1>1

LEMMA InsertLength ==
  ASSUME NEW S, NEW q \in Seq(S),
         NEW due \in [S -> Int], NEW priority \in [S -> Int], NEW m \in S
  PROVE  Len(Insert(q, due, priority, m)) = Len(q) + 1
<1>1. PICK p \in 1..(Len(q) + 1), r \in Seq(S) :
        r = Insert(q, due, priority, m) /\ IsSplice(r, q, p, m)
  BY InsertSplices
<1> QED BY <1>1 DEF IsSplice

LEMMA SpliceKeepsSorted ==
  ASSUME NEW S, NEW q \in Seq(S), NEW r \in Seq(S), NEW p \in 1..(Len(q) + 1),
         NEW due, NEW priority, NEW m, IsSplice(r, q, p, m), Sorted(q, due, priority),
         \A i \in 1..(p - 1) : ~Before(due, priority, m, q[i]),
         \A i \in p..Len(q) : ~Before(due, priority, q[i], m)
  PROVE  Sorted(r, due, priority)
<1> SUFFICES ASSUME NEW i \in 1..Len(r), NEW j \in 1..Len(r), i < j
             PROVE  ~Before(due, priority, r[j], r[i])
  BY DEF Sorted
<1>1. CASE j < p
  <2>1. r[i] = q[i] /\ r[j] = q[j] /\ i \in 1..Len(q) /\ j \in 1..Len(q)
    BY <1>1 DEF IsSplice
  <2> QED BY <2>1 DEF Sorted
<1>2. CASE j = p
  <2>1. r[i] = q[i] /\ r[j] = m /\ i \in 1..(p - 1)
    BY <1>2 DEF IsSplice
  <2> QED BY <2>1
<1>3. CASE i < p /\ j > p
  <2>1. r[i] = q[i] /\ r[j] = q[j - 1]
    <3>1. i \in 1..(p - 1) /\ j \in (p + 1)..(Len(q) + 1)
      BY <1>3 DEF IsSplice
    <3> QED BY <3>1 DEF IsSplice
  <2>2. i \in 1..Len(q) /\ j - 1 \in 1..Len(q) /\ i < j - 1
    BY <1>3 DEF IsSplice
  <2> QED BY <2>1, <2>2 DEF Sorted
<1>4. CASE i = p
  <2>1. r[i] = m /\ r[j] = q[j - 1] /\ j - 1 \in p..Len(q)
    BY <1>4 DEF IsSplice
  <2> QED BY <2>1
<1>5. CASE i > p
  <2>1. r[i] = q[i - 1] /\ r[j] = q[j - 1]
    <3>1. i \in (p + 1)..(Len(q) + 1) /\ j \in (p + 1)..(Len(q) + 1)
      BY <1>5 DEF IsSplice
    <3> QED BY <3>1 DEF IsSplice
  <2>2. i - 1 \in 1..Len(q) /\ j - 1 \in 1..Len(q) /\ i - 1 < j - 1
    BY <1>5 DEF IsSplice
  <2> QED BY <2>1, <2>2 DEF Sorted
<1> QED BY <1>1, <1>2, <1>3, <1>4, <1>5

(* Insertion keeps a deque sorted.                                         *)
LEMMA InsertKeepsSorted ==
  ASSUME NEW S, NEW q \in Seq(S),
         NEW due \in [S -> Int], NEW priority \in [S -> Int], NEW m \in S,
         Sorted(q, due, priority)
  PROVE  Sorted(Insert(q, due, priority, m), due, priority)
<1>1. PICK p \in 1..(Len(q) + 1), r \in Seq(S) :
        /\ p = FindInsertPosition(q, due, priority, m)
        /\ r = Insert(q, due, priority, m)
        /\ IsSplice(r, q, p, m)
  BY InsertSplices
<1>2. /\ \A i \in 1..(p - 1) : ~Before(due, priority, m, q[i])
      /\ \A i \in p..Len(q) : Before(due, priority, m, q[i])
  BY <1>1, PositionSeparates
<1>3. \A i \in p..Len(q) : ~Before(due, priority, q[i], m)
  <2>1. \A i \in p..Len(q) : q[i] \in S
    BY <1>1
  <2> QED BY <1>2, <2>1 DEF Before
<1> QED BY <1>1, <1>2, <1>3, SpliceKeepsSorted

LEMMA SpliceAddsOne ==
  ASSUME NEW S, NEW q \in Seq(S), NEW r \in Seq(S), NEW p \in 1..(Len(q) + 1),
         NEW m, IsSplice(r, q, p, m)
  PROVE  /\ ToSet(r) = ToSet(q) \cup {m}
         /\ (m \notin ToSet(q) /\ IsInjective(q)) => IsInjective(r)
<1>1. \A i \in 1..Len(r) : r[i] \in ToSet(q) \cup {m}
  <2> SUFFICES ASSUME NEW i \in 1..Len(r)
               PROVE  r[i] \in ToSet(q) \cup {m}
    OBVIOUS
  <2>1. CASE i < p
    <3>1. r[i] = q[i] /\ i \in 1..Len(q)
      BY <2>1 DEF IsSplice
    <3> QED BY <3>1 DEF ToSet
  <2>2. CASE i = p
    BY <2>2 DEF IsSplice
  <2>3. CASE i > p
    <3>0. i \in (p + 1)..(Len(q) + 1)
      BY <2>3 DEF IsSplice
    <3>1. r[i] = q[i - 1] /\ i - 1 \in 1..Len(q)
      BY <3>0 DEF IsSplice
    <3> QED BY <3>1 DEF ToSet
  <2> QED BY <2>1, <2>2, <2>3
<1>2. m \in ToSet(r)
  BY DEF IsSplice, ToSet
<1>3. \A i \in 1..Len(q) : q[i] \in ToSet(r)
  <2> SUFFICES ASSUME NEW i \in 1..Len(q)
               PROVE  q[i] \in ToSet(r)
    OBVIOUS
  <2>1. CASE i < p
    <3>1. r[i] = q[i] /\ i \in 1..Len(r)
      BY <2>1 DEF IsSplice
    <3> QED BY <3>1 DEF ToSet
  <2>2. CASE i >= p
    <3>1. r[i + 1] = q[i] /\ i + 1 \in 1..Len(r)
      BY <2>2 DEF IsSplice
    <3> QED BY <3>1 DEF ToSet
  <2> QED BY <2>1, <2>2
<1>4. ToSet(r) = ToSet(q) \cup {m}
  BY <1>1, <1>2, <1>3 DEF ToSet
<1>5. ASSUME m \notin ToSet(q), IsInjective(q), NEW i \in 1..Len(r), NEW j \in 1..Len(r), i < j
      PROVE  r[i] # r[j]
  <2>1. \A k \in 1..Len(q) : q[k] # m
    BY <1>5 DEF ToSet
  <2>2. \A k, l \in 1..Len(q) : q[k] = q[l] => k = l
    BY <1>5 DEF IsInjective
  <2>3. CASE j < p
    <3>1. r[i] = q[i] /\ r[j] = q[j] /\ i \in 1..Len(q) /\ j \in 1..Len(q)
      BY <1>5, <2>3 DEF IsSplice
    <3> QED BY <1>5, <2>2, <3>1
  <2>4. CASE j = p
    <3>1. r[i] = q[i] /\ r[j] = m /\ i \in 1..Len(q)
      BY <1>5, <2>4 DEF IsSplice
    <3> QED BY <2>1, <3>1
  <2>5. CASE i < p /\ j > p
    <3>1. r[i] = q[i] /\ r[j] = q[j - 1]
      BY <2>5 DEF IsSplice
    <3>2. i \in 1..Len(q) /\ j - 1 \in 1..Len(q) /\ i # j - 1
      BY <2>5 DEF IsSplice
    <3> QED BY <2>2, <3>1, <3>2
  <2>6. CASE i = p
    <3>1. r[i] = m /\ r[j] = q[j - 1] /\ j - 1 \in 1..Len(q)
      BY <1>5, <2>6 DEF IsSplice
    <3> QED BY <2>1, <3>1
  <2>7. CASE i > p
    <3>1. r[i] = q[i - 1] /\ r[j] = q[j - 1]
      BY <1>5, <2>7 DEF IsSplice
    <3>2. i - 1 \in 1..Len(q) /\ j - 1 \in 1..Len(q) /\ i - 1 # j - 1
      BY <1>5, <2>7 DEF IsSplice
    <3> QED BY <2>2, <3>1, <3>2
  <2> QED BY <2>3, <2>4, <2>5, <2>6, <2>7
<1>6. ASSUME m \notin ToSet(q), IsInjective(q)
      PROVE  IsInjective(r)
  <2>1. \A i, j \in 1..Len(r) : i < j => r[i] # r[j]
    BY <1>5, <1>6
  <2>2. \A i, j \in 1..Len(r) : r[i] = r[j] => i = j
    BY <2>1
  <2> QED BY <2>2 DEF IsInjective
<1> QED BY <1>4, <1>6

(* Insertion adds one message, once if it was not there.                   *)
HasOneMore(r, q, m) == ToSet(r) = ToSet(q) \cup {m}

LEMMA InsertAddsOne ==
  ASSUME NEW S, NEW q \in Seq(S),
         NEW due \in [S -> Int], NEW priority \in [S -> Int], NEW m \in S
  PROVE  HasOneMore(Insert(q, due, priority, m), q, m)
<1>1. PICK p \in 1..(Len(q) + 1), r \in Seq(S) :
        r = Insert(q, due, priority, m) /\ IsSplice(r, q, p, m)
  BY InsertSplices
<1>2. HasOneMore(r, q, m)
  BY <1>1, SpliceAddsOne DEF HasOneMore
<1> QED BY <1>1, <1>2

LEMMA InsertStaysInjective ==
  ASSUME NEW S, NEW q \in Seq(S), IsInjective(q),
         NEW due \in [S -> Int], NEW priority \in [S -> Int],
         NEW m \in S, m \notin ToSet(q)
  PROVE  IsInjective(Insert(q, due, priority, m))
<1>1. PICK p \in 1..(Len(q) + 1), r \in Seq(S) :
        r = Insert(q, due, priority, m) /\ IsSplice(r, q, p, m)
  BY InsertSplices
<1>2. IsInjective(r)
  BY <1>1, SpliceAddsOne
<1> QED BY <1>1, <1>2

-----------------------------------------------------------------------------
(* Removal                                                                 *)

(* The positions kept can be listed in increasing order, each once.        *)
LEMMA Enumeration ==
  ASSUME NEW N \in Nat, NEW T \in SUBSET (0..N)
  PROVE  \E f \in Bijection(1..Cardinality(T), T) : Increasing(f)
<1> DEFINE Listed(U) == \E f \in Bijection(1..Cardinality(U), U) : Increasing(f)
           Bad == {k \in Nat : \E U \in SUBSET (0..N) : Cardinality(U) = k /\ ~Listed(U)}
<1> HIDE DEF Listed
<1>1. \A U \in SUBSET (0..N) : IsFiniteSet(U) /\ Cardinality(U) \in Nat
  <2> SUFFICES ASSUME NEW U \in SUBSET (0..N)
               PROVE  IsFiniteSet(U) /\ Cardinality(U) \in Nat
    OBVIOUS
  <2>1. IsFiniteSet(0..N)
    BY FS_Interval
  <2>2. IsFiniteSet(U)
    BY <2>1, FS_Subset
  <2> QED BY <2>2, FS_CardinalityType
<1>2. Bad = {}
  <2> SUFFICES ASSUME Bad # {}
               PROVE  FALSE
    OBVIOUS
  <2>1. PICK k \in Bad : \A l \in Bad : k <= l
    <3>1. Bad \in SUBSET Nat
      OBVIOUS
    <3> HIDE DEF Bad
    <3> QED BY <3>1, Least
  <2>2. PICK U \in SUBSET (0..N) : Cardinality(U) = k /\ ~Listed(U)
    BY <2>1
  <2>3. IsFiniteSet(U) /\ k \in Nat
    BY <1>1, <2>2
  <2>4. U # {}
    <3> SUFFICES ASSUME U = {}
                 PROVE  FALSE
      OBVIOUS
    <3>1. Cardinality(U) = 0
      BY FS_EmptySet
    <3> DEFINE f == [i \in 1..0 |-> i]
    <3>2. f \in Bijection(1..0, {}) /\ Increasing(f)
      BY DEF Bijection, Injection, Surjection, IsInjective, Increasing
    <3>3. f \in Bijection(1..Cardinality(U), U)
      BY <3>1, <3>2
    <3> QED BY <2>2, <3>2, <3>3 DEF Listed
  <2>5. PICK g \in U : \A j \in U : j <= g
    BY <2>4, Greatest
  <2> DEFINE V == U \ {g}
  <2>6. V \in SUBSET (0..N) /\ Cardinality(V) = k - 1 /\ k - 1 \in Nat
    <3>1. Cardinality(V) = k - 1
      BY <2>2, <2>3, FS_RemoveElement
    <3>2. V \in SUBSET (0..N)
      OBVIOUS
    <3> QED BY <1>1, <3>1, <3>2
  <2>7. Listed(V)
    <3>1. k - 1 \notin Bad
      BY <2>1, <2>3
    <3> HIDE DEF V
    <3> QED BY <2>6, <3>1
  <2>8. PICK f \in Bijection(1..(k - 1), V) : Increasing(f)
    BY <2>6, <2>7 DEF Listed
  <2>9. /\ f \in [1..(k - 1) -> V]
        /\ \A i, j \in 1..(k - 1) : f[i] = f[j] => i = j
        /\ \A j \in V : \E i \in 1..(k - 1) : f[i] = j
        /\ \A i, j \in 1..(k - 1) : i < j => f[i] < f[j]
    BY <2>8 DEF Bijection, Injection, Surjection, IsInjective, Increasing
  <2> DEFINE h == [i \in 1..k |-> IF i = k THEN g ELSE f[i]]
  <2>10. /\ h \in [1..k -> U]
         /\ \A i \in 1..(k - 1) : h[i] = f[i] /\ h[i] \in V
         /\ k \in 1..k /\ h[k] = g
    <3>1. \A i \in 1..k : i # k => i \in 1..(k - 1)
      BY <2>3
    <3>2. k \in 1..k /\ \A i \in 1..(k - 1) : i \in 1..k /\ i # k
      BY <2>6
    <3> QED BY <2>9, <3>1, <3>2
  <2> HIDE DEF h
  <2>11. \A i, j \in 1..k : i < j => h[i] < h[j]
    <3> SUFFICES ASSUME NEW i \in 1..k, NEW j \in 1..k, i < j
                 PROVE  h[i] < h[j]
      OBVIOUS
    <3>0. i \in 1..(k - 1)
      BY <2>3
    <3>1. CASE j = k
      <4>1. h[i] \in V /\ h[j] = g
        BY <2>10, <3>0, <3>1
      <4>2. h[i] <= g /\ h[i] # g /\ h[i] \in 0..N /\ g \in 0..N
        BY <2>5, <2>6, <4>1
      <4> QED BY <4>1, <4>2
    <3>2. CASE j # k
      <4>1. j \in 1..(k - 1)
        BY <2>3, <3>2
      <4> QED BY <2>9, <2>10, <3>0, <4>1
    <3> QED BY <3>1, <3>2
  <2>12. \A i, j \in 1..k : h[i] = h[j] => i = j
    <3>1. \A i \in 1..k : h[i] \in 0..N
      BY <2>10
    <3>2. \A i, j \in 1..k : i < j \/ j < i \/ i = j
      BY <2>3
    <3> QED BY <2>11, <3>1, <3>2
  <2>13. \A j \in U : \E i \in 1..k : h[i] = j
    <3> SUFFICES ASSUME NEW j \in U
                 PROVE  \E i \in 1..k : h[i] = j
      OBVIOUS
    <3>1. CASE j = g
      BY <2>10, <3>1
    <3>2. CASE j # g
      <4>1. PICK i \in 1..(k - 1) : f[i] = j
        BY <2>9, <3>2
      <4>2. i \in 1..k
        BY <2>3
      <4> QED BY <2>10, <4>1, <4>2
    <3> QED BY <3>1, <3>2
  <2>14. h \in Bijection(1..k, U) /\ Increasing(h)
    BY <2>10, <2>11, <2>12, <2>13
       DEF Bijection, Injection, Surjection, IsInjective, Increasing
  <2> QED BY <2>2, <2>14 DEF Listed
<1>3. Listed(T)
  BY <1>1, <1>2
<1> QED BY <1>3 DEF Listed

(* r is what is left of q without S; f gives the old positions.            *)
IsRest(r, q, S, f) ==
  /\ f \in [1..Len(r) -> 1..Len(q)]
  /\ \A i, j \in 1..Len(r) : i < j => f[i] < f[j]
  /\ \A i \in 1..Len(r) : r[i] = q[f[i]] /\ r[i] \notin S
  /\ \A j \in 1..Len(q) : q[j] \notin S => \E i \in 1..Len(r) : f[i] = j

LEMMA EraseKeeps ==
  ASSUME NEW M, NEW q \in Seq(M), NEW S
  PROVE  \E r \in Seq(M) : r = Erase(q, S) /\ \E f : IsRest(r, q, S, f)
<1> DEFINE kept == {i \in 1..Len(q) : q[i] \notin S}
           k    == Cardinality(kept)
           f    == CHOOSE g \in Bijection(1..k, kept) : Increasing(g)
           r    == [i \in 1..k |-> q[f[i]]]
<1>1. kept \in SUBSET (0..Len(q)) /\ Len(q) \in Nat
  OBVIOUS
<1>2. k \in Nat
  <2>1. IsFiniteSet(1..Len(q)) /\ kept \in SUBSET (1..Len(q))
    BY <1>1, FS_Interval
  <2>2. IsFiniteSet(kept)
    BY <2>1, FS_Subset
  <2> QED BY <2>2, FS_CardinalityType
<1>3. f \in Bijection(1..k, kept) /\ Increasing(f)
  <2> HIDE DEF kept
  <2>1. \E g \in Bijection(1..k, kept) : Increasing(g)
    BY <1>1, Enumeration
  <2> QED BY <2>1
<1>4. Erase(q, S) = r
  BY DEF Erase
<1>5. \A i \in kept : i \in 1..Len(q) /\ q[i] \notin S
  OBVIOUS
<1>6. \A j \in 1..Len(q) : q[j] \notin S => j \in kept
  OBVIOUS
<1> HIDE DEF kept, k, f
<1>7. /\ f \in [1..k -> kept]
      /\ \A j \in kept : \E i \in 1..k : f[i] = j
      /\ \A i, j \in 1..k : i < j => f[i] < f[j]
  BY <1>3 DEF Bijection, Injection, Surjection, Increasing
<1>8. f \in [1..k -> 1..Len(q)]
  BY <1>5, <1>7
<1>9. /\ \A i \in 1..k : r[i] = q[f[i]] /\ r[i] \notin S /\ r[i] \in M
      /\ DOMAIN r = 1..k
  BY <1>5, <1>7, <1>8
<1>10. r \in Seq(M) /\ Len(r) = k
  <2>1. r \in [1..k -> M]
    BY <1>9
  <2> HIDE DEF r
  <2> QED BY <1>2, <2>1
<1> HIDE DEF r
<1>11. IsRest(r, q, S, f)
  <2>1. \A j \in 1..Len(q) : q[j] \notin S => \E i \in 1..k : f[i] = j
    BY <1>6, <1>7
  <2> QED BY <1>7, <1>8, <1>9, <1>10, <2>1 DEF IsRest
<1> QED BY <1>4, <1>10, <1>11

(* Removal removes the messages in S and nothing else, and keeps the order *)
(* of the others.                                                          *)
LEMMA EraseType ==
  ASSUME NEW M, NEW q \in Seq(M), NEW S
  PROVE  Erase(q, S) \in Seq(M)
BY EraseKeeps

LEMMA EraseKeepsSorted ==
  ASSUME NEW M, NEW q \in Seq(M), NEW S, NEW due, NEW priority, Sorted(q, due, priority)
  PROVE  Sorted(Erase(q, S), due, priority)
<1>1. PICK r \in Seq(M) : r = Erase(q, S) /\ \E f : IsRest(r, q, S, f)
  BY EraseKeeps
<1>2. PICK f : IsRest(r, q, S, f)
  BY <1>1
<1>3. \A i, j \in 1..Len(r) : i < j => ~Before(due, priority, q[f[j]], q[f[i]])
  BY <1>2 DEF Sorted, IsRest
<1>4. Sorted(r, due, priority)
  BY <1>2, <1>3 DEF Sorted, IsRest
<1> QED BY <1>1, <1>4

LEMMA EraseRemoves ==
  ASSUME NEW M, NEW q \in Seq(M), NEW S
  PROVE  /\ ToSet(Erase(q, S)) = ToSet(q) \ S
         /\ IsInjective(q) => IsInjective(Erase(q, S))
<1>1. PICK r \in Seq(M) : r = Erase(q, S) /\ \E f : IsRest(r, q, S, f)
  BY EraseKeeps
<1>2. PICK f : IsRest(r, q, S, f)
  BY <1>1
<1>3. DOMAIN r = 1..Len(r) /\ DOMAIN q = 1..Len(q)
  OBVIOUS
<1>4. \A x : x \in ToSet(r) => x \in ToSet(q) \ S
  BY <1>2, <1>3 DEF ToSet, IsRest
<1>5. \A x : x \in ToSet(q) \ S => x \in ToSet(r)
  <2> SUFFICES ASSUME NEW j \in 1..Len(q), q[j] \notin S
               PROVE  q[j] \in ToSet(r)
    BY <1>3 DEF ToSet
  <2>1. PICK i \in 1..Len(r) : f[i] = j
    BY <1>2 DEF IsRest
  <2>2. r[i] = q[j]
    BY <1>2, <2>1 DEF IsRest
  <2> QED BY <1>3, <2>2 DEF ToSet
<1>6. ASSUME IsInjective(q)
      PROVE  IsInjective(r)
  <2>1. \A i, j \in 1..Len(r) : i < j \/ j < i \/ i = j
    OBVIOUS
  <2>2. \A i, j \in 1..Len(r) : i < j => r[i] # r[j]
    BY <1>2, <1>3, <1>6 DEF IsInjective, IsRest
  <2> QED BY <1>3, <2>1, <2>2 DEF IsInjective
<1> QED BY <1>1, <1>4, <1>5, <1>6

(* The same of taking the first message out.                               *)
LEMMA TailKeepsSorted ==
  ASSUME NEW M, NEW q \in Seq(M), q # << >>, NEW due, NEW priority, Sorted(q, due, priority)
  PROVE  Sorted(Tail(q), due, priority)
<1>1. /\ Tail(q) \in Seq(M) /\ Len(Tail(q)) = Len(q) - 1
      /\ \A i \in 1..Len(Tail(q)) : Tail(q)[i] = q[i + 1]
  BY HeadTailProperties
<1>2. PICK r \in Seq(M) : r = Tail(q)
  BY <1>1
<1>3. \A i, j \in 1..Len(r) :
        i < j => i + 1 \in 1..Len(q) /\ j + 1 \in 1..Len(q) /\ i + 1 < j + 1
  BY <1>1, <1>2
<1>4. \A i \in 1..Len(r) : r[i] = q[i + 1]
  BY <1>1, <1>2
<1>5. \A i, j \in 1..Len(r) : i < j => ~Before(due, priority, r[j], r[i])
  BY <1>3, <1>4 DEF Sorted
<1> QED BY <1>2, <1>5 DEF Sorted

LEMMA TailRemovesHead ==
  ASSUME NEW M, NEW q \in Seq(M), q # << >>, IsInjective(q)
  PROVE  /\ Head(q) \in M /\ Head(q) \in ToSet(q)
         /\ Tail(q) \in Seq(M) /\ IsInjective(Tail(q))
         /\ ToSet(Tail(q)) = ToSet(q) \ {Head(q)}
<1>1. /\ Tail(q) \in Seq(M) /\ Len(Tail(q)) = Len(q) - 1
      /\ \A i \in 1..Len(Tail(q)) : Tail(q)[i] = q[i + 1]
      /\ Head(q) \in M
  BY HeadTailProperties
<1>2. PICK r \in Seq(M) : r = Tail(q)
  BY <1>1
<1>3. /\ Len(q) \in Nat \ {0} /\ Len(r) = Len(q) - 1 /\ 1 \in 1..Len(q)
      /\ DOMAIN q = 1..Len(q) /\ DOMAIN r = 1..Len(r) /\ Head(q) = q[1]
  BY <1>1, <1>2
<1>4. \A i \in 1..Len(r) : r[i] = q[i + 1] /\ i + 1 \in 1..Len(q) /\ i + 1 # 1
  BY <1>1, <1>2, <1>3
<1>5. \A i, j \in 1..Len(q) : q[i] = q[j] => i = j
  BY <1>3 DEF IsInjective
<1>6. \A x : x \in ToSet(r) => x \in ToSet(q) \ {Head(q)}
  BY <1>3, <1>4, <1>5 DEF ToSet
<1>7. \A x : x \in ToSet(q) \ {Head(q)} => x \in ToSet(r)
  <2> SUFFICES ASSUME NEW i \in 1..Len(q), q[i] # Head(q)
               PROVE  q[i] \in ToSet(r)
    BY <1>3 DEF ToSet
  <2>1. i - 1 \in 1..Len(r) /\ (i - 1) + 1 = i
    BY <1>3
  <2>2. r[i - 1] = q[i]
    BY <1>4, <2>1
  <2> QED BY <1>3, <2>1, <2>2 DEF ToSet
<1>8. IsInjective(r)
  <2>1. ASSUME NEW i \in 1..Len(r), NEW j \in 1..Len(r), r[i] = r[j]
        PROVE  i = j
    <3>1. i + 1 = j + 1
      BY <1>4, <1>5, <2>1
    <3> QED BY <3>1
  <2> QED BY <1>3, <2>1 DEF IsInjective
<1>9. Head(q) \in ToSet(q)
  BY <1>3 DEF ToSet
<1> QED BY <1>1, <1>2, <1>6, <1>7, <1>8, <1>9

(* Nothing in a sorted deque has to run before its first message.          *)
LEMMA HeadIsFirst ==
  ASSUME NEW M, NEW q \in Seq(M), NEW due, NEW priority, Sorted(q, due, priority),
         NEW m \in ToSet(q), m # Head(q)
  PROVE  ~Before(due, priority, m, Head(q))
<1>1. PICK i \in 1..Len(q) : m = q[i]
  BY DEF ToSet
<1>2. q # << >> /\ Head(q) = q[1] /\ 1 \in 1..Len(q)
  BY <1>1
<1>3. 1 < i
  BY <1>1, <1>2
<1> QED BY <1>1, <1>2, <1>3 DEF Sorted
=============================================================================
