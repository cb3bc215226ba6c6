--------------------------- MODULE Backends_proofs --------------------------
(***************************************************************************)
(* What four parts of the engines promise, for any engines, threads and    *)
(* values: the ticks of QuickJs, the tasks of V8's platform, the lock and  *)
(* the thread states of Python, and the counts behind the Locals of        *)
(* QuickJs and Python.                                                     *)
(***************************************************************************)
EXTENDS LocalCounts, QjsTick, V8Platform, PyEngineLock, SequenceTheorems, FiniteSetTheorems, TLAPS

-----------------------------------------------------------------------------
(* QuickJs. As long as an engine has jobs, one tick comes or will be       *)
(* posted, for any threads, jobs and depth of the stacks.                  *)

QjsSpec == QjsInit /\ [][QjsNext]_qjsVars

(* Of a stack s: the engine is current when n frames are on it, the last   *)
(* of which is no tick that was just taken; and when all of them are.      *)
In(s, n) == n > 0 /\ s[n].impl # "exit"
Settled(s) == IF s # << >> /\ s[Len(s)].tick = "taken" THEN Len(s) - 1 ELSE Len(s)

EnteredBelow(s, n) == \E i \in 1..n : s[i].impl = "enter"

(* Ticks that are taken or done are on top, where no code of the user runs *)
(* that would open a scope.                                                *)
FrameFits(s, n) ==
  /\ s[n].tick \in {"taken", "done"} => n = Len(s)
  /\ s[n].tick = "taken" => s[n].impl = "none"
  /\ s[n].tick # "taken" /\ s[n].impl = "enter" => ~In(s, n - 1)
  /\ s[n].tick # "taken" /\ s[n].impl # "enter" => In(s, n - 1) /\ EnteredBelow(s, n - 1)
  /\ s[n].impl = "exit" => s[n].tick = "no"

Stacked(s) ==
  /\ \A n \in 1..Len(s) : FrameFits(s, n)
  /\ Len(s) <= QjsDepth + 1
  /\ Len(s) = QjsDepth + 1 => s[Len(s)].tick # "no"

UnderWay(s, i) == i \in 1..Len(s) /\ s[i].tick \in {"taken", "running"}

(* OneTick without counting.                                               *)
TickIsOne ==
  /\ qjs.posted \in {0, 1}
  /\ ~qjs.scheduled => qjs.posted = 0
  /\ \A t \in QjsThreads : \A i \in 1..QjsDepth + 1 : UnderWay(qjsFrames[t], i) => qjs.scheduled /\ qjs.posted = 0
  /\ \A t, u \in QjsThreads : \A i, j \in 1..QjsDepth + 1 :
       UnderWay(qjsFrames[t], i) /\ UnderWay(qjsFrames[u], j) => t = u /\ i = j
  /\ qjs.scheduled => qjs.posted = 1 \/ \E t \in QjsThreads : \E i \in 1..QjsDepth + 1 : UnderWay(qjsFrames[t], i)

AfterDestruction ==
  qjs.destroyed => /\ qjs.posted = 0 /\ qjs.jobs = 0
                   /\ \A t \in QjsThreads : qjsFrames[t] = << >>

LockIsInside == \A t \in QjsThreads : qjs.lock = t <=> In(qjsFrames[t], Settled(qjsFrames[t]))

QjsInv ==
  /\ QjsTypeOK
  /\ \A t \in QjsThreads : Stacked(qjsFrames[t])
  /\ ~qjs.destroyed => TickIsOne
  /\ AfterDestruction
  /\ JobsHaveTick
  /\ LockIsInside

-----------------------------------------------------------------------------
(* Stacks                                                                  *)

LEMMA InsideIsIn ==
  ASSUME NEW t \in QjsThreads, qjsFrames[t] \in Seq(QjsFrame), Stacked(qjsFrames[t])
  PROVE  Inside(t) <=> In(qjsFrames[t], Settled(qjsFrames[t]))
<1> DEFINE s == qjsFrames[t]
           n == Settled(s)
<1>1. s \in Seq(QjsFrame) /\ Len(s) \in Nat
  OBVIOUS
<1>2. \A i \in 1..Len(s) : s[i].tick = "taken" => i = Len(s)
  BY DEF Stacked, FrameFits
<1>3. Inside(t) <=> \E i \in 1..Len(s) : /\ s[i].tick # "taken" /\ s[i].impl # "exit"
                                         /\ \A j \in i + 1..Len(s) : s[j].tick = "taken"
  BY DEF Inside
<1>4. CASE s = << >>
  BY <1>3, <1>4 DEF Settled, In
<1>5. CASE s # << >> /\ s[Len(s)].tick = "taken"
  <2> HIDE DEF s
  <2>1. n = Len(s) - 1 /\ Len(s) > 0
    BY <1>1, <1>5 DEF Settled
  <2>2. ASSUME In(s, n) PROVE Inside(t)
    <3>1. n \in 1..Len(s) /\ n # Len(s) /\ s[n].impl # "exit"
      BY <1>1, <2>1, <2>2 DEF In
    <3>2. \A j \in n + 1..Len(s) : j = Len(s)
      BY <1>1, <2>1
    <3> QED
      BY <1>2, <1>3, <1>5, <3>1, <3>2
  <2>3. ASSUME Inside(t) PROVE In(s, n)
    <3>1. PICK i \in 1..Len(s) : /\ s[i].tick # "taken" /\ s[i].impl # "exit"
                                 /\ \A j \in i + 1..Len(s) : s[j].tick = "taken"
      BY <1>3, <2>3
    <3>2. i # Len(s) /\ i + 1 \in i + 1..Len(s)
      BY <1>1, <1>5, <3>1
    <3>3. i + 1 = Len(s)
      BY <1>1, <1>2, <3>1, <3>2
    <3> QED
      BY <1>1, <2>1, <3>1, <3>3 DEF In
  <2> QED
    BY <2>2, <2>3 DEF s
<1>6. CASE s # << >> /\ s[Len(s)].tick # "taken"
  <2> HIDE DEF s
  <2>1. n = Len(s) /\ Len(s) > 0
    BY <1>1, <1>6 DEF Settled
  <2>2. ASSUME In(s, n) PROVE Inside(t)
    <3>1. n \in 1..Len(s) /\ s[n].impl # "exit" /\ \A j \in n + 1..Len(s) : FALSE
      BY <1>1, <2>1, <2>2 DEF In
    <3> QED
      BY <1>3, <1>6, <2>1, <3>1
  <2>3. ASSUME Inside(t) PROVE In(s, n)
    <3>1. PICK i \in 1..Len(s) : /\ s[i].tick # "taken" /\ s[i].impl # "exit"
                                 /\ \A j \in i + 1..Len(s) : s[j].tick = "taken"
      BY <1>3, <2>3
    <3>2. CASE i # Len(s)
      <4>1. Len(s) \in i + 1..Len(s)
        BY <1>1, <3>2
      <4> QED
        BY <1>6, <3>1, <4>1
    <3> QED
      BY <1>1, <2>1, <3>1, <3>2 DEF In
  <2> QED
    BY <2>2, <2>3 DEF s
<1> QED
  BY <1>4, <1>5, <1>6

LEMMA SettledIsBelow ==
  ASSUME NEW s \in Seq(QjsFrame)
  PROVE  Settled(s) \in 0..Len(s) /\ Len(s) \in Nat
  BY DEF Settled

(* A frame in which the engine is current has one below that entered it.   *)
LEMMA InIsEntered ==
  ASSUME NEW s \in Seq(QjsFrame), Stacked(s), NEW n \in 0..Settled(s), In(s, n)
  PROVE  EnteredBelow(s, n)
<1>1. n \in 1..Len(s) /\ s[n].impl # "exit" /\ s[n] \in QjsFrame
  BY SettledIsBelow DEF In
<1>2. FrameFits(s, n)
  BY <1>1 DEF Stacked
<1>3. s[n].tick # "taken"
  <2>1. CASE n = Len(s)
    <3>1. s # << >>
      BY <1>1
    <3> QED
      BY <1>1, <2>1, <3>1 DEF Settled
  <2>2. CASE n # Len(s)
    BY <1>2, <2>2 DEF FrameFits
  <2> QED
    BY <2>1, <2>2
<1>4. CASE s[n].impl = "enter"
  BY <1>1, <1>4 DEF EnteredBelow
<1>5. CASE s[n].impl # "enter"
  <2>1. PICK i \in 1..n - 1 : s[i].impl = "enter"
    BY <1>2, <1>3, <1>5 DEF FrameFits, EnteredBelow
  <2>2. i \in 1..n
    BY <1>1
  <2> QED
    BY <2>1, <2>2 DEF EnteredBelow
<1> QED
  BY <1>4, <1>5

(* What is below a frame does not change with it.                          *)
LEMMA FitsBelow ==
  ASSUME NEW s \in Seq(QjsFrame), NEW r \in Seq(QjsFrame), NEW n \in 1..Len(s),
         n <= Len(r), \A i \in 1..n : r[i] = s[i],
         FrameFits(s, n), s[n].tick \notin {"taken", "done"}
  PROVE  FrameFits(r, n)
<1>1. n - 1 > 0 => n - 1 \in 1..n
  OBVIOUS
<1>2. r[n] = s[n] /\ (In(r, n - 1) <=> In(s, n - 1))
  BY <1>1 DEF In
<1>3. EnteredBelow(r, n - 1) <=> EnteredBelow(s, n - 1)
  <2>1. \A i \in 1..n - 1 : i \in 1..n
    OBVIOUS
  <2> QED
    BY <2>1 DEF EnteredBelow
<1> QED
  BY <1>2, <1>3 DEF FrameFits

LEMMA StackPush ==
  ASSUME NEW s \in Seq(QjsFrame), Stacked(s), NEW x \in QjsFrame,
         s # << >> => s[Len(s)].tick \notin {"taken", "done"},
         FrameFits(Append(s, x), Len(s) + 1),
         Len(s) <= QjsDepth, Len(s) = QjsDepth => x.tick # "no"
  PROVE  LET r == Append(s, x)
         IN  /\ r \in Seq(QjsFrame) /\ Stacked(r) /\ Len(r) = Len(s) + 1 /\ r[Len(s) + 1] = x
             /\ \A i \in 1..Len(s) : r[i] = s[i]
             /\ Settled(r) = (IF x.tick = "taken" THEN Len(s) ELSE Len(s) + 1)
             /\ In(r, Len(s)) <=> In(s, Len(s))
             /\ Settled(s) = Len(s)
<1> DEFINE r == Append(s, x)
           n == Len(s)
<1>1. /\ n \in Nat /\ r \in Seq(QjsFrame) /\ Len(r) = n + 1 /\ r[n + 1] = x
      /\ \A i \in 1..n : r[i] = s[i]
      /\ r # << >>
  <2>1. n \in Nat /\ r \in Seq(QjsFrame) /\ Len(r) = n + 1 /\ r[n + 1] = x
    OBVIOUS
  <2>2. \A i \in 1..n : r[i] = s[i]
    OBVIOUS
  <2> HIDE DEF n, r
  <2> QED
    BY <2>1, <2>2
<1>2. FrameFits(r, n + 1) /\ n = Len(s)
  OBVIOUS
<1> HIDE DEF r, n
<1>3. ASSUME NEW i \in 1..n PROVE FrameFits(r, i)
  <2>1. i \in 1..Len(s) /\ i <= Len(r) /\ \A j \in 1..i : r[j] = s[j]
    BY <1>1, <1>2
  <2>2. FrameFits(s, i) /\ s[i].tick \notin {"taken", "done"}
    <3>1. FrameFits(s, i)
      BY <2>1 DEF Stacked
    <3>2. i = Len(s) => s # << >>
      BY <2>1
    <3> QED
      BY <3>1, <3>2 DEF FrameFits
  <2> QED
    BY <1>1, <2>1, <2>2, FitsBelow
<1>4. \A i \in 1..Len(r) : i \in 1..n \/ i = n + 1
  BY <1>1
<1>5. Stacked(r)
  <2>1. n + 1 <= QjsDepth + 1 /\ (n + 1 = QjsDepth + 1 => x.tick # "no")
    BY <1>1, <1>2, QjsAssumption
  <2> QED
    BY <1>1, <1>2, <1>3, <1>4, <2>1 DEF Stacked
<1>6. Settled(r) = (IF x.tick = "taken" THEN n ELSE n + 1)
  BY <1>1 DEF Settled
<1>7. In(r, n) <=> In(s, n)
  BY <1>1 DEF In
<1>8. Settled(s) = n
  BY <1>2 DEF Settled
<1>9. /\ r \in Seq(QjsFrame) /\ Stacked(r) /\ Len(r) = n + 1 /\ r[n + 1] = x
      /\ \A i \in 1..n : r[i] = s[i]
      /\ Settled(r) = (IF x.tick = "taken" THEN n ELSE n + 1)
      /\ In(r, n) <=> In(s, n)
      /\ Settled(s) = n
  BY <1>1, <1>5, <1>6, <1>7, <1>8
<1> QED
  BY <1>9 DEF r, n

LEMMA StackPop ==
  ASSUME NEW s \in Seq(QjsFrame), Stacked(s), s # << >>, s[Len(s)].tick # "taken"
  PROVE  LET r == SubSeq(s, 1, Len(s) - 1)
         IN  /\ r \in Seq(QjsFrame) /\ Stacked(r) /\ Len(r) = Len(s) - 1
             /\ \A i \in 1..Len(s) - 1 : r[i] = s[i]
             /\ Settled(r) = Len(s) - 1
             /\ In(r, Len(s) - 1) <=> In(s, Len(s) - 1)
             /\ Settled(s) = Len(s)
<1> DEFINE n == Len(s) - 1
           r == SubSeq(s, 1, n)
<1>1. n \in Nat /\ Len(s) = n + 1 /\ \A i \in 1..n : s[i] \in QjsFrame
  OBVIOUS
<1> HIDE DEF n
<1>2. r \in Seq(QjsFrame) /\ Len(r) = n /\ \A i \in 1..n : r[i] = s[i]
  <2>1. /\ r \in Seq(QjsFrame)
        /\ Len(r) = IF 1 <= n THEN n - 1 + 1 ELSE 0
        /\ \A i \in 1..n - 1 + 1 : r[i] = s[1 + i - 1]
    BY <1>1, SubSeqProperties
  <2> HIDE DEF r
  <2> QED
    BY <1>1, <2>1
<1> HIDE DEF r
<1>3. ASSUME NEW i \in 1..n
      PROVE  /\ FrameFits(r, i) /\ r[i].tick \notin {"taken", "done"}
  <2>1. i \in 1..Len(s) /\ i # Len(s) /\ i <= Len(r) /\ \A j \in 1..i : r[j] = s[j]
    BY <1>1, <1>2
  <2>2. FrameFits(s, i) /\ s[i].tick \notin {"taken", "done"}
    BY <2>1 DEF Stacked, FrameFits
  <2>3. FrameFits(r, i)
    BY <1>2, <2>1, <2>2, FitsBelow
  <2> QED
    BY <1>2, <2>2, <2>3
<1>4. Stacked(r)
  <2>1. n <= QjsDepth + 1 /\ n # QjsDepth + 1
    BY <1>1, QjsAssumption DEF Stacked
  <2> QED
    BY <1>2, <1>3, <2>1 DEF Stacked
<1>5. Settled(r) = n
  <2>1. r # << >> => n \in 1..n
    BY <1>1, <1>2
  <2> QED
    BY <1>2, <1>3, <2>1 DEF Settled
<1>6. In(r, n) <=> In(s, n)
  <2>1. n > 0 => n \in 1..n
    BY <1>1
  <2> QED
    BY <1>2, <2>1 DEF In
<1>7. Settled(s) = n + 1
  BY <1>1 DEF Settled
<1> QED
  BY <1>1, <1>2, <1>4, <1>5, <1>6, <1>7 DEF r, n

-----------------------------------------------------------------------------
(* Steps                                                                   *)

QjsEngine == [jobs : Nat, scheduled : BOOLEAN, posted : Nat,
              lock : QjsThreads \cup {NoThread}, destroyed : BOOLEAN]

FramesBecome(t, r) == qjsFrames' = [qjsFrames EXCEPT ![t] = r]

(* q is s, or s with the tick that its jobs need and did not have.         *)
SameTick(s, q) ==
  \/ q.scheduled = s.scheduled /\ q.posted = s.posted
  \/ ~s.scheduled /\ q.scheduled /\ q.posted = s.posted + 1

LEMMA TriggerTriggers ==
  ASSUME NEW s \in QjsEngine
  PROVE  LET q == triggerTick(s)
         IN  /\ q \in QjsEngine /\ SameTick(s, q)
             /\ q.jobs = s.jobs /\ q.lock = s.lock /\ q.destroyed = s.destroyed
             /\ q.jobs > 0 => q.scheduled
<1> DEFINE more == s.posted + 1
           q == triggerTick(s)
<1>1. s.scheduled \in BOOLEAN /\ s.jobs \in Nat /\ s.posted \in Nat /\ more \in Nat
  BY DEF QjsEngine
<1>2. CASE s.jobs > 0 /\ ~s.scheduled
  <2>1. q = [s EXCEPT !.scheduled = TRUE, !.posted = more]
    BY <1>2 DEF triggerTick
  <2> HIDE DEF q, more
  <2>2. q = [jobs |-> s.jobs, scheduled |-> TRUE, posted |-> more, lock |-> s.lock,
             destroyed |-> s.destroyed]
    BY <2>1 DEF QjsEngine
  <2>3. q \in QjsEngine
    BY <1>1, <2>2 DEF QjsEngine
  <2>4. /\ q.scheduled = TRUE /\ q.posted = more /\ q.jobs = s.jobs /\ q.lock = s.lock
        /\ q.destroyed = s.destroyed
    BY <2>2
  <2> QED
    BY <1>2, <2>3, <2>4 DEF SameTick, q, more
<1>3. CASE ~(s.jobs > 0 /\ ~s.scheduled)
  <2>1. q = s
    BY <1>3 DEF triggerTick
  <2> HIDE DEF q
  <2>2. s.jobs > 0 => s.scheduled
    BY <1>3
  <2> QED
    BY <2>1, <2>2 DEF SameTick, q
<1> QED
  BY <1>2, <1>3

LEMMA FramesAreTyped ==
  ASSUME QjsInv, NEW t \in QjsThreads
  PROVE  /\ qjsFrames[t] \in Seq(QjsFrame) /\ Stacked(qjsFrames[t])
         /\ Len(qjsFrames[t]) \in Nat /\ Len(qjsFrames[t]) <= QjsDepth + 1
         /\ Inside(t) <=> In(qjsFrames[t], Settled(qjsFrames[t]))
         /\ qjs.lock = t <=> Inside(t)
         /\ qjs.destroyed => qjsFrames[t] = << >>
         /\ qjs \in QjsEngine
<1>1. qjsFrames[t] \in Seq(QjsFrame) /\ Stacked(qjsFrames[t]) /\ qjs \in QjsEngine
  BY DEF QjsInv, QjsTypeOK, QjsEngine
<1>2. Inside(t) <=> In(qjsFrames[t], Settled(qjsFrames[t]))
  BY <1>1, InsideIsIn
<1> QED
  BY <1>1, <1>2 DEF QjsInv, LockIsInside, AfterDestruction, Stacked

LEMMA StepInv ==
  ASSUME QjsInv, NEW t \in QjsThreads, NEW r \in Seq(QjsFrame), FramesBecome(t, r), Stacked(r),
         NEW q, q = qjs', q \in QjsEngine, ~q.destroyed, qjsMade' \in 0..QjsMaxJobs,
         TickIsOne',
         q.lock = t <=> In(r, Settled(r)),
         \A u \in QjsThreads \ {t} : q.lock = u <=> qjs.lock = u,
         q.jobs > 0 /\ ~q.scheduled =>
           \E u \in QjsThreads : EnteredBelow(qjsFrames'[u], Len(qjsFrames'[u]))
  PROVE  QjsInv'
<1>1. /\ qjsFrames' \in [QjsThreads -> Seq(QjsFrame)] /\ qjsFrames'[t] = r
      /\ \A u \in QjsThreads \ {t} : qjsFrames'[u] = qjsFrames[u]
  BY DEF QjsInv, QjsTypeOK, FramesBecome
<1>2. QjsTypeOK'
  BY <1>1 DEF QjsTypeOK, QjsEngine
<1>3. \A u \in QjsThreads : Stacked(qjsFrames'[u])
  BY <1>1 DEF QjsInv
<1>4. AfterDestruction'
  BY DEF AfterDestruction
<1>5. JobsHaveTick'
  BY DEF JobsHaveTick, EnteredBelow
<1>6. LockIsInside'
  BY <1>1 DEF LockIsInside, QjsInv
<1> QED
  BY <1>2, <1>3, <1>4, <1>5, <1>6 DEF QjsInv

LEMMA TickSame ==
  ASSUME QjsInv, ~qjs.destroyed, NEW t \in QjsThreads, NEW r \in Seq(QjsFrame),
         FramesBecome(t, r),
         \A i \in 1..QjsDepth + 1 : UnderWay(r, i) <=> UnderWay(qjsFrames[t], i),
         SameTick(qjs, qjs')
  PROVE  TickIsOne'
<1>1. /\ qjsFrames'[t] = r
      /\ \A u \in QjsThreads \ {t} : qjsFrames'[u] = qjsFrames[u]
  BY DEF QjsInv, QjsTypeOK, FramesBecome
<1>2. \A u \in QjsThreads : \A i \in 1..QjsDepth + 1 :
        UnderWay(qjsFrames'[u], i) <=> UnderWay(qjsFrames[u], i)
  BY <1>1
<1>3. TickIsOne /\ qjs.scheduled \in BOOLEAN
  BY DEF QjsInv, QjsTypeOK
<1> QED
  BY <1>2, <1>3 DEF TickIsOne, SameTick

(* What is scheduled stays so, or is entered.                              *)
LEMMA JobsSame ==
  ASSUME QjsInv, NEW t \in QjsThreads, NEW r \in Seq(QjsFrame), FramesBecome(t, r),
         EnteredBelow(qjsFrames[t], Len(qjsFrames[t])) => EnteredBelow(r, Len(r)),
         qjs'.jobs = qjs.jobs, qjs'.scheduled = qjs.scheduled
  PROVE  qjs'.jobs > 0 /\ ~qjs'.scheduled =>
           \E u \in QjsThreads : EnteredBelow(qjsFrames'[u], Len(qjsFrames'[u]))
<1>1. /\ qjsFrames'[t] = r
      /\ \A u \in QjsThreads \ {t} : qjsFrames'[u] = qjsFrames[u]
  BY DEF QjsInv, QjsTypeOK, FramesBecome
<1>2. qjs.jobs > 0 /\ ~qjs.scheduled =>
        \E u \in QjsThreads : EnteredBelow(qjsFrames[u], Len(qjsFrames[u]))
  BY DEF QjsInv, JobsHaveTick, EnteredBelow
<1> QED
  BY <1>1, <1>2

(* A frame on top of the stack in which the user runs.                     *)
LEMMA PushesOne ==
  ASSUME QjsInv, NEW t \in QjsThreads, NEW impl \in {"enter", "exit", "none"},
         NEW tick \in {"no", "taken"},
         PushFrame(t, impl, tick), InUserCode(t),
         FrameFits(Append(qjsFrames[t], [impl |-> impl, tick |-> tick]), Len(qjsFrames[t]) + 1),
         Len(qjsFrames[t]) <= QjsDepth, Len(qjsFrames[t]) = QjsDepth => tick # "no"
  PROVE  \E r \in Seq(QjsFrame) :
           /\ FramesBecome(t, r) /\ Stacked(r) /\ Len(r) = Len(qjsFrames[t]) + 1
           /\ r[Len(r)] = [impl |-> impl, tick |-> tick]
           /\ \A i \in 1..Len(qjsFrames[t]) : r[i] = qjsFrames[t][i]
           /\ Settled(r) = (IF tick = "taken" THEN Len(qjsFrames[t]) ELSE Len(r))
           /\ In(r, Len(qjsFrames[t])) <=> Inside(t)
<1> DEFINE s == qjsFrames[t]
           x == [impl |-> impl, tick |-> tick]
           r == Append(s, x)
<1>1. s \in Seq(QjsFrame) /\ Stacked(s) /\ (Inside(t) <=> In(s, Settled(s)))
  BY FramesAreTyped
<1>2. x \in QjsFrame /\ x.tick = tick
  BY DEF QjsFrame
<1>3. s # << >> => s[Len(s)].tick \notin {"taken", "done"}
  BY DEF InUserCode, HasTop, QjsTop
<1>4. FrameFits(Append(s, x), Len(s) + 1)
  OBVIOUS
<1>5. FramesBecome(t, r)
  BY DEF PushFrame, FramesBecome
<1> HIDE DEF s, x
<1>6. /\ r \in Seq(QjsFrame) /\ Stacked(r) /\ Len(r) = Len(s) + 1 /\ r[Len(s) + 1] = x
      /\ \A i \in 1..Len(s) : r[i] = s[i]
      /\ Settled(r) = (IF x.tick = "taken" THEN Len(s) ELSE Len(s) + 1)
      /\ In(r, Len(s)) <=> In(s, Len(s))
      /\ Settled(s) = Len(s)
  <2>1. Len(s) <= QjsDepth /\ (Len(s) = QjsDepth => x.tick # "no")
    BY <1>2 DEF s
  <2> QED
    BY <1>1, <1>2, <1>3, <1>4, <2>1, StackPush
<1> HIDE DEF r
<1>7. /\ FramesBecome(t, r) /\ Stacked(r) /\ Len(r) = Len(s) + 1 /\ r[Len(r)] = x
      /\ \A i \in 1..Len(s) : r[i] = s[i]
      /\ Settled(r) = (IF tick = "taken" THEN Len(s) ELSE Len(r))
      /\ In(r, Len(s)) <=> Inside(t)
  BY <1>1, <1>2, <1>5, <1>6
<1> QED
  BY <1>6, <1>7 DEF s, x

(* Stacks that only differ in a frame that is no tick under way.           *)
LEMMA PushUnderWay ==
  ASSUME NEW s \in Seq(QjsFrame), NEW r \in Seq(QjsFrame), Len(r) = Len(s) + 1,
         \A i \in 1..Len(s) : r[i] = s[i],
         r[Len(r)].tick \notin {"taken", "running"}
  PROVE  \A i \in 1..QjsDepth + 1 : UnderWay(r, i) <=> UnderWay(s, i)
<1>1. Len(s) \in Nat /\ Len(r) \in Nat
  OBVIOUS
<1>2. \A i : i \in 1..Len(r) <=> i \in 1..Len(s) \/ i = Len(r)
  BY <1>1
<1>3. Len(r) \notin 1..Len(s)
  BY <1>1
<1> QED
  BY <1>2, <1>3 DEF UnderWay

LEMMA PushEntered ==
  ASSUME NEW s \in Seq(QjsFrame), NEW r \in Seq(QjsFrame), Len(r) >= Len(s),
         \A i \in 1..Len(s) : r[i] = s[i], EnteredBelow(s, Len(s))
  PROVE  EnteredBelow(r, Len(r))
<1>1. \A i \in 1..Len(s) : i \in 1..Len(r)
  OBVIOUS
<1> QED
  BY <1>1 DEF EnteredBelow

LEMMA PushFits ==
  ASSUME NEW s \in Seq(QjsFrame), NEW x \in QjsFrame, x.tick \in {"no", "taken"},
         x.tick = "taken" => x.impl = "none",
         x.tick = "no" /\ x.impl = "enter" => ~In(s, Len(s)),
         x.tick = "no" /\ x.impl # "enter" => In(s, Len(s)) /\ EnteredBelow(s, Len(s))
  PROVE  FrameFits(Append(s, x), Len(s) + 1)
<1> DEFINE r == Append(s, x)
           n == Len(s)
<1>1. /\ n \in Nat /\ r \in Seq(QjsFrame) /\ Len(r) = n + 1 /\ r[n + 1] = x
  OBVIOUS
<1>2. \A i \in 1..n : r[i] = s[i]
  OBVIOUS
<1>3. x.tick = "no" /\ x.impl # "enter" => In(s, n) /\ EnteredBelow(s, n)
  OBVIOUS
<1>4. x.tick = "no" /\ x.impl = "enter" => ~In(s, n)
  OBVIOUS
<1> HIDE DEF r, n
<1>5. n > 0 => n \in 1..n
  BY <1>1
<1>6. (In(r, n) <=> In(s, n)) /\ (EnteredBelow(s, n) => EnteredBelow(r, n))
  BY <1>2, <1>5 DEF In, EnteredBelow
<1>7. n + 1 - 1 = n
  BY <1>1
<1>8. FrameFits(r, n + 1)
  BY <1>1, <1>3, <1>4, <1>6, <1>7 DEF FrameFits
<1> QED
  BY <1>8 DEF r, n

(* The user runs with all frames settled.                                  *)
LEMMA UserIsSettled ==
  ASSUME QjsInv, NEW t \in QjsThreads, InUserCode(t)
  PROVE  LET s == qjsFrames[t]
         IN  /\ s \in Seq(QjsFrame) /\ Settled(s) = Len(s) /\ Len(s) \in Nat
             /\ Inside(t) => In(s, Len(s)) /\ EnteredBelow(s, Len(s))
             /\ ~Inside(t) => ~In(s, Len(s))
<1> DEFINE s == qjsFrames[t]
<1>1. s \in Seq(QjsFrame) /\ Stacked(s) /\ (Inside(t) <=> In(s, Settled(s)))
  BY FramesAreTyped
<1>2. s # << >> => s[Len(s)].tick # "taken"
  BY DEF InUserCode, HasTop, QjsTop
<1> HIDE DEF s
<1>3. Settled(s) = Len(s) /\ Len(s) \in 0..Settled(s) /\ Len(s) \in Nat
  BY <1>1, <1>2 DEF Settled
<1>4. In(s, Len(s)) => EnteredBelow(s, Len(s))
  BY <1>1, <1>3, InIsEntered
<1> QED
  BY <1>1, <1>3, <1>4 DEF s

-----------------------------------------------------------------------------
(* Actions                                                                 *)

LEMMA InitInv == QjsInit => QjsInv
<1> SUFFICES ASSUME QjsInit PROVE QjsInv
  OBVIOUS
<1>1. QjsTypeOK
  BY QjsAssumption DEF QjsInit, QjsTypeOK
<1>2. \A t \in QjsThreads : qjsFrames[t] = << >>
  BY DEF QjsInit
<1>3. Stacked(<< >>) /\ ~In(<< >>, Settled(<< >>))
  BY QjsAssumption DEF Stacked, In, Settled
<1>4. TickIsOne
  BY <1>2 DEF QjsInit, TickIsOne, UnderWay
<1>5. LockIsInside
  BY <1>2, <1>3, QjsAssumption DEF QjsInit, LockIsInside
<1> QED
  BY <1>1, <1>2, <1>3, <1>4, <1>5 DEF QjsInit, QjsInv, AfterDestruction, JobsHaveTick

(* A scope of the user.                                                    *)
LEMMA OpenInv ==
  ASSUME QjsInv, NEW t \in QjsThreads, NEW impl \in {"enter", "exit", "none"},
         MayPushFrame(t), PushFrame(t, impl, "no"), qjsMade' = qjsMade,
         impl = "enter" => ~Inside(t), impl # "enter" => Inside(t),
         qjs' \in QjsEngine, SameTick(qjs, qjs'), qjs'.scheduled = qjs.scheduled,
         qjs'.jobs = qjs.jobs, qjs'.destroyed = qjs.destroyed,
         qjs'.lock = t <=> impl # "exit",
         \A u \in QjsThreads \ {t} : qjs'.lock = u <=> qjs.lock = u
  PROVE  QjsInv'
<1> DEFINE s == qjsFrames[t]
           x == [impl |-> impl, tick |-> "no"]
<1>1. /\ s \in Seq(QjsFrame) /\ Len(s) \in Nat
      /\ Inside(t) => In(s, Len(s)) /\ EnteredBelow(s, Len(s))
      /\ ~Inside(t) => ~In(s, Len(s))
  BY UserIsSettled DEF MayPushFrame
<1>2. x \in QjsFrame /\ x.tick = "no" /\ x.impl = impl
  BY DEF QjsFrame
<1>3. FrameFits(Append(s, x), Len(s) + 1)
  <2> HIDE DEF x, s
  <2> QED
    BY <1>1, <1>2, PushFits
<1>4. InUserCode(t) /\ Len(s) < QjsDepth /\ ~qjs.destroyed
  BY DEF MayPushFrame
<1>5. PICK r \in Seq(QjsFrame) :
           /\ FramesBecome(t, r) /\ Stacked(r) /\ Len(r) = Len(s) + 1
           /\ r[Len(r)] = x
           /\ \A i \in 1..Len(s) : r[i] = s[i]
           /\ Settled(r) = Len(r)
           /\ In(r, Len(s)) <=> Inside(t)
  <2>1. Len(s) <= QjsDepth /\ (Len(s) = QjsDepth => "no" # "no")
    BY <1>1, <1>4, QjsAssumption
  <2> QED
    BY <1>3, <1>4, <2>1, PushesOne
<1> HIDE DEF x, s
<1>6. \A i \in 1..QjsDepth + 1 : UnderWay(r, i) <=> UnderWay(s, i)
  BY <1>1, <1>2, <1>5, PushUnderWay
<1>7. TickIsOne'
  BY <1>4, <1>5, <1>6, TickSame DEF s
<1>8. EnteredBelow(s, Len(s)) => EnteredBelow(r, Len(r))
  <2>1. Len(r) >= Len(s)
    BY <1>1, <1>5
  <2> QED
    BY <1>1, <1>5, <2>1, PushEntered
<1>9. qjs'.jobs > 0 /\ ~qjs'.scheduled =>
        \E u \in QjsThreads : EnteredBelow(qjsFrames'[u], Len(qjsFrames'[u]))
  BY <1>5, <1>8, JobsSame DEF s
<1>10. In(r, Settled(r)) <=> impl # "exit"
  BY <1>1, <1>2, <1>5 DEF In
<1>11. qjsMade' \in 0..QjsMaxJobs
  BY DEF QjsInv, QjsTypeOK
<1> QED
  BY <1>4, <1>5, <1>7, <1>9, <1>10, <1>11, StepInv

LEMMA EnterInv == ASSUME QjsInv, NEW t \in QjsThreads, EnterQjs(t) PROVE QjsInv'
<1>1. qjs \in QjsEngine /\ (qjs.lock = t <=> Inside(t)) /\ MayPushFrame(t) /\ qjsMade' = qjsMade
  BY FramesAreTyped DEF EnterQjs
<1>2. CASE Inside(t)
  <2>1. PushFrame(t, "none", "no") /\ qjs' = qjs
    BY <1>2 DEF EnterQjs
  <2> QED
    BY <1>1, <1>2, <2>1, OpenInv DEF SameTick
<1>3. CASE ~Inside(t)
  <2>1. PushFrame(t, "enter", "no") /\ qjs' = [qjs EXCEPT !.lock = t] /\ qjs.lock = NoThread
    BY <1>3 DEF EnterQjs
  <2>2. /\ qjs' \in QjsEngine /\ qjs'.lock = t /\ SameTick(qjs, qjs')
        /\ qjs'.scheduled = qjs.scheduled /\ qjs'.jobs = qjs.jobs /\ qjs'.destroyed = qjs.destroyed
    BY <1>1, <2>1 DEF QjsEngine, SameTick
  <2>3. \A u \in QjsThreads \ {t} : qjs'.lock = u <=> qjs.lock = u
    BY <2>1, <2>2, QjsAssumption
  <2> QED
    BY <1>1, <1>3, <2>1, <2>2, <2>3, OpenInv
<1> QED
  BY <1>2, <1>3

LEMMA ExitInv == ASSUME QjsInv, NEW t \in QjsThreads, ExitQjs(t) PROVE QjsInv'
<1>1. /\ qjs \in QjsEngine /\ qjs.lock = t /\ Inside(t) /\ MayPushFrame(t) /\ qjsMade' = qjsMade
      /\ qjs' = [qjs EXCEPT !.lock = NoThread] /\ PushFrame(t, "exit", "no")
  BY FramesAreTyped DEF ExitQjs
<1>2. /\ qjs' \in QjsEngine /\ qjs'.lock = NoThread /\ SameTick(qjs, qjs')
      /\ qjs'.scheduled = qjs.scheduled /\ qjs'.jobs = qjs.jobs /\ qjs'.destroyed = qjs.destroyed
  BY <1>1 DEF QjsEngine, SameTick
<1>3. NoThread # t /\ \A u \in QjsThreads \ {t} : qjs'.lock = u <=> qjs.lock = u
  BY <1>1, <1>2, QjsAssumption
<1> QED
  BY <1>1, <1>2, <1>3, OpenInv

(* The end of a scope, in any state of a tick that is no longer under way. *)
LEMMA LeaveInv == ASSUME QjsInv, NEW t \in QjsThreads, LeaveQjs(t) PROVE QjsInv'
<1> DEFINE s == qjsFrames[t]
           n == Len(s) - 1
           r == SubSeq(s, 1, n)
           q == qjs'
<1>1. /\ s \in Seq(QjsFrame) /\ Stacked(s) /\ (qjs.lock = t <=> In(s, Settled(s)))
      /\ qjs \in QjsEngine /\ (qjs.destroyed => s = << >>)
  BY FramesAreTyped
<1>2. s # << >> /\ s[Len(s)].tick \in {"no", "done"} /\ ScopeEnds(t, s[Len(s)])
  BY DEF LeaveQjs, HasTop, QjsTop
<1>3. FramesBecome(t, r) /\ qjsMade' \in 0..QjsMaxJobs
  BY DEF LeaveQjs, FramesBecome, QjsInv, QjsTypeOK
<1>4. /\ r \in Seq(QjsFrame) /\ Stacked(r) /\ Len(r) = n /\ \A i \in 1..n : r[i] = s[i]
      /\ Settled(r) = n /\ (In(r, n) <=> In(s, n)) /\ Settled(s) = Len(s)
  BY <1>1, <1>2, StackPop
<1>5. n \in Nat /\ Len(s) = n + 1
  BY <1>1, <1>2
<1> HIDE DEF n, r
<1>6. FrameFits(s, n + 1) /\ n + 1 - 1 = n /\ s[n + 1].tick \in {"no", "done"} /\ s[n + 1] \in QjsFrame
  BY <1>1, <1>2, <1>5 DEF Stacked
<1>7. \A i \in 1..QjsDepth + 1 : UnderWay(r, i) <=> UnderWay(s, i)
  <2>1. \A i : i \in 1..Len(s) <=> i \in 1..n \/ i = n + 1
    BY <1>5
  <2>2. \A i \in 1..n : i # n + 1
    BY <1>5
  <2> QED
    BY <1>4, <1>6, <2>1, <2>2 DEF UnderWay
<1>8. ~qjs.destroyed
  BY <1>1, <1>2
<1>9. s[n + 1].impl # "enter" => (EnteredBelow(s, Len(s)) => EnteredBelow(r, Len(r)))
  <2>1. \A i \in 1..Len(s) : i \in 1..n \/ i = n + 1
    BY <1>5
  <2> QED
    BY <1>4, <2>1 DEF EnteredBelow
<1>10. CASE s[n + 1].impl = "enter"
  <2> DEFINE d == triggerTick(qjs)
  <2>1. q = [d EXCEPT !.lock = NoThread]
    BY <1>2, <1>5, <1>10 DEF ScopeEnds
  <2>2. /\ d \in QjsEngine /\ SameTick(qjs, d) /\ d.jobs = qjs.jobs
        /\ d.destroyed = qjs.destroyed /\ (d.jobs > 0 => d.scheduled)
    BY <1>1, TriggerTriggers
  <2> HIDE DEF d, s
  <2>3. /\ q \in QjsEngine /\ q.lock = NoThread /\ q.scheduled = d.scheduled /\ q.posted = d.posted
        /\ q.jobs = d.jobs /\ q.destroyed = d.destroyed
    BY <2>1, <2>2 DEF QjsEngine
  <2>4. SameTick(qjs, qjs')
    BY <2>2, <2>3 DEF SameTick
  <2>5. TickIsOne'
    BY <1>3, <1>4, <1>7, <1>8, <2>4, TickSame DEF s
  <2>6. ~In(r, Settled(r)) /\ qjs.lock = t
    BY <1>1, <1>4, <1>5, <1>6, <1>10 DEF FrameFits, In
  <2>7. NoThread # t /\ \A u \in QjsThreads \ {t} : q.lock = u <=> qjs.lock = u
    BY <2>3, <2>6, QjsAssumption
  <2> QED
    BY <1>3, <1>4, <1>8, <2>2, <2>3, <2>5, <2>6, <2>7, StepInv
<1>11. CASE s[n + 1].impl = "exit"
  <2>1. qjs.lock = NoThread /\ q = [qjs EXCEPT !.lock = t]
    BY <1>2, <1>5, <1>11 DEF ScopeEnds
  <2>2. /\ q \in QjsEngine /\ q.lock = t /\ q.scheduled = qjs.scheduled /\ q.posted = qjs.posted
        /\ q.jobs = qjs.jobs /\ q.destroyed = qjs.destroyed /\ SameTick(qjs, qjs')
    BY <1>1, <2>1 DEF QjsEngine, SameTick
  <2>3. TickIsOne'
    BY <1>3, <1>4, <1>7, <1>8, <2>2, TickSame
  <2>4. In(r, Settled(r))
    BY <1>4, <1>6, <1>11 DEF FrameFits
  <2>5. \A u \in QjsThreads \ {t} : q.lock = u <=> qjs.lock = u
    BY <2>1, <2>2, QjsAssumption
  <2>6. q.jobs > 0 /\ ~q.scheduled =>
          \E u \in QjsThreads : EnteredBelow(qjsFrames'[u], Len(qjsFrames'[u]))
    BY <1>3, <1>4, <1>9, <1>11, <2>2, JobsSame
  <2> QED
    BY <1>3, <1>4, <1>8, <2>2, <2>3, <2>4, <2>5, <2>6, StepInv
<1>12. CASE s[n + 1].impl = "none"
  <2>1. q = qjs /\ SameTick(qjs, qjs')
    BY <1>2, <1>5, <1>12 DEF ScopeEnds, SameTick
  <2>2. TickIsOne'
    BY <1>3, <1>4, <1>7, <1>8, <2>1, TickSame
  <2>3. In(r, Settled(r)) /\ In(s, Settled(s))
    BY <1>4, <1>5, <1>6, <1>12 DEF FrameFits, In
  <2>4. q.jobs > 0 /\ ~q.scheduled =>
          \E u \in QjsThreads : EnteredBelow(qjsFrames'[u], Len(qjsFrames'[u]))
    BY <1>3, <1>4, <1>9, <1>12, <2>1, JobsSame
  <2> QED
    BY <1>1, <1>3, <1>4, <1>8, <2>1, <2>2, <2>3, <2>4, StepInv
<1> QED
  BY <1>6, <1>10, <1>11, <1>12 DEF QjsFrame

LEMMA ScriptInv ==
  ASSUME QjsInv, NEW t \in QjsThreads, NEW made \in 0..1, NEW throws \in BOOLEAN,
         RunScript(t, made, throws)
  PROVE  QjsInv'
<1> DEFINE s == qjsFrames[t]
           b == qjs.jobs + made
           after == [qjs EXCEPT !.jobs = b]
           d == triggerTick(after)
           q == qjs'
<1>1. /\ s \in Seq(QjsFrame) /\ Stacked(s) /\ qjs \in QjsEngine /\ qjs.lock = t
      /\ (qjs.lock = t <=> In(s, Settled(s)))
      /\ Settled(s) = Len(s) /\ Len(s) \in Nat /\ In(s, Len(s)) /\ EnteredBelow(s, Len(s))
  BY FramesAreTyped, UserIsSettled DEF RunScript
<1>2. ~qjs.destroyed
  <2>1. s # << >>
    BY <1>1 DEF In
  <2> QED
    BY <2>1, FramesAreTyped
<1>3. q = (IF throws THEN after ELSE d) /\ qjsMade' = qjsMade + made /\ qjsMade + made <= QjsMaxJobs
  BY DEF RunScript
<1>4. FramesBecome(t, s) /\ qjsFrames'[t] = s
  BY DEF RunScript, FramesBecome, QjsInv, QjsTypeOK
<1>5. qjsMade' \in 0..QjsMaxJobs
  BY <1>3 DEF QjsInv, QjsTypeOK
<1>6. b \in Nat
  BY <1>1 DEF QjsEngine
<1> HIDE DEF s, b
<1>7. /\ after \in QjsEngine /\ after.jobs = b /\ after.lock = qjs.lock
      /\ after.destroyed = qjs.destroyed
      /\ after.scheduled = qjs.scheduled /\ after.posted = qjs.posted
  BY <1>1, <1>6 DEF QjsEngine
<1> HIDE DEF after
<1>8. /\ q \in QjsEngine /\ q.lock = qjs.lock /\ q.destroyed = qjs.destroyed /\ SameTick(qjs, qjs')
  <2>1. /\ d \in QjsEngine /\ SameTick(after, d) /\ d.lock = after.lock
        /\ d.destroyed = after.destroyed
    BY <1>7, TriggerTriggers
  <2> HIDE DEF d
  <2> QED
    BY <1>3, <1>7, <2>1 DEF SameTick
<1>9. TickIsOne'
  <2>1. \A i \in 1..QjsDepth + 1 : UnderWay(s, i) <=> UnderWay(qjsFrames[t], i)
    BY DEF s
  <2> QED
    BY <1>1, <1>2, <1>4, <1>8, <2>1, TickSame
<1>10. \E u \in QjsThreads : EnteredBelow(qjsFrames'[u], Len(qjsFrames'[u]))
  BY <1>1, <1>4
<1> QED
  BY <1>1, <1>2, <1>4, <1>5, <1>8, <1>9, <1>10, StepInv

LEMMA TakeInv == ASSUME QjsInv, NEW t \in QjsThreads, TakeTick(t) PROVE QjsInv'
<1> DEFINE s == qjsFrames[t]
           x == [impl |-> "none", tick |-> "taken"]
           b == qjs.posted - 1
           q == qjs'
<1>1. /\ s \in Seq(QjsFrame) /\ Settled(s) = Len(s) /\ Len(s) \in Nat
      /\ (Inside(t) <=> In(s, Len(s))) /\ Stacked(s) /\ qjs \in QjsEngine
      /\ (qjs.lock = t <=> Inside(t)) /\ InUserCode(t)
  BY FramesAreTyped, UserIsSettled DEF TakeTick
<1>2. /\ qjs.posted > 0 /\ q = [qjs EXCEPT !.posted = b] /\ PushFrame(t, "none", "taken")
      /\ qjsMade' \in 0..QjsMaxJobs
  BY DEF TakeTick, QjsInv, QjsTypeOK
<1>3. ~qjs.destroyed /\ TickIsOne
  BY <1>2 DEF QjsInv, AfterDestruction
<1>4. /\ qjs.posted = 1 /\ b = 0 /\ qjs.scheduled = TRUE
      /\ \A u \in QjsThreads : \A i \in 1..QjsDepth + 1 : ~UnderWay(qjsFrames[u], i)
  BY <1>1, <1>2, <1>3 DEF TickIsOne, QjsEngine
<1> HIDE DEF b
<1>5. /\ q \in QjsEngine /\ q.posted = 0 /\ q.scheduled = TRUE /\ q.jobs = qjs.jobs
      /\ q.lock = qjs.lock /\ q.destroyed = qjs.destroyed
  BY <1>1, <1>2, <1>4 DEF QjsEngine
<1>6. Len(s) <= QjsDepth
  <2>1. CASE Len(s) = QjsDepth + 1
    <3>1. s # << >> /\ Len(s) \in 1..QjsDepth + 1 /\ Len(s) \in 1..Len(s)
      BY <1>1, <2>1, QjsAssumption
    <3>2. s[Len(s)].tick = "running"
      <4>1. s[Len(s)].tick # "no" /\ s[Len(s)] \in QjsFrame
        BY <1>1, <2>1, <3>1 DEF Stacked
      <4>2. s[Len(s)].tick \notin {"taken", "done"}
        BY <1>1, <3>1 DEF InUserCode, HasTop, QjsTop
      <4> QED
        BY <4>1, <4>2 DEF QjsFrame
    <3> QED
      BY <1>4, <3>1, <3>2 DEF UnderWay
  <2> QED
    BY <1>1, <2>1, QjsAssumption DEF Stacked
<1>7. x \in QjsFrame /\ x.tick = "taken" /\ x.impl = "none"
  BY DEF QjsFrame
<1>8. FrameFits(Append(s, x), Len(s) + 1)
  <2> HIDE DEF x, s
  <2> QED
    BY <1>1, <1>7, PushFits
<1>9. PICK r \in Seq(QjsFrame) :
           /\ FramesBecome(t, r) /\ Stacked(r) /\ Len(r) = Len(s) + 1
           /\ r[Len(r)] = x
           /\ \A i \in 1..Len(s) : r[i] = s[i]
           /\ Settled(r) = Len(s)
           /\ In(r, Len(s)) <=> Inside(t)
  BY <1>1, <1>2, <1>6, <1>8, PushesOne
<1> HIDE DEF x, s
<1>10. /\ qjsFrames'[t] = r
       /\ \A u \in QjsThreads \ {t} : qjsFrames'[u] = qjsFrames[u]
  BY <1>9 DEF QjsInv, QjsTypeOK, FramesBecome
<1>11. \A i \in 1..QjsDepth + 1 : UnderWay(r, i) <=> i = Len(r)
  <2>1. Len(r) \in 1..Len(r)
    BY <1>1, <1>9
  <2>2. \A i \in 1..Len(r) : i # Len(r) => i \in 1..Len(s)
    BY <1>1, <1>9
  <2>3. \A i \in 1..QjsDepth + 1 : i \in 1..Len(s) => s[i].tick \notin {"taken", "running"}
    BY <1>4 DEF UnderWay, s
  <2> QED
    BY <1>7, <1>9, <2>1, <2>2, <2>3 DEF UnderWay
<1>12. Len(r) \in 1..QjsDepth + 1
  BY <1>1, <1>6, <1>9, QjsAssumption
<1>13. TickIsOne'
  <2>1. \A u \in QjsThreads : \A i \in 1..QjsDepth + 1 :
          UnderWay(qjsFrames'[u], i) <=> u = t /\ i = Len(r)
    BY <1>4, <1>10, <1>11
  <2> QED
    BY <1>5, <1>12, <2>1 DEF TickIsOne
<1>14. In(r, Settled(r)) <=> q.lock = t
  BY <1>1, <1>5, <1>9
<1> QED
  BY <1>2, <1>3, <1>5, <1>9, <1>13, <1>14, StepInv

(* The tick on top goes on: it enters the engine, or its loop ends.        *)
LEMMA TopFits ==
  ASSUME NEW s \in Seq(QjsFrame), s # << >>, NEW x \in QjsFrame,
         x.tick \in {"running", "done"}, x.impl \in {"enter", "none"},
         x.impl = "enter" => ~In(s, Len(s) - 1),
         x.impl = "none" => In(s, Len(s) - 1) /\ EnteredBelow(s, Len(s) - 1),
         NEW r, r = [s EXCEPT ![Len(s)] = x]
  PROVE  FrameFits(r, Len(s))
<1> DEFINE n == Len(s)
           m == n - 1
<1>1. n \in Nat /\ n > 0 /\ n \in 1..Len(s) /\ m \in Nat /\ n = m + 1
  OBVIOUS
<1>2. r \in Seq(QjsFrame) /\ Len(r) = n /\ r[n] = x /\ \A i \in 1..m : r[i] = s[i]
  <2>1. r \in Seq(QjsFrame) /\ Len(r) = n /\ r[n] = x
    BY <1>1
  <2>2. \A i \in 1..n : i # n => r[i] = s[i]
    OBVIOUS
  <2> HIDE DEF n, m
  <2>3. \A i \in 1..m : i \in 1..n /\ i # n
    BY <1>1
  <2> QED
    BY <2>1, <2>2, <2>3
<1>3. (x.impl = "enter" => ~In(s, m)) /\ (x.impl = "none" => In(s, m) /\ EnteredBelow(s, m))
  OBVIOUS
<1> HIDE DEF n, m
<1>4. m > 0 => m \in 1..m
  BY <1>1
<1>5. (In(r, m) <=> In(s, m)) /\ (EnteredBelow(s, m) => EnteredBelow(r, m))
  BY <1>2, <1>4 DEF In, EnteredBelow
<1>6. n - 1 = m
  BY <1>1
<1>7. FrameFits(r, n)
  BY <1>2, <1>3, <1>5, <1>6 DEF FrameFits
<1> QED
  BY <1>7 DEF n

LEMMA StackRuns ==
  ASSUME NEW s \in Seq(QjsFrame), Stacked(s), s # << >>, NEW x \in QjsFrame,
         x.tick \in {"running", "done"}, x.impl \in {"enter", "none"},
         x.impl = "enter" => ~In(s, Len(s) - 1),
         x.impl = "none" => In(s, Len(s) - 1) /\ EnteredBelow(s, Len(s) - 1)
  PROVE  LET r == [s EXCEPT ![Len(s)] = x]
         IN  /\ r \in Seq(QjsFrame) /\ Stacked(r) /\ Len(r) = Len(s) /\ r[Len(s)] = x
             /\ \A i \in 1..Len(s) - 1 : r[i] = s[i]
             /\ Settled(r) = Len(s)
<1> DEFINE r == [s EXCEPT ![Len(s)] = x]
           n == Len(s)
<1>1. FrameFits(r, n)
  BY TopFits
<1>2. x.tick # "no" /\ x.tick # "taken"
  OBVIOUS
<1>3. n \in Nat /\ n > 0 /\ n \in 1..Len(s)
  OBVIOUS
<1>4. r \in Seq(QjsFrame) /\ Len(r) = n /\ r[n] = x /\ \A i \in 1..n - 1 : r[i] = s[i]
  BY <1>3
<1> HIDE DEF r
<1>5. ASSUME NEW i \in 1..n - 1 PROVE FrameFits(r, i)
  <2>1. i \in 1..Len(s) /\ i # Len(s) /\ i <= Len(r) /\ \A j \in 1..i : r[j] = s[j]
    BY <1>3, <1>4
  <2>2. FrameFits(s, i) /\ s[i].tick \notin {"taken", "done"}
    BY <2>1 DEF Stacked, FrameFits
  <2> QED
    BY <1>4, <2>1, <2>2, FitsBelow
<1>6. \A i \in 1..n : i \in 1..n - 1 \/ i = n
  BY <1>3
<1>7. Stacked(r)
  BY <1>1, <1>2, <1>4, <1>5, <1>6 DEF Stacked
<1>8. Settled(r) = n
  BY <1>2, <1>3, <1>4 DEF Settled
<1>9. /\ r \in Seq(QjsFrame) /\ Stacked(r) /\ Len(r) = n /\ r[n] = x
      /\ \A i \in 1..n - 1 : r[i] = s[i]
      /\ Settled(r) = n
  BY <1>4, <1>7, <1>8
<1> QED
  BY <1>9 DEF r

LEMMA EnterTickInv == ASSUME QjsInv, NEW t \in QjsThreads, EnterTick(t) PROVE QjsInv'
<1> DEFINE s == qjsFrames[t]
           n == Len(s)
           m == n - 1
           x == [impl |-> IF Inside(t) THEN "none" ELSE "enter", tick |-> "running"]
           r == [s EXCEPT ![Len(s)] = x]
           q == qjs'
<1>1. /\ s \in Seq(QjsFrame) /\ Stacked(s) /\ qjs \in QjsEngine
      /\ (qjs.lock = t <=> Inside(t)) /\ (Inside(t) <=> In(s, Settled(s)))
      /\ (qjs.destroyed => s = << >>) /\ n <= QjsDepth + 1
  BY FramesAreTyped
<1>2. s # << >> /\ s[n].tick = "taken"
  BY DEF EnterTick, HasTop, QjsTop
<1>3. FramesBecome(t, r) /\ qjsMade' \in 0..QjsMaxJobs
  BY DEF EnterTick, FramesBecome, QjsInv, QjsTypeOK
<1>4. /\ x \in QjsFrame /\ x.tick = "running" /\ x.impl \in {"enter", "none"}
      /\ (x.impl = "none" <=> Inside(t)) /\ (x.impl = "enter" <=> ~Inside(t))
  BY DEF QjsFrame
<1>5. IF Inside(t) THEN q = qjs ELSE qjs.lock = NoThread /\ q = [qjs EXCEPT !.lock = t]
  BY DEF EnterTick
<1>6. r = [s EXCEPT ![n] = x] /\ n = Len(s)
  OBVIOUS
<1>7. n \in Nat /\ n > 0
  BY <1>1, <1>2
<1> HIDE DEF s, n, x, r
<1>8. Settled(s) = m /\ m \in 0..Settled(s) /\ m \in Nat /\ n = m + 1
  BY <1>1, <1>2, <1>6, <1>7 DEF Settled
<1> HIDE DEF m
<1>9. In(s, m) => EnteredBelow(s, m)
  BY <1>1, <1>8, InIsEntered
<1>10. Len(s) - 1 = m
  BY <1>6, <1>7, <1>8
<1>11. r = [s EXCEPT ![Len(s)] = x]
  BY <1>6
<1>12. /\ r \in Seq(QjsFrame) /\ Stacked(r) /\ Len(r) = n /\ r[n] = x
       /\ \A i \in 1..m : r[i] = s[i]
       /\ Settled(r) = n
  <2>1. x.impl = "enter" => ~In(s, Len(s) - 1)
    BY <1>1, <1>4, <1>8, <1>10
  <2>2. x.impl = "none" => In(s, Len(s) - 1) /\ EnteredBelow(s, Len(s) - 1)
    BY <1>1, <1>4, <1>8, <1>9, <1>10
  <2>3. x.tick \in {"running", "done"}
    BY <1>4
  <2>4. /\ r \in Seq(QjsFrame) /\ Stacked(r) /\ Len(r) = Len(s) /\ r[Len(s)] = x
        /\ \A i \in 1..Len(s) - 1 : r[i] = s[i]
        /\ Settled(r) = Len(s)
    BY <1>1, <1>2, <1>4, <1>11, <2>1, <2>2, <2>3, StackRuns
  <2> QED
    BY <1>6, <1>10, <2>4
<1>13. \A i \in 1..QjsDepth + 1 : UnderWay(r, i) <=> UnderWay(s, i)
  <2>1. \A i \in 1..n : i \in 1..m \/ i = n
    BY <1>8
  <2> QED
    BY <1>2, <1>4, <1>6, <1>12, <2>1 DEF UnderWay
<1>14. ~qjs.destroyed
  BY <1>1, <1>2
<1>15. /\ q \in QjsEngine /\ q.lock = t /\ q.scheduled = qjs.scheduled /\ q.posted = qjs.posted
       /\ q.jobs = qjs.jobs /\ q.destroyed = qjs.destroyed /\ SameTick(qjs, qjs')
  <2>1. CASE Inside(t)
    BY <1>1, <1>5, <2>1 DEF SameTick
  <2>2. CASE ~Inside(t)
    <3>1. q = [qjs EXCEPT !.lock = t]
      BY <1>5, <2>2
    <3> QED
      BY <1>1, <3>1 DEF QjsEngine, SameTick
  <2> QED
    BY <2>1, <2>2
<1>16. TickIsOne'
  BY <1>3, <1>12, <1>13, <1>14, <1>15, TickSame DEF s
<1>17. \A u \in QjsThreads \ {t} : q.lock = u <=> qjs.lock = u
  BY <1>1, <1>5, <1>15, QjsAssumption
<1>18. EnteredBelow(s, Len(s)) => EnteredBelow(r, Len(r))
  <2> SUFFICES ASSUME EnteredBelow(s, Len(s)) PROVE EnteredBelow(r, Len(r))
    OBVIOUS
  <2>1. PICK i \in 1..n : s[i].impl = "enter"
    BY <1>6 DEF EnteredBelow
  <2>2. s[n].impl = "none"
    BY <1>1, <1>2, <1>6, <1>7 DEF Stacked, FrameFits
  <2>3. i # n
    BY <2>1, <2>2
  <2>4. i \in 1..m
    BY <1>8, <2>3
  <2> QED
    BY <1>12, <2>1, <2>4 DEF EnteredBelow
<1>19. q.jobs > 0 /\ ~q.scheduled =>
         \E u \in QjsThreads : EnteredBelow(qjsFrames'[u], Len(qjsFrames'[u]))
  BY <1>3, <1>12, <1>15, <1>18, JobsSame DEF s
<1>20. In(r, Settled(r))
  BY <1>4, <1>7, <1>12 DEF In
<1> QED
  BY <1>3, <1>12, <1>14, <1>15, <1>16, <1>17, <1>19, <1>20, StepInv

LEMMA TickEndsInv ==
  ASSUME QjsInv, NEW t \in QjsThreads, HasTop(t, "running"), TickEnds(t), qjsMade' = qjsMade,
         NEW q, q = qjs', q \in QjsEngine, ~q.scheduled, q.posted = qjs.posted, q.lock = qjs.lock,
         q.destroyed = qjs.destroyed
  PROVE  QjsInv'
<1> DEFINE s == qjsFrames[t]
           n == Len(s)
           m == n - 1
           impl == s[n].impl
           x == [impl |-> impl, tick |-> "done"]
           r == [s EXCEPT ![Len(s)] = x]
<1>1. /\ s \in Seq(QjsFrame) /\ Stacked(s) /\ qjs \in QjsEngine
      /\ (qjs.lock = t <=> In(s, Settled(s)))
      /\ (qjs.destroyed => s = << >>) /\ n <= QjsDepth + 1
  BY FramesAreTyped
<1>2. s # << >> /\ s[n].tick = "running"
  BY DEF HasTop, QjsTop
<1>3. n \in Nat /\ n > 0 /\ s[n] \in QjsFrame
  BY <1>1, <1>2
<1>4. FramesBecome(t, r)
  <2>1. [s[n] EXCEPT !.tick = "done"] = x
    BY <1>3 DEF QjsFrame
  <2>2. qjsFrames' = [qjsFrames EXCEPT ![t] = [s EXCEPT ![n] = [s[n] EXCEPT !.tick = "done"]]]
    BY DEF TickEnds
  <2> QED
    BY <2>1, <2>2 DEF FramesBecome
<1>5. x \in QjsFrame /\ x.tick = "done" /\ x.impl = impl
  BY <1>3 DEF QjsFrame
<1>6. r = [s EXCEPT ![n] = x] /\ n = Len(s) /\ impl = s[n].impl
  OBVIOUS
<1> HIDE DEF s, n, x, r, impl
<1>7. m \in Nat /\ n = m + 1
  BY <1>3
<1>8. Settled(s) = n /\ Len(s) - 1 = m /\ n \in 1..Len(s)
  BY <1>2, <1>3, <1>6 DEF Settled
<1> HIDE DEF m
<1>9. /\ impl \in {"enter", "none"} /\ (impl = "enter" => ~In(s, m))
      /\ (impl = "none" => In(s, m) /\ EnteredBelow(s, m))
  <2>1. FrameFits(s, n)
    BY <1>1, <1>8 DEF Stacked
  <2>2. impl \in {"enter", "none"}
    BY <1>2, <1>3, <1>6, <2>1 DEF FrameFits, QjsFrame
  <2>3. n - 1 = m
    BY <1>3, <1>7
  <2> QED
    BY <1>2, <1>6, <2>1, <2>2, <2>3 DEF FrameFits
<1>10. r = [s EXCEPT ![Len(s)] = x]
  BY <1>6
<1>11. /\ r \in Seq(QjsFrame) /\ Stacked(r) /\ Len(r) = n /\ r[n] = x
       /\ \A i \in 1..m : r[i] = s[i]
       /\ Settled(r) = n
  <2>1. x.tick \in {"running", "done"} /\ x.impl \in {"enter", "none"}
    BY <1>5, <1>9
  <2>2. /\ x.impl = "enter" => ~In(s, Len(s) - 1)
        /\ x.impl = "none" => In(s, Len(s) - 1) /\ EnteredBelow(s, Len(s) - 1)
    BY <1>5, <1>8, <1>9
  <2>3. /\ r \in Seq(QjsFrame) /\ Stacked(r) /\ Len(r) = Len(s) /\ r[Len(s)] = x
        /\ \A i \in 1..Len(s) - 1 : r[i] = s[i]
        /\ Settled(r) = Len(s)
    BY ZenonT(30), <1>1, <1>2, <1>5, <1>10, <2>1, <2>2, StackRuns
  <2> QED
    BY <1>6, <1>8, <2>3
<1>12. ~qjs.destroyed /\ TickIsOne
  BY <1>1, <1>2 DEF QjsInv
<1>13. /\ qjsFrames'[t] = r
       /\ \A u \in QjsThreads \ {t} : qjsFrames'[u] = qjsFrames[u]
  BY <1>4 DEF QjsInv, QjsTypeOK, FramesBecome
<1>14. n \in 1..QjsDepth + 1 /\ UnderWay(s, n)
  BY <1>1, <1>2, <1>3, <1>8, QjsAssumption DEF UnderWay
<1>15. /\ qjs.posted = 0
       /\ \A u \in QjsThreads : \A i \in 1..QjsDepth + 1 :
            UnderWay(qjsFrames[u], i) => u = t /\ i = n
  BY <1>12, <1>14 DEF TickIsOne, s
<1>16. \A u \in QjsThreads : \A i \in 1..QjsDepth + 1 : ~UnderWay(qjsFrames'[u], i)
  <2>1. \A i \in 1..n : i \in 1..m \/ i = n
    BY <1>7
  <2>2. \A i \in 1..m : i \in 1..Len(s) /\ i # n
    BY <1>3, <1>7, <1>6
  <2>3. \A i \in 1..QjsDepth + 1 : UnderWay(s, i) => i = n
    BY <1>15 DEF s
  <2>4. \A i \in 1..QjsDepth + 1 : ~UnderWay(r, i)
    BY <1>5, <1>11, <2>1, <2>2, <2>3 DEF UnderWay
  <2> QED
    BY <1>13, <1>15, <2>4
<1>17. TickIsOne'
  BY <1>15, <1>16 DEF TickIsOne
<1>18. EnteredBelow(r, Len(r))
  <2>1. CASE impl = "enter"
    <3>1. n \in 1..n
      BY <1>3
    <3> QED
      BY <1>5, <1>11, <2>1, <3>1 DEF EnteredBelow
  <2>2. CASE impl = "none"
    <3>1. \A i \in 1..m : i \in 1..n
      BY <1>7
    <3> QED
      BY <1>9, <1>11, <2>2, <3>1 DEF EnteredBelow
  <2> QED
    BY <1>9, <2>1, <2>2
<1>19. In(r, Settled(r)) <=> In(s, Settled(s))
  BY <1>5, <1>6, <1>8, <1>11 DEF In
<1>20. qjsMade' \in 0..QjsMaxJobs
  BY DEF QjsInv, QjsTypeOK
<1> QED
  BY <1>1, <1>4, <1>11, <1>12, <1>13, <1>17, <1>18, <1>19, <1>20, StepInv

LEMMA JobInv ==
  ASSUME QjsInv, NEW t \in QjsThreads, NEW throws \in BOOLEAN, ExecuteJob(t, throws)
  PROVE  QjsInv'
<1> DEFINE b == qjs.jobs - 1
           sch == qjs.scheduled /\ ~throws
           s == qjsFrames[t]
           q == qjs'
<1>1. /\ qjs \in QjsEngine /\ s \in Seq(QjsFrame) /\ Stacked(s)
      /\ (qjs.lock = t <=> In(s, Settled(s))) /\ (qjs.destroyed => s = << >>)
  BY FramesAreTyped
<1>2. /\ HasTop(t, "running") /\ qjs.jobs > 0 /\ qjsMade' = qjsMade
      /\ q = [qjs EXCEPT !.jobs = b, !.scheduled = sch]
      /\ IF throws THEN TickEnds(t) ELSE qjsFrames' = qjsFrames
  BY DEF ExecuteJob
<1>3. b \in Nat /\ sch \in BOOLEAN /\ (throws => ~sch) /\ (~throws => sch = qjs.scheduled)
  BY <1>1, <1>2 DEF QjsEngine
<1> HIDE DEF b, sch
<1>4. /\ q \in QjsEngine /\ q.jobs = b /\ q.scheduled = sch /\ q.posted = qjs.posted
      /\ q.lock = qjs.lock /\ q.destroyed = qjs.destroyed
  BY <1>1, <1>2, <1>3 DEF QjsEngine
<1>5. CASE throws
  BY <1>2, <1>3, <1>4, <1>5, TickEndsInv
<1>6. CASE ~throws
  <2>1. FramesBecome(t, s) /\ qjsFrames'[t] = s
    BY <1>2, <1>6 DEF FramesBecome, QjsInv, QjsTypeOK
  <2>2. ~qjs.destroyed
    BY <1>1, <1>2 DEF HasTop
  <2>3. SameTick(qjs, qjs')
    BY <1>3, <1>4, <1>6 DEF SameTick
  <2>4. TickIsOne'
    <3>1. \A i \in 1..QjsDepth + 1 : UnderWay(s, i) <=> UnderWay(qjsFrames[t], i)
      OBVIOUS
    <3> QED
      BY <1>1, <2>1, <2>2, <2>3, <3>1, TickSame
  <2>5. qjs.jobs > 0 /\ ~qjs.scheduled =>
          \E u \in QjsThreads : EnteredBelow(qjsFrames[u], Len(qjsFrames[u]))
    BY DEF QjsInv, JobsHaveTick, EnteredBelow
  <2>6. q.jobs > 0 /\ ~q.scheduled =>
          \E u \in QjsThreads : EnteredBelow(qjsFrames'[u], Len(qjsFrames'[u]))
    BY <1>2, <1>3, <1>4, <1>6, <2>5
  <2>7. qjsMade' \in 0..QjsMaxJobs
    BY <1>2 DEF QjsInv, QjsTypeOK
  <2> QED
    BY <1>1, <1>4, <2>1, <2>2, <2>4, <2>6, <2>7, StepInv
<1> QED
  BY <1>5, <1>6

LEMMA EndTickInv == ASSUME QjsInv, NEW t \in QjsThreads, EndTick(t) PROVE QjsInv'
<1> DEFINE q == qjs'
<1>1. qjs \in QjsEngine
  BY FramesAreTyped
<1>2. /\ HasTop(t, "running") /\ TickEnds(t) /\ qjsMade' = qjsMade
      /\ q = [qjs EXCEPT !.scheduled = FALSE]
  BY DEF EndTick
<1>3. /\ q \in QjsEngine /\ q.scheduled = FALSE /\ q.posted = qjs.posted
      /\ q.lock = qjs.lock /\ q.destroyed = qjs.destroyed
  BY <1>1, <1>2 DEF QjsEngine
<1> QED
  BY <1>2, <1>3, TickEndsInv

LEMMA DestroyInv == ASSUME QjsInv, DestroyQjs PROVE QjsInv'
<1> DEFINE q == qjs'
<1>1. /\ qjs \in QjsEngine /\ q = [qjs EXCEPT !.destroyed = TRUE, !.posted = 0, !.jobs = 0]
      /\ qjsMade' = qjsMade /\ qjsFrames' = qjsFrames
      /\ \A t \in QjsThreads : qjsFrames[t] = << >>
  BY DEF DestroyQjs, QjsInv, QjsTypeOK, QjsEngine
<1>2. /\ q \in QjsEngine /\ q.destroyed = TRUE /\ q.posted = 0 /\ q.jobs = 0 /\ q.lock = qjs.lock
  BY <1>1 DEF QjsEngine
<1>3. QjsTypeOK'
  BY <1>1, <1>2 DEF QjsInv, QjsTypeOK, QjsEngine
<1>4. AfterDestruction' /\ JobsHaveTick'
  BY <1>1, <1>2 DEF AfterDestruction, JobsHaveTick
<1>5. LockIsInside'
  BY <1>1, <1>2 DEF QjsInv, LockIsInside
<1> QED
  BY <1>1, <1>2, <1>3, <1>4, <1>5 DEF QjsInv

LEMMA NextInv == ASSUME QjsInv, [QjsNext]_qjsVars PROVE QjsInv'
<1>1. CASE QjsNext
  <2>1. CASE DestroyQjs
    BY <2>1, DestroyInv
  <2>2. ASSUME NEW t \in QjsThreads,
               \/ EnterQjs(t) \/ ExitQjs(t) \/ LeaveQjs(t)
               \/ \E made \in 0..1, throws \in BOOLEAN : RunScript(t, made, throws)
               \/ TakeTick(t)
               \/ RunTick(t)
        PROVE  QjsInv'
    <3>1. CASE EnterQjs(t)
      BY <3>1, EnterInv
    <3>2. CASE ExitQjs(t)
      BY <3>2, ExitInv
    <3>3. CASE LeaveQjs(t)
      BY <3>3, LeaveInv
    <3>4. CASE \E made \in 0..1, throws \in BOOLEAN : RunScript(t, made, throws)
      BY <3>4, ScriptInv
    <3>5. CASE TakeTick(t)
      BY <3>5, TakeInv
    <3>6. CASE RunTick(t)
      <4>1. CASE EnterTick(t)
        BY <4>1, EnterTickInv
      <4>2. CASE \E throws \in BOOLEAN : ExecuteJob(t, throws)
        BY <4>2, JobInv
      <4>3. CASE EndTick(t)
        BY <4>3, EndTickInv
      <4> QED
        BY <3>3, <3>6, <4>1, <4>2, <4>3, LeaveInv DEF RunTick
    <3> QED
      BY <2>2, <3>1, <3>2, <3>3, <3>4, <3>5, <3>6
  <2> QED
    BY <1>1, <2>1, <2>2 DEF QjsNext
<1>2. CASE UNCHANGED qjsVars
  <2>1. qjs' = qjs /\ qjsMade' = qjsMade /\ qjsFrames' = qjsFrames
    BY <1>2 DEF qjsVars
  <2>2. QjsTypeOK' /\ \A t \in QjsThreads : Stacked(qjsFrames'[t])
    BY <2>1 DEF QjsInv, QjsTypeOK
  <2>3. (~qjs.destroyed => TickIsOne)'
    BY <2>1 DEF QjsInv, TickIsOne
  <2>4. AfterDestruction' /\ JobsHaveTick' /\ LockIsInside'
    BY <2>1 DEF QjsInv, AfterDestruction, JobsHaveTick, LockIsInside
  <2> QED
    BY <2>2, <2>3, <2>4 DEF QjsInv
<1> QED
  BY <1>1, <1>2

-----------------------------------------------------------------------------
(* Theorems                                                                *)

LEMMA TicksAreCounted == ASSUME QjsInv PROVE OneTick
<1> SUFFICES ASSUME ~qjs.destroyed PROVE qjs.posted + TicksUnderWay = IF qjs.scheduled THEN 1 ELSE 0
  BY DEF OneTick
<1> DEFINE At == QjsThreads \X (1..QjsDepth + 1)
           U == {at \in At : /\ at[2] <= Len(qjsFrames[at[1]])
                             /\ qjsFrames[at[1]][at[2]].tick \in {"taken", "running"}}
<1>1. TicksUnderWay = Cardinality(U)
  BY DEF TicksUnderWay
<1>2. TickIsOne /\ qjs.scheduled \in BOOLEAN /\ qjs.posted \in Nat
  BY DEF QjsInv, QjsTypeOK
<1>3. \A at \in At : at[1] \in QjsThreads /\ at[2] \in 1..QjsDepth + 1 /\ at = <<at[1], at[2]>>
  OBVIOUS
<1>4. \A at \in At : at \in U <=> UnderWay(qjsFrames[at[1]], at[2])
  <2> TAKE at \in At
  <2>1. at[2] \in 1..QjsDepth + 1 /\ Len(qjsFrames[at[1]]) \in Nat
    BY <1>3, FramesAreTyped
  <2>2. at[2] <= Len(qjsFrames[at[1]]) <=> at[2] \in 1..Len(qjsFrames[at[1]])
    BY <2>1, QjsAssumption
  <2> QED
    BY <2>2 DEF UnderWay
<1>5. U \subseteq At
  OBVIOUS
<1> HIDE DEF U
<1>6. CASE \E t \in QjsThreads : \E i \in 1..QjsDepth + 1 : UnderWay(qjsFrames[t], i)
  <2>1. PICK t \in QjsThreads, i \in 1..QjsDepth + 1 : UnderWay(qjsFrames[t], i)
    BY <1>6
  <2>2. <<t, i>> \in At /\ <<t, i>> \in U
    BY <1>4, <2>1
  <2>3. \A at \in U : at = <<t, i>>
    BY <1>2, <1>3, <1>4, <1>5, <2>1 DEF TickIsOne
  <2>4. U = {<<t, i>>}
    BY <2>2, <2>3
  <2>5. Cardinality(U) = 1
    BY <2>4, FS_Singleton
  <2>6. qjs.scheduled /\ qjs.posted = 0
    BY <1>2, <2>1 DEF TickIsOne
  <2> QED
    BY <1>1, <2>5, <2>6
<1>7. CASE ~\E t \in QjsThreads : \E i \in 1..QjsDepth + 1 : UnderWay(qjsFrames[t], i)
  <2>1. U = {}
    BY <1>3, <1>4, <1>5, <1>7
  <2>2. Cardinality(U) = 0
    BY <2>1, FS_EmptySet
  <2>3. qjs.posted = IF qjs.scheduled THEN 1 ELSE 0
    BY <1>2, <1>7 DEF TickIsOne
  <2> QED
    BY <1>1, <1>2, <2>2, <2>3
<1> QED
  BY <1>6, <1>7

(* The flag and the message of the tick are one, jobs that have no tick    *)
(* are those of a scope whose end will trigger it, and who is inside the   *)
(* engine has its lock.                                                    *)
THEOREM TicksAreAlwaysDue == QjsSpec => []TicksAreDue
<1>1. QjsInv => TicksAreDue
  <2> SUFFICES ASSUME QjsInv PROVE TicksAreDue
    OBVIOUS
  <2>1. InsideHoldsLock
    BY FramesAreTyped DEF InsideHoldsLock
  <2> QED
    BY <2>1, TicksAreCounted DEF TicksAreDue, QjsInv
<1>2. QjsSpec => []QjsInv
  <2>1. QjsInit => QjsInv
    BY InitInv
  <2>2. QjsInv /\ [QjsNext]_qjsVars => QjsInv'
    BY NextInv
  <2> QED
    BY <2>1, <2>2, PTL DEF QjsSpec
<1> QED
  BY <1>1, <1>2, PTL

(* The state has its type.                                                 *)
THEOREM QjsIsTyped == QjsSpec => []QjsTypeOK
<1>1. QjsInit => QjsInv
  BY InitInv
<1>2. QjsInv /\ [QjsNext]_qjsVars => QjsInv'
  BY NextInv
<1>3. QjsInv => QjsTypeOK
  BY DEF QjsInv
<1> QED
  BY <1>1, <1>2, <1>3, PTL DEF QjsSpec

-----------------------------------------------------------------------------
(* V8. The platform, for any engines and worker threads.                   *)

PlatformSpec == PlatformInit /\ [][PlatformNext]_platformVars

(* An engine owns the platform from its first step to its last, and its    *)
(* isolate is made and disposed of in between.                             *)
IsolatesHaveOwners ==
  /\ \A e \in Engines : engineState[e] \notin {"none", "gone"} => e \in owners
  /\ \A e \in isolates : engineState[e] \in {"isolate", "running", "destroying", "drained"}

OwnedIsInitialized == owners # {} => v8 = "initialized"

TasksLeftAreLate == \A t \in tasks : HasLeftQueue(t.engine) => t.late

PostersLeftAreLate ==
  \A w \in V8Workers :
    poster[w].pc # "idle" =>
      poster[w].engine \in Engines /\ (HasLeftQueue(poster[w].engine) => poster[w].late)

PlatformInv ==
  /\ PlatformTypeOK
  /\ IsolatesHaveOwners /\ OwnedIsInitialized
  /\ TasksLeftAreLate /\ PostersLeftAreLate

LEMMA PlatformInitEstablishes == PlatformInit => PlatformInv
<1>. SUFFICES ASSUME PlatformInit PROVE PlatformInv
  OBVIOUS
<1>. USE DEF PlatformInit
<1>1. IdlePoster \in Poster
  BY DEF IdlePoster, Poster
<1>2. PlatformTypeOK
  BY <1>1 DEF PlatformTypeOK
<1>3. PostersLeftAreLate
  BY DEF PostersLeftAreLate, IdlePoster
<1>. QED
  BY <1>2, <1>3
  DEF PlatformInv, IsolatesHaveOwners, OwnedIsInitialized, TasksLeftAreLate

LEMMA TypeKept == PlatformInv /\ [PlatformNext]_platformVars => PlatformTypeOK'
<1>. SUFFICES ASSUME PlatformTypeOK, PostersLeftAreLate, [PlatformNext]_platformVars
              PROVE  PlatformTypeOK'
  BY DEF PlatformInv
<1>. USE DEF PlatformTypeOK
<1>1. CASE UNCHANGED platformVars
  BY <1>1 DEF platformVars
<1>2. ASSUME NEW e \in Engines, getPlatform(e) PROVE PlatformTypeOK'
  BY <1>2 DEF getPlatform, Step
<1>3. ASSUME NEW e \in Engines, NewIsolate(e) PROVE PlatformTypeOK'
  BY <1>3 DEF NewIsolate, GetForegroundTaskRunner, Step
<1>4. ASSUME NEW e \in Engines, addEngineInstance(e) PROVE PlatformTypeOK'
  BY <1>4 DEF addEngineInstance, Step
<1>5. ASSUME NEW e \in Engines, StartDestroy(e) PROVE PlatformTypeOK'
  BY <1>5 DEF StartDestroy, Step
<1>6. ASSUME NEW e \in Engines, Drain(e) PROVE PlatformTypeOK'
  BY <1>6 DEF Drain, Step, Poster
<1>7. ASSUME NEW e \in Engines, DisposeIsolate(e) PROVE PlatformTypeOK'
  BY <1>7 DEF DisposeIsolate, Step
<1>8. ASSUME NEW e \in Engines, removeEngineInstance(e) PROVE PlatformTypeOK'
  BY <1>8 DEF removeEngineInstance, Step
<1>9. ASSUME NEW e \in Engines, DeleteEngine(e) PROVE PlatformTypeOK'
  BY <1>9 DEF DeleteEngine, ReleasePlatform, Step
<1>10. ASSUME NEW w \in V8Workers, NEW e \in Engines, CheckDestroying(w, e)
       PROVE  PlatformTypeOK'
  BY <1>10 DEF CheckDestroying, Checked, Poster
<1>11. ASSUME NEW w \in V8Workers, TakeQueue(w) PROVE PlatformTypeOK'
  BY <1>11 DEF TakeQueue, Poster, HasLeftQueue
<1>12. ASSUME NEW w \in V8Workers, PostTask(w) PROVE PlatformTypeOK'
  BY <1>12 DEF PostTask, Poster, IdlePoster, Task, PostersLeftAreLate
<1>13. ASSUME NEW t \in Task, RunTask(t) PROVE PlatformTypeOK'
  BY <1>13 DEF RunTask
<1>14. CASE neverDestroyPlatform
  BY <1>14 DEF neverDestroyPlatform
<1>15. CASE immediatelyDestroyPlatform
  BY <1>15 DEF immediatelyDestroyPlatform, ReleasePlatform
<1>. QED
  BY <1>1, <1>2, <1>3, <1>4, <1>5, <1>6, <1>7, <1>8, <1>9, <1>10, <1>11, <1>12, <1>13, <1>14,
     <1>15
  DEF PlatformNext

(* The other parts of the invariant, action by action.                     *)
OthersKept == IsolatesHaveOwners' /\ OwnedIsInitialized' /\ TasksLeftAreLate' /\ PostersLeftAreLate'

LEMMA OthersKeptByStep == PlatformInv /\ [PlatformNext]_platformVars => OthersKept
<1>. SUFFICES ASSUME PlatformInv, [PlatformNext]_platformVars PROVE OthersKept
  OBVIOUS
<1>. USE DEF PlatformInv, PlatformTypeOK, OthersKept, IsolatesHaveOwners, OwnedIsInitialized,
             TasksLeftAreLate, PostersLeftAreLate, HasLeftQueue
<1>1. CASE UNCHANGED platformVars
  BY <1>1 DEF platformVars
<1>2. ASSUME NEW e \in Engines, getPlatform(e) PROVE OthersKept
  <2>1. IsolatesHaveOwners' /\ OwnedIsInitialized'
    BY <1>2 DEF getPlatform, Step, Task
  <2>2. TasksLeftAreLate'
    BY <1>2 DEF getPlatform, Step, Task
  <2>3. PostersLeftAreLate'
    BY <1>2 DEF getPlatform, Step, Task
  <2>. QED
    BY <2>1, <2>2, <2>3
<1>3. ASSUME NEW e \in Engines, NewIsolate(e) PROVE OthersKept
  <2>1. IsolatesHaveOwners' /\ OwnedIsInitialized'
    BY <1>3 DEF NewIsolate, Step, Task
  <2>2. TasksLeftAreLate'
    BY <1>3 DEF NewIsolate, Step, Task
  <2>3. PostersLeftAreLate'
    BY <1>3 DEF NewIsolate, Step, Task
  <2>. QED
    BY <2>1, <2>2, <2>3
<1>4. ASSUME NEW e \in Engines, addEngineInstance(e) PROVE OthersKept
  <2>1. IsolatesHaveOwners' /\ OwnedIsInitialized'
    BY <1>4 DEF addEngineInstance, Step, Task
  <2>2. TasksLeftAreLate'
    BY <1>4 DEF addEngineInstance, Step, Task
  <2>3. PostersLeftAreLate'
    BY <1>4 DEF addEngineInstance, Step, Task
  <2>. QED
    BY <2>1, <2>2, <2>3
<1>5. ASSUME NEW e \in Engines, StartDestroy(e) PROVE OthersKept
  <2>1. IsolatesHaveOwners' /\ OwnedIsInitialized'
    BY <1>5 DEF StartDestroy, Step, Task
  <2>2. TasksLeftAreLate'
    BY <1>5 DEF StartDestroy, Step, Task
  <2>3. PostersLeftAreLate'
    BY <1>5 DEF StartDestroy, Step, Task
  <2>. QED
    BY <2>1, <2>2, <2>3
<1>6. ASSUME NEW e \in Engines, Drain(e) PROVE OthersKept
  <2>1. IsolatesHaveOwners' /\ OwnedIsInitialized'
    BY <1>6 DEF Drain, Step, Task, Poster
  <2>2. TasksLeftAreLate'
    BY <1>6 DEF Drain, Step, Task, Poster
  <2>3. PostersLeftAreLate'
    <3>. SUFFICES ASSUME NEW w \in V8Workers, poster'[w].pc # "idle"
                  PROVE  /\ poster'[w].engine \in Engines
                         /\ engineState'[poster'[w].engine]
                                \in {"drained", "disposed", "removed", "gone"}
                              => poster'[w].late
      OBVIOUS
    <3>1. /\ poster'[w].pc = poster[w].pc /\ poster'[w].engine = poster[w].engine
          /\ poster'[w].late = (poster[w].late \/ poster[w].engine = e)
      BY <1>6 DEF Drain, Poster
    <3>2. engineState' = [engineState EXCEPT ![e] = "drained"]
      BY <1>6 DEF Drain, Step
    <3>3. /\ poster[w].engine \in Engines
          /\ engineState[poster[w].engine] \in {"drained", "disposed", "removed", "gone"}
               => poster[w].late
      BY <3>1
    <3>4. poster[w].engine # e => engineState'[poster[w].engine] = engineState[poster[w].engine]
      BY <3>2, <3>3
    <3>. QED
      BY ONLY <3>1, <3>3, <3>4
  <2>. QED
    BY <2>1, <2>2, <2>3
<1>7. ASSUME NEW e \in Engines, DisposeIsolate(e) PROVE OthersKept
  <2>1. IsolatesHaveOwners' /\ OwnedIsInitialized'
    BY <1>7 DEF DisposeIsolate, Step, Task
  <2>2. TasksLeftAreLate'
    BY <1>7 DEF DisposeIsolate, Step, Task
  <2>3. PostersLeftAreLate'
    BY <1>7 DEF DisposeIsolate, Step, Task
  <2>. QED
    BY <2>1, <2>2, <2>3
<1>8. ASSUME NEW e \in Engines, removeEngineInstance(e) PROVE OthersKept
  <2>1. IsolatesHaveOwners' /\ OwnedIsInitialized'
    BY <1>8 DEF removeEngineInstance, Step, Task
  <2>2. TasksLeftAreLate'
    BY <1>8 DEF removeEngineInstance, Step, Task
  <2>3. PostersLeftAreLate'
    BY <1>8 DEF removeEngineInstance, Step, Task
  <2>. QED
    BY <2>1, <2>2, <2>3
<1>9. ASSUME NEW e \in Engines, DeleteEngine(e) PROVE OthersKept
  <2>1. IsolatesHaveOwners' /\ OwnedIsInitialized'
    BY <1>9, OwnerAssumption DEF DeleteEngine, ReleasePlatform, Step, Task
  <2>2. TasksLeftAreLate'
    BY <1>9 DEF DeleteEngine, ReleasePlatform, Step, Task
  <2>3. PostersLeftAreLate'
    BY <1>9 DEF DeleteEngine, ReleasePlatform, Step, Task
  <2>. QED
    BY <2>1, <2>2, <2>3
<1>10. ASSUME NEW w \in V8Workers, NEW e \in Engines, CheckDestroying(w, e) PROVE OthersKept
  BY <1>10 DEF CheckDestroying, Checked, IsDestroying, Poster
<1>11. ASSUME NEW w \in V8Workers, TakeQueue(w) PROVE OthersKept
  BY <1>11 DEF TakeQueue, Poster
<1>12. ASSUME NEW w \in V8Workers, PostTask(w) PROVE OthersKept
  BY <1>12 DEF PostTask, Poster, IdlePoster
<1>13. ASSUME NEW t \in Task, RunTask(t) PROVE OthersKept
  BY <1>13 DEF RunTask
<1>14. CASE neverDestroyPlatform
  BY <1>14 DEF neverDestroyPlatform
<1>15. CASE immediatelyDestroyPlatform
  BY <1>15, OwnerAssumption DEF immediatelyDestroyPlatform, ReleasePlatform
<1>. QED
  BY <1>1, <1>2, <1>3, <1>4, <1>5, <1>6, <1>7, <1>8, <1>9, <1>10, <1>11, <1>12, <1>13, <1>14,
     <1>15
  DEF PlatformNext

LEMMA PlatformInvKept == PlatformInv /\ [PlatformNext]_platformVars => PlatformInv'
  BY TypeKept, OthersKeptByStep DEF PlatformInv, OthersKept

(* The platform outlives the isolates, whoever asks for its end and in     *)
(* whatever order engines are made and destroyed; and only a worker that   *)
(* was in scheduleTask when destroy() removed its engine's messages can    *)
(* leave one behind.                                                       *)
THEOREM TasksGoWithEngines == PlatformSpec => []TasksGoWithTheirEngine
<1>1. PlatformSpec => []PlatformInv
  BY PlatformInitEstablishes, PlatformInvKept, PTL DEF PlatformSpec
<1>2. PlatformInv => TasksGoWithTheirEngine
  BY DEF PlatformInv, PlatformTypeOK, TasksGoWithTheirEngine, IsolatesHaveOwners, OwnedIsInitialized,
         TasksLeftAreLate, PostersLeftAreLate
<1>. QED
  BY <1>1, <1>2, PTL

(* No isolate of V8 is without an engine that owns the platform.           *)
THEOREM IsolatesAreOwned == PlatformSpec => [](PlatformTypeOK /\ IsolatesHaveOwners)
<1>1. PlatformSpec => []PlatformInv
  BY PlatformInitEstablishes, PlatformInvKept, PTL DEF PlatformSpec
<1>. QED
  BY <1>1, PTL DEF PlatformInv

-----------------------------------------------------------------------------
(* Python. Every scope of an engine has the thread state it needs, for any *)
(* engines, threads and depth.                                             *)

PySpec == PyInit /\ [][PyNext]_pyVars

(* Of a stack s of scopes: the engine that is current when n of them are   *)
(* open, and how many of these have entered an engine and were not exited. *)
EngineAt(s, n) == IF n = 0 THEN NoEngine ELSE s[n].engine
Opened(s, n, impl) == {i \in 1..n : s[i].impl = impl}
OpenAt(s, n) == Cardinality(Opened(s, n, "enter")) - Cardinality(Opened(s, n, "exit"))

(* The thread state that is loaded then, if the interpreter lock is held:  *)
(* that of the engine, or m, the thread's main one.                        *)
LoadedAt(s, n, m, t) == IF EngineAt(s, n) = NoEngine THEN m ELSE State(EngineAt(s, n), t)

(* The n-th scope of s fits those below it: it gives back what was loaded. *)
ScopeFits(s, n, m, t) ==
  \/ /\ s[n].impl = "none"
     /\ s[n].engine = EngineAt(s, n - 1)
     /\ s[n].of = NoEngine
     /\ s[n].saved = NoState
  \/ /\ s[n].impl = "enter"
     /\ s[n].engine # NoEngine
     /\ s[n].of = s[n].engine
     /\ s[n].saved = LoadedAt(s, n - 1, m, t)
     /\ m # NoState
  \/ /\ s[n].impl = "exit"
     /\ s[n].engine = NoEngine
     /\ EngineAt(s, n - 1) # NoEngine
     /\ s[n].of = EngineAt(s, n - 1)
     /\ s[n].saved = LoadedAt(s, n - 1, m, t)

(* A scope that has an engine is open, and the engine's state lives.       *)
ScopeLives(s, n, t, live) ==
  EngineAt(s, n) # NoEngine => OpenAt(s, n) > 0 /\ State(EngineAt(s, n), t) \in live

Nested(s, m, t, live) ==
  /\ m \in live \cup {NoState}
  /\ \A n \in 1..Len(s) : ScopeFits(s, n, m, t)
  /\ \A n \in 0..Len(s) : OpenAt(s, n) >= 0 /\ ScopeLives(s, n, t, live)

AllNested == \A t \in PyThreads : Nested(pyScopes[t], py.main[t], t, py.live)

(* The thread that has the mutex has the state of its innermost scope      *)
(* loaded.                                                                 *)
OwnerIsLoaded ==
  /\ py.owner = NoThread => py.current = NoState
  /\ \A t \in PyThreads :
       py.owner = t => py.current = LoadedAt(pyScopes[t], Len(pyScopes[t]), py.main[t], t)

PyInv == PyTypeOK /\ EntersAreCounted /\ AllNested /\ OwnerIsLoaded

-----------------------------------------------------------------------------
(* Stacks                                                                  *)

LEMMA NoStateIsNone == ASSUME NEW e, NEW t \in PyThreads PROVE State(e, t) # NoState
  BY PyAssumption DEF State, NoState

LEMMA OpenedAreFinite ==
  ASSUME NEW s, NEW n \in Nat, NEW impl
  PROVE  IsFiniteSet(Opened(s, n, impl)) /\ Cardinality(Opened(s, n, impl)) \in Nat
<1>1. IsFiniteSet(1..n)
  BY FS_Interval
<1>2. Opened(s, n, impl) \subseteq 1..n
  BY DEF Opened
<1> QED
  BY <1>1, <1>2, FS_Subset, FS_CardinalityType

LEMMA OpenIsInt == ASSUME NEW s, NEW n \in Nat PROVE OpenAt(s, n) \in Int
  BY OpenedAreFinite DEF OpenAt

(* What is opened by n scopes depends on these alone.                      *)
LEMMA OpenIsBelow ==
  ASSUME NEW r, NEW s, NEW n \in Nat, \A i \in 1..n : r[i] = s[i]
  PROVE  OpenAt(r, n) = OpenAt(s, n)
  BY DEF OpenAt, Opened

LEMMA OpenOfNone == ASSUME NEW s PROVE OpenAt(s, 0) = 0
<1>1. \A impl : Opened(s, 0, impl) = {}
  BY DEF Opened
<1> QED
  BY <1>1, FS_EmptySet DEF OpenAt

(* One scope more.                                                         *)
LEMMA OpenedByOne ==
  ASSUME NEW s, NEW n \in Nat, NEW impl
  PROVE  Cardinality(Opened(s, n + 1, impl)) =
           Cardinality(Opened(s, n, impl)) + IF s[n + 1].impl = impl THEN 1 ELSE 0
<1>1. CASE s[n + 1].impl = impl
  <2>1. Opened(s, n + 1, impl) = Opened(s, n, impl) \cup {n + 1}
    BY <1>1 DEF Opened
  <2>2. n + 1 \notin Opened(s, n, impl)
    BY DEF Opened
  <2> QED
    BY <1>1, <2>1, <2>2, OpenedAreFinite, FS_AddElement
<1>2. CASE s[n + 1].impl # impl
  <2>1. Opened(s, n + 1, impl) = Opened(s, n, impl)
    BY <1>2 DEF Opened
  <2> QED
    BY <1>2, <2>1, OpenedAreFinite
<1> QED
  BY <1>1, <1>2

LEMMA OpenByOne ==
  ASSUME NEW s, NEW n \in Nat
  PROVE  /\ s[n + 1].impl = "none" => OpenAt(s, n + 1) = OpenAt(s, n)
         /\ s[n + 1].impl = "enter" => OpenAt(s, n + 1) = OpenAt(s, n) + 1
         /\ s[n + 1].impl = "exit" => OpenAt(s, n + 1) = OpenAt(s, n) - 1
  BY OpenedByOne, OpenedAreFinite DEF OpenAt

(* A scope that fits and, if it has an engine, lives can be put on top.    *)
LEMMA NestedPush ==
  ASSUME NEW s \in Seq(PyScope), NEW m, NEW t \in PyThreads, NEW live, NEW x \in PyScope,
         Nested(s, m, t, live),
         ScopeFits(Append(s, x), Len(s) + 1, m, t),
         x.engine # NoEngine => State(x.engine, t) \in live
  PROVE  /\ Nested(Append(s, x), m, t, live)
         /\ LoadedAt(Append(s, x), Len(s) + 1, m, t) =
              IF x.engine = NoEngine THEN m ELSE State(x.engine, t)
<1> DEFINE r == Append(s, x)
           n == Len(s)
<1>1. /\ n \in Nat /\ n = Len(s)
      /\ r \in Seq(PyScope) /\ Len(r) = n + 1 /\ r[n + 1] = x
      /\ \A i \in 1..n : r[i] = s[i]
  OBVIOUS
<1>9. ScopeFits(r, n + 1, m, t)
  OBVIOUS
<1> HIDE DEF r, n
<1>2. \A i \in 0..n : EngineAt(r, i) = EngineAt(s, i) /\ OpenAt(r, i) = OpenAt(s, i)
  <2> TAKE i \in 0..n
  <2>1. i \in Nat /\ \A j \in 1..i : r[j] = s[j]
    BY <1>1
  <2>2. EngineAt(r, i) = EngineAt(s, i)
    BY <2>1 DEF EngineAt
  <2> QED
    BY <2>1, <2>2, OpenIsBelow
<1>3. EngineAt(r, n + 1) = x.engine
  BY <1>1 DEF EngineAt
<1>4. \A i \in 1..n : ScopeFits(r, i, m, t)
  <2> TAKE i \in 1..n
  <2>1. r[i] = s[i] /\ EngineAt(r, i - 1) = EngineAt(s, i - 1) /\ i \in 1..Len(s)
    BY <1>1, <1>2
  <2> QED
    BY <2>1 DEF Nested, ScopeFits, LoadedAt
<1>5. \A i \in 0..n : OpenAt(r, i) >= 0 /\ ScopeLives(r, i, t, live)
  BY <1>1, <1>2 DEF Nested, ScopeLives
<1>6. OpenAt(r, n + 1) >= 0 /\ ScopeLives(r, n + 1, t, live)
  <2>1. OpenAt(s, n) \in Int /\ OpenAt(s, n) >= 0 /\ (EngineAt(s, n) # NoEngine => OpenAt(s, n) > 0)
    BY <1>1, OpenIsInt DEF Nested, ScopeLives
  <2>2. OpenAt(r, n) = OpenAt(s, n) /\ EngineAt(r, n) = EngineAt(s, n)
    BY <1>1, <1>2
  <2>3. CASE x.impl = "none"
    <3>1. OpenAt(r, n + 1) = OpenAt(r, n) /\ x.engine = EngineAt(s, n)
      BY <1>1, <1>9, <2>2, <2>3, OpenByOne DEF ScopeFits
    <3> QED
      BY <1>3, <2>1, <2>2, <3>1 DEF ScopeLives
  <2>4. CASE x.impl = "enter"
    BY <1>1, <1>3, <2>1, <2>2, <2>4, OpenByOne DEF ScopeLives
  <2>5. CASE x.impl = "exit"
    <3>1. x.engine = NoEngine /\ EngineAt(s, n) # NoEngine
      BY <1>1, <1>9, <2>2, <2>5 DEF ScopeFits
    <3> QED
      BY <1>1, <1>3, <2>1, <2>2, <2>5, <3>1, OpenByOne DEF ScopeLives
  <2> QED
    BY <2>3, <2>4, <2>5 DEF PyScope
<1>7. Nested(r, m, t, live)
  <2>1. \A i \in 1..n + 1 : i \in 1..n \/ i = n + 1
    BY <1>1
  <2>2. \A i \in 0..n + 1 : i \in 0..n \/ i = n + 1
    BY <1>1
  <2> QED
    BY <1>1, <1>4, <1>5, <1>6, <1>9, <2>1, <2>2 DEF Nested
<1>8. LoadedAt(r, n + 1, m, t) = IF x.engine = NoEngine THEN m ELSE State(x.engine, t)
  BY <1>3 DEF LoadedAt
<1> QED
  BY <1>1, <1>7, <1>8 DEF r

LEMMA PopIsShorter ==
  ASSUME NEW s \in Seq(PyScope), s # << >>
  PROVE  LET r == SubSeq(s, 1, Len(s) - 1)
         IN  /\ r \in Seq(PyScope) /\ Len(r) = Len(s) - 1
             /\ \A i \in 1..Len(s) - 1 : r[i] = s[i]
<1> DEFINE n == Len(s) - 1
           r == SubSeq(s, 1, n)
<1>1. n \in Nat /\ Len(s) = n + 1
  OBVIOUS
<1>2. \A i \in 1..n : s[i] \in PyScope
  BY <1>1
<1> HIDE DEF n
<1>3. /\ r \in Seq(PyScope)
      /\ Len(r) = IF 1 <= n THEN n - 1 + 1 ELSE 0
      /\ \A i \in 1..n - 1 + 1 : r[i] = s[1 + i - 1]
  BY <1>1, <1>2, SubSeqProperties
<1> HIDE DEF r
<1>4. r \in Seq(PyScope) /\ Len(r) = n /\ \A i \in 1..n : r[i] = s[i]
  BY <1>1, <1>3
<1> QED
  BY <1>4 DEF r, n

LEMMA NestedPop ==
  ASSUME NEW s \in Seq(PyScope), NEW m, NEW t \in PyThreads, NEW live,
         s # << >>, Nested(s, m, t, live)
  PROVE  /\ Nested(SubSeq(s, 1, Len(s) - 1), m, t, live)
         /\ OpenAt(SubSeq(s, 1, Len(s) - 1), Len(s) - 1) = OpenAt(s, Len(s) - 1)
         /\ LoadedAt(SubSeq(s, 1, Len(s) - 1), Len(s) - 1, m, t) = LoadedAt(s, Len(s) - 1, m, t)
<1> DEFINE n == Len(s) - 1
           r == SubSeq(s, 1, n)
<1>1. /\ n \in Nat /\ Len(s) = n + 1
      /\ r \in Seq(PyScope) /\ Len(r) = n /\ \A i \in 1..n : r[i] = s[i]
  BY PopIsShorter
<1> HIDE DEF r, n
<1>2. \A i \in 0..n : EngineAt(r, i) = EngineAt(s, i) /\ OpenAt(r, i) = OpenAt(s, i)
  <2> TAKE i \in 0..n
  <2>1. i \in Nat /\ \A j \in 1..i : r[j] = s[j]
    BY <1>1
  <2>2. EngineAt(r, i) = EngineAt(s, i)
    BY <2>1 DEF EngineAt
  <2> QED
    BY <2>1, <2>2, OpenIsBelow
<1>3. \A i \in 1..n : ScopeFits(r, i, m, t)
  <2> TAKE i \in 1..n
  <2>1. r[i] = s[i] /\ EngineAt(r, i - 1) = EngineAt(s, i - 1) /\ i \in 1..Len(s)
    BY <1>1, <1>2
  <2> QED
    BY <2>1 DEF Nested, ScopeFits, LoadedAt
<1>4. \A i \in 0..n : OpenAt(r, i) >= 0 /\ ScopeLives(r, i, t, live)
  BY <1>1, <1>2 DEF Nested, ScopeLives
<1>5. Nested(r, m, t, live)
  BY <1>1, <1>3, <1>4 DEF Nested
<1>6. OpenAt(r, n) = OpenAt(s, n) /\ LoadedAt(r, n, m, t) = LoadedAt(s, n, m, t)
  BY <1>1, <1>2 DEF LoadedAt
<1> QED
  BY <1>5, <1>6 DEF r, n

(* A stack depends on the main state only where there was one, and on the  *)
(* states of its engines only.                                             *)
LEMMA NestedWith ==
  ASSUME NEW s \in Seq(PyScope), NEW m, NEW mm, NEW t \in PyThreads, NEW live, NEW more,
         Nested(s, m, t, live),
         mm = m \/ m = NoState,
         mm \in more \cup {NoState},
         \A n \in 1..Len(s) :
           s[n].engine # NoEngine /\ State(s[n].engine, t) \in live => State(s[n].engine, t) \in more
  PROVE  Nested(s, mm, t, more)
<1>1. \A n \in 1..Len(s) : ScopeFits(s, n, mm, t)
  <2> TAKE n \in 1..Len(s)
  <2>1. ScopeFits(s, n, m, t)
    BY DEF Nested
  <2> QED
    BY <2>1 DEF ScopeFits, LoadedAt
<1>2. \A n \in 0..Len(s) : OpenAt(s, n) >= 0 /\ ScopeLives(s, n, t, more)
  <2> TAKE n \in 0..Len(s)
  <2>1. OpenAt(s, n) >= 0 /\ ScopeLives(s, n, t, live)
    BY DEF Nested
  <2>2. CASE n = 0
    BY <2>1, <2>2 DEF ScopeLives, EngineAt
  <2>3. CASE n # 0
    <3>1. n \in 1..Len(s)
      BY <2>3
    <3> QED
      BY <2>1, <2>3, <3>1 DEF ScopeLives, EngineAt
  <2> QED
    BY <2>2, <2>3
<1> QED
  BY <1>1, <1>2 DEF Nested

(* A thread with an open scope has a main thread state.                    *)
LEMMA OpenHasMain ==
  ASSUME NEW s \in Seq(PyScope), NEW m, NEW t \in PyThreads, NEW live,
         Nested(s, m, t, live), OpenAt(s, Len(s)) > 0
  PROVE  m # NoState
<1>1. CASE Opened(s, Len(s), "enter") = {}
  <2>1. Cardinality(Opened(s, Len(s), "enter")) = 0
    BY <1>1, FS_EmptySet
  <2>2. Len(s) \in Nat
    OBVIOUS
  <2> QED
    BY <2>1, <2>2, OpenedAreFinite DEF OpenAt
<1>2. CASE Opened(s, Len(s), "enter") # {}
  <2>1. PICK n \in 1..Len(s) : s[n].impl = "enter"
    BY <1>2 DEF Opened
  <2>2. ScopeFits(s, n, m, t)
    BY DEF Nested
  <2> QED
    BY <2>1, <2>2 DEF ScopeFits
<1> QED
  BY <1>1, <1>2

-----------------------------------------------------------------------------
(* The lock                                                                *)

PyLock == [owner   : PyThreads \cup {NoThread}, depth : Int, count : Int,
           gil     : PyThreads \cup {NoThread},
           current : ThreadState \cup {NoState},
           main    : [PyThreads -> ThreadState \cup {NoState}],
           live    : SUBSET ThreadState]

LEMMA OpenScopesAreOpen ==
  ASSUME NEW t PROVE OpenScopes(t) = OpenAt(pyScopes[t], Len(pyScopes[t]))
  BY DEF OpenScopes, OpenAt, Opened

LEMMA StateIsTyped ==
  ASSUME NEW e \in Engines \cup {NoEngine}, NEW t \in PyThreads PROVE State(e, t) \in ThreadState
  BY DEF State, ThreadState

(* A thread that may lock has the mutex while there are scopes open.       *)
LEMMA OwnerEnters ==
  ASSUME PyInv, NEW t \in PyThreads, MayLock(t)
  PROVE  /\ py.count \in Nat /\ py.depth = py.count
         /\ py.count = 0 => py.owner = NoThread
         /\ py.count > 0 => py.owner = t /\ py.gil = t
         /\ OpenAt(pyScopes[t], Len(pyScopes[t])) = py.count
         /\ \A u \in PyThreads \ {t} : OpenAt(pyScopes[u], Len(pyScopes[u])) = 0
<1>1. \A u \in PyThreads :
        OpenAt(pyScopes[u], Len(pyScopes[u])) = IF py.owner = u THEN py.count ELSE 0
  BY OpenScopesAreOpen DEF PyInv, EntersAreCounted
<1>2. OpenAt(pyScopes[t], Len(pyScopes[t])) >= 0
  <2>1. pyScopes[t] \in Seq(PyScope) /\ Nested(pyScopes[t], py.main[t], t, py.live)
    BY DEF PyInv, PyTypeOK, AllNested
  <2>2. Len(pyScopes[t]) \in 0..Len(pyScopes[t])
    BY <2>1
  <2> QED
    BY <2>1, <2>2 DEF Nested
<1>3. py.depth = py.count /\ py.gil = py.owner /\ (py.owner = NoThread <=> py.count = 0)
  BY DEF PyInv, EntersAreCounted
<1>4. py.owner \in {t, NoThread}
  BY DEF MayLock
<1>5. py.count \in Int
  BY DEF PyInv, PyTypeOK
<1> QED
  BY <1>1, <1>2, <1>3, <1>4, <1>5, PyAssumption

LEMMA ScopesAreNested ==
  ASSUME PyInv, NEW t \in PyThreads
  PROVE  /\ pyScopes[t] \in Seq(PyScope)
         /\ Nested(pyScopes[t], py.main[t], t, py.live)
         /\ py \in PyLock
         /\ Len(pyScopes[t]) \in Nat
         /\ PyCurrent(t) = EngineAt(pyScopes[t], Len(pyScopes[t]))
         /\ PyCurrent(t) \in Engines \cup {NoEngine}
<1>1. pyScopes[t] \in Seq(PyScope) /\ Nested(pyScopes[t], py.main[t], t, py.live) /\ py \in PyLock
  BY DEF PyInv, PyTypeOK, PyLock, AllNested
<1>2. PyCurrent(t) = EngineAt(pyScopes[t], Len(pyScopes[t]))
  BY <1>1 DEF PyCurrent, EngineAt
<1>3. PyCurrent(t) \in Engines \cup {NoEngine}
  <2>1. CASE pyScopes[t] = << >>
    BY <2>1 DEF PyCurrent
  <2>2. CASE pyScopes[t] # << >>
    <3>1. pyScopes[t][Len(pyScopes[t])] \in PyScope
      BY <1>1, <2>2
    <3> QED
      BY <2>2, <3>1 DEF PyCurrent, PyScope
  <2> QED
    BY <2>1, <2>2
<1> QED
  BY <1>1, <1>2, <1>3

(* A thread in an engine owns the mutex, and the engine's state lives.     *)
LEMMA InsideOwns ==
  ASSUME PyInv, NEW t \in PyThreads, PyCurrent(t) # NoEngine
  PROVE  /\ py.owner = t /\ py.gil = t /\ py.count > 0
         /\ State(PyCurrent(t), t) \in py.live
         /\ py.current = State(PyCurrent(t), t)
<1> DEFINE s == pyScopes[t]
<1>1. OpenAt(s, Len(s)) > 0 /\ State(PyCurrent(t), t) \in py.live
  <2>1. Len(s) \in 0..Len(s)
    BY ScopesAreNested
  <2> QED
    BY <2>1, ScopesAreNested DEF Nested, ScopeLives
<1>2. OpenAt(s, Len(s)) = IF py.owner = t THEN py.count ELSE 0
  BY OpenScopesAreOpen DEF PyInv, EntersAreCounted
<1>3. py.owner = t /\ py.count > 0
  BY <1>1, <1>2
<1>4. py.gil = t
  BY <1>3 DEF PyInv, EntersAreCounted
<1>5. py.current = State(PyCurrent(t), t)
  BY <1>3, ScopesAreNested DEF PyInv, OwnerIsLoaded, LoadedAt
<1> QED
  BY <1>1, <1>3, <1>4, <1>5

(* A step of the lock is in PyLock if its fields are typed.                *)
LEMMA LockIsTyped ==
  ASSUME NEW owner \in PyThreads \cup {NoThread}, NEW depth \in Int, NEW count \in Int,
         NEW gil \in PyThreads \cup {NoThread}, NEW current \in ThreadState \cup {NoState},
         NEW main \in [PyThreads -> ThreadState \cup {NoState}], NEW live \in SUBSET ThreadState
  PROVE  [owner |-> owner, depth |-> depth, count |-> count, gil |-> gil,
          current |-> current, main |-> main, live |-> live] \in PyLock
  BY DEF PyLock

LEMMA WaitEnters ==
  ASSUME PyInv, NEW t \in PyThreads, MayLock(t), NEW w, w = waitToEnterEngine(py, t)
  PROVE  /\ w \in PyLock
         /\ w.owner = t /\ w.gil = t /\ w.depth = py.count + 1 /\ w.count = py.count + 1
         /\ w.main[t] # NoState /\ w.main[t] \in w.live
         /\ w.main[t] = py.main[t] \/ py.main[t] = NoState
         /\ \A u \in PyThreads \ {t} : w.main[u] = py.main[u]
         /\ py.live \subseteq w.live
         /\ w.current = LoadedAt(pyScopes[t], Len(pyScopes[t]), w.main[t], t)
<1> DEFINE s == pyScopes[t]
<1>1. /\ s \in Seq(PyScope) /\ Len(s) \in 0..Len(s) /\ Len(s) \in Nat
      /\ Nested(s, py.main[t], t, py.live)
      /\ py \in PyLock
      /\ py.main[t] \in py.live \cup {NoState}
  BY ScopesAreNested DEF Nested
<1>2. /\ py.depth \in Int /\ py.count \in Nat /\ py.current \in ThreadState \cup {NoState}
      /\ py.main \in [PyThreads -> ThreadState \cup {NoState}] /\ py.live \in SUBSET ThreadState
      /\ py.gil \in PyThreads \cup {NoThread} /\ py.depth = py.count
  BY <1>1, OwnerEnters DEF PyLock
<1>3. py = [owner |-> py.owner, depth |-> py.depth, count |-> py.count, gil |-> py.gil,
            current |-> py.current, main |-> py.main, live |-> py.live]
  BY <1>1 DEF PyLock
<1>4. CASE py.count > 0
  <2>1. py.owner = t /\ py.gil = t /\ OpenAt(s, Len(s)) > 0
    BY <1>4, OwnerEnters
  <2>2. w = [owner |-> t, depth |-> py.depth + 1, count |-> py.count + 1, gil |-> py.gil,
             current |-> py.current, main |-> py.main, live |-> py.live]
    BY <1>3, <1>4 DEF waitToEnterEngine, Lock
  <2>3. py.main[t] # NoState
    BY <1>1, <2>1, OpenHasMain
  <2>4. py.current = LoadedAt(s, Len(s), py.main[t], t)
    BY <2>1 DEF PyInv, OwnerIsLoaded
  <2>5. w \in PyLock
    BY <1>2, <2>2, LockIsTyped
  <2>6. /\ w.owner = t /\ w.depth = py.depth + 1 /\ w.count = py.count + 1 /\ w.gil = py.gil
        /\ w.current = py.current /\ w.main = py.main /\ w.live = py.live
    BY <2>2
  <2> HIDE DEF s
  <2> QED
    BY <1>1, <1>2, <2>1, <2>3, <2>4, <2>5, <2>6 DEF s
<1>5. CASE ~(py.count > 0)
  <2> DEFINE m == MainState(py, t)
             live == IF py.main[t] = NoState THEN py.live \cup {m} ELSE py.live
  <2>1. py.count = 0 /\ py.depth = 0 /\ OpenAt(s, Len(s)) = 0
    BY <1>2, <1>5, OwnerEnters
  <2>2. EngineAt(s, Len(s)) = NoEngine
    BY <1>1, <2>1 DEF Nested, ScopeLives
  <2>3. m # NoState /\ m \in ThreadState /\ (py.main[t] # NoState => m = py.main[t])
    <3>1. CASE py.main[t] = NoState
      BY <3>1, NoStateIsNone, StateIsTyped DEF MainState
    <3>2. CASE py.main[t] # NoState
      BY <1>2, <3>2 DEF MainState
    <3> QED
      BY <3>1, <3>2
  <2>4. w = [owner |-> t, depth |-> py.depth + 1, count |-> py.count + 1, gil |-> t,
             current |-> m, main |-> [py.main EXCEPT ![t] = m], live |-> live]
    BY <1>3, <1>5 DEF waitToEnterEngine, Lock, RestoreThread
  <2>5. live \in SUBSET ThreadState /\ m \in live /\ py.live \subseteq live
    BY <1>1, <1>2, <2>3
  <2> HIDE DEF m, live
  <2>6. [py.main EXCEPT ![t] = m] \in [PyThreads -> ThreadState \cup {NoState}]
    BY <1>2, <2>3
  <2>7. w \in PyLock
    BY <1>2, <2>3, <2>4, <2>5, <2>6, LockIsTyped
  <2>8. /\ w.owner = t /\ w.depth = py.depth + 1 /\ w.count = py.count + 1 /\ w.gil = t
        /\ w.current = m /\ w.main = [py.main EXCEPT ![t] = m] /\ w.live = live
    BY <2>4
  <2>9. w.main[t] = m /\ \A u \in PyThreads \ {t} : w.main[u] = py.main[u]
    BY <1>2, <2>8
  <2>10. w.current = LoadedAt(s, Len(s), w.main[t], t)
    BY <2>2, <2>8, <2>9 DEF LoadedAt
  <2> QED
    BY <1>2, <2>3, <2>5, <2>7, <2>8, <2>9, <2>10
<1> QED
  BY <1>4, <1>5

LEMMA FinishExits ==
  ASSUME NEW t \in PyThreads, NEW s \in PyLock, NEW f, f = finishExitEngine(s, t),
         s.owner = t, s.gil = t, s.depth = s.count, s.count > 0
  PROVE  /\ f \in PyLock
         /\ f.count = s.count - 1 /\ f.depth = s.count - 1 /\ f.live = s.live
         /\ s.count = 1 => /\ f.owner = NoThread /\ f.gil = NoThread /\ f.current = NoState
                           /\ f.main = [s.main EXCEPT ![t] = s.current]
         /\ s.count # 1 => /\ f.owner = t /\ f.gil = t /\ f.current = s.current
                           /\ f.main = s.main
<1>1. /\ s.depth \in Int /\ s.count \in Int /\ s.current \in ThreadState \cup {NoState}
      /\ s.depth - 1 \in Int /\ s.count - 1 \in Int
      /\ s.owner \in PyThreads \cup {NoThread} /\ s.gil \in PyThreads \cup {NoThread}
      /\ NoThread \in PyThreads \cup {NoThread} /\ NoState \in ThreadState \cup {NoState}
      /\ s.main \in [PyThreads -> ThreadState \cup {NoState}] /\ s.live \in SUBSET ThreadState
  BY DEF PyLock
<1>2. s = [owner |-> s.owner, depth |-> s.depth, count |-> s.count, gil |-> s.gil,
           current |-> s.current, main |-> s.main, live |-> s.live]
  BY DEF PyLock
<1>3. CASE s.count = 1
  <2>1. s.count - 1 = 0
    BY <1>3
  <2>2. f = [owner |-> NoThread, depth |-> s.depth - 1, count |-> s.count - 1, gil |-> NoThread,
             current |-> NoState, main |-> [s.main EXCEPT ![t] = s.current], live |-> s.live]
    BY <1>2, <1>3, <2>1 DEF finishExitEngine, Unlock, SaveThread
  <2>3. [s.main EXCEPT ![t] = s.current] \in [PyThreads -> ThreadState \cup {NoState}]
    BY <1>1
  <2>4. f \in PyLock
    <3> DEFINE main == [s.main EXCEPT ![t] = s.current]
               less == s.count - 1
               up   == s.depth - 1
    <3>1. main \in [PyThreads -> ThreadState \cup {NoState}] /\ less \in Int /\ up \in Int
      BY <1>1, <2>3
    <3>2. f = [owner |-> NoThread, depth |-> up, count |-> less, gil |-> NoThread,
               current |-> NoState, main |-> main, live |-> s.live]
      BY <2>2
    <3> HIDE DEF main, less, up
    <3> QED
      BY <1>1, <3>1, <3>2 DEF PyLock
  <2>5. /\ f.owner = NoThread /\ f.depth = s.depth - 1 /\ f.count = s.count - 1 /\ f.gil = NoThread
        /\ f.current = NoState /\ f.main = [s.main EXCEPT ![t] = s.current] /\ f.live = s.live
    BY <2>2
  <2> QED
    BY <1>3, <2>4, <2>5
<1>4. CASE s.count # 1
  <2>1. s.count - 1 # 0 /\ s.depth # 1
    BY <1>1, <1>4
  <2>2. f = [owner |-> s.owner, depth |-> s.depth - 1, count |-> s.count - 1, gil |-> s.gil,
             current |-> s.current, main |-> s.main, live |-> s.live]
    BY <1>2, <2>1 DEF finishExitEngine, Unlock
  <2>3. f \in PyLock
    BY <1>1, <2>2, LockIsTyped
  <2>4. /\ f.owner = s.owner /\ f.depth = s.depth - 1 /\ f.count = s.count - 1 /\ f.gil = s.gil
        /\ f.current = s.current /\ f.main = s.main /\ f.live = s.live
    BY <2>2
  <2> QED
    BY <1>4, <2>3, <2>4
<1> QED
  BY <1>3, <1>4

(* A thread state is loaded, and one is made.                              *)
LEMMA LoadLoads ==
  ASSUME NEW s \in PyLock, NEW state \in ThreadState \cup {NoState}, NEW l, l = Load(s, state)
  PROVE  /\ l \in PyLock
         /\ l.owner = s.owner /\ l.depth = s.depth /\ l.count = s.count /\ l.gil = s.gil
         /\ l.current = state /\ l.main = s.main /\ l.live = s.live
  BY DEF Load, PyLock

Make(s, state) == [Load(s, state) EXCEPT !.live = @ \cup {state}]

LEMMA MakeMakes ==
  ASSUME NEW s \in PyLock, NEW state \in ThreadState
  PROVE  LET l == Make(s, state)
         IN  /\ l \in PyLock
             /\ l.owner = s.owner /\ l.depth = s.depth /\ l.count = s.count /\ l.gil = s.gil
             /\ l.current = state /\ l.main = s.main /\ l.live = s.live \cup {state}
<1> DEFINE k == Load(s, state)
           l == Make(s, state)
           more == s.live \cup {state}
<1>1. /\ k \in PyLock
      /\ k.owner = s.owner /\ k.depth = s.depth /\ k.count = s.count /\ k.gil = s.gil
      /\ k.current = state /\ k.main = s.main /\ k.live = s.live
  BY LoadLoads
<1>2. l = [k EXCEPT !.live = @ \cup {state}]
  BY DEF Make
<1>3. more \in SUBSET ThreadState
  BY DEF PyLock
<1> HIDE DEF k, l
<1>4. l = [owner |-> k.owner, depth |-> k.depth, count |-> k.count, gil |-> k.gil,
           current |-> k.current, main |-> k.main, live |-> more]
  BY <1>1, <1>2 DEF PyLock
<1> HIDE DEF more
<1>5. l \in PyLock
  BY <1>1, <1>3, <1>4 DEF PyLock
<1>6. /\ l.owner = k.owner /\ l.depth = k.depth /\ l.count = k.count /\ l.gil = k.gil
      /\ l.current = k.current /\ l.main = k.main /\ l.live = more
  BY <1>4
<1>7. /\ l \in PyLock
      /\ l.owner = s.owner /\ l.depth = s.depth /\ l.count = s.count /\ l.gil = s.gil
      /\ l.current = state /\ l.main = s.main /\ l.live = more
  BY <1>1, <1>5, <1>6
<1> QED
  BY <1>7, Zenon DEF l, more

-----------------------------------------------------------------------------
(* Steps                                                                   *)

Lives == [Engines -> {"unborn", "running", "destroyed"}]
ScopesBecome(t, r) == pyScopes' = [pyScopes EXCEPT ![t] = r]

(* What a step that takes or gives up the lock has to establish.           *)
LEMMA PyStepInv ==
  ASSUME PyInv, NEW t \in PyThreads, MayLock(t), NEW p, p = py', p \in PyLock,
         NEW r \in Seq(PyScope), ScopesBecome(t, r),
         pyLife' \in Lives,
         Nested(r, p.main[t], t, p.live),
         \A u \in PyThreads \ {t} : Nested(pyScopes[u], p.main[u], u, p.live),
         p.count \in Nat, p.depth = p.count, OpenAt(r, Len(r)) = p.count,
         p.count = 0 => p.owner = NoThread /\ p.gil = NoThread /\ p.current = NoState,
         p.count > 0 => /\ p.owner = t /\ p.gil = t
                        /\ p.current = LoadedAt(r, Len(r), p.main[t], t)
  PROVE  PyInv'
<1>1. /\ pyScopes' \in [PyThreads -> Seq(PyScope)] /\ pyScopes'[t] = r
      /\ \A u \in PyThreads \ {t} : pyScopes'[u] = pyScopes[u]
  BY DEF PyInv, PyTypeOK, ScopesBecome
<1>2. \A u \in PyThreads \ {t} : OpenAt(pyScopes[u], Len(pyScopes[u])) = 0
  BY OwnerEnters
<1>3. PyTypeOK'
  BY <1>1 DEF PyTypeOK, PyLock, Lives
<1>4. p.owner \in {t, NoThread} /\ (p.owner = NoThread <=> p.count = 0) /\ p.gil = p.owner
  BY PyAssumption
<1>5. EntersAreCounted'
  <2>1. \A u \in PyThreads :
          OpenAt(pyScopes'[u], Len(pyScopes'[u])) = IF py'.owner = u THEN py'.count ELSE 0
    BY <1>1, <1>2, <1>4, PyAssumption
  <2>2. \A u : OpenScopes(u)' = OpenAt(pyScopes'[u], Len(pyScopes'[u]))
    BY DEF OpenScopes, OpenAt, Opened
  <2> QED
    BY <1>4, <2>1, <2>2 DEF EntersAreCounted
<1>6. AllNested'
  <2>1. \A u \in PyThreads : Nested(pyScopes'[u], p.main[u], u, p.live)
    BY <1>1
  <2> QED
    BY <2>1 DEF AllNested
<1>7. OwnerIsLoaded'
  BY <1>1, <1>4, PyAssumption DEF OwnerIsLoaded
<1> QED
  BY <1>3, <1>5, <1>6, <1>7 DEF PyInv

(* A step that does nothing to the lock: of a scope with nothing to do.    *)
LEMMA StepSame ==
  ASSUME PyInv, NEW t \in PyThreads, py' = py, NEW r \in Seq(PyScope),
         ScopesBecome(t, r), pyLife' = pyLife,
         Nested(r, py.main[t], t, py.live),
         OpenAt(r, Len(r)) = OpenAt(pyScopes[t], Len(pyScopes[t])),
         LoadedAt(r, Len(r), py.main[t], t) =
           LoadedAt(pyScopes[t], Len(pyScopes[t]), py.main[t], t)
  PROVE  PyInv'
<1>1. /\ pyScopes' \in [PyThreads -> Seq(PyScope)] /\ pyScopes'[t] = r
      /\ \A u \in PyThreads \ {t} : pyScopes'[u] = pyScopes[u]
  BY DEF PyInv, PyTypeOK, ScopesBecome
<1>2. PyTypeOK'
  BY <1>1 DEF PyInv, PyTypeOK
<1>3. EntersAreCounted'
  <2>1. \A u \in PyThreads : OpenAt(pyScopes'[u], Len(pyScopes'[u])) = OpenScopes(u)
    BY <1>1, OpenScopesAreOpen
  <2>2. \A u : OpenScopes(u)' = OpenAt(pyScopes'[u], Len(pyScopes'[u]))
    BY DEF OpenScopes, OpenAt, Opened
  <2> QED
    BY <2>1, <2>2 DEF PyInv, EntersAreCounted
<1>4. AllNested'
  <2>1. \A u \in PyThreads : Nested(pyScopes'[u], py.main[u], u, py.live)
    BY <1>1 DEF PyInv, AllNested
  <2> QED
    BY <2>1 DEF AllNested
<1>5. OwnerIsLoaded'
  BY <1>1 DEF PyInv, OwnerIsLoaded
<1> QED
  BY <1>2, <1>3, <1>4, <1>5 DEF PyInv

(* The others' stacks, while more thread states live and theirs are the    *)
(* same.                                                                   *)
LEMMA OthersStayNested ==
  ASSUME PyInv, NEW t \in PyThreads, NEW p,
         \A u \in PyThreads \ {t} : p.main[u] = py.main[u],
         py.live \subseteq p.live
  PROVE  \A u \in PyThreads \ {t} : Nested(pyScopes[u], p.main[u], u, p.live)
<1> TAKE u \in PyThreads \ {t}
<1>1. pyScopes[u] \in Seq(PyScope) /\ Nested(pyScopes[u], py.main[u], u, py.live)
  BY ScopesAreNested
<1>2. p.main[u] \in p.live \cup {NoState}
  BY <1>1 DEF Nested
<1> QED
  BY <1>1, <1>2, NestedWith

-----------------------------------------------------------------------------
(* Actions                                                                 *)

LEMMA PyInitInv == PyInit => PyInv
<1> SUFFICES ASSUME PyInit PROVE PyInv
  OBVIOUS
<1>1. PyTypeOK
  BY DEF PyInit, PyTypeOK
<1>2. \A t \in PyThreads : pyScopes[t] = << >> /\ py.main[t] = NoState
  BY DEF PyInit
<1>3. EntersAreCounted
  <2>1. \A t \in PyThreads : OpenScopes(t) = 0
    BY <1>2, OpenScopesAreOpen, OpenOfNone
  <2> QED
    BY <2>1 DEF PyInit, EntersAreCounted
<1>4. AllNested
  <2> SUFFICES ASSUME NEW t \in PyThreads PROVE Nested(<< >>, NoState, t, py.live)
    BY <1>2 DEF AllNested
  <2>1. OpenAt(<< >>, 0) >= 0 /\ EngineAt(<< >>, 0) = NoEngine
    BY OpenOfNone DEF EngineAt
  <2> QED
    BY <2>1 DEF Nested, ScopeLives
<1>5. OwnerIsLoaded
  BY PyAssumption DEF OwnerIsLoaded, PyInit
<1> QED
  BY <1>1, <1>3, <1>4, <1>5 DEF PyInv

LEMMA CreateInv ==
  ASSUME PyInv, NEW t \in PyThreads, NEW e \in Engines, PyCreate(t, e) PROVE PyInv'
<1> DEFINE w == waitToEnterEngine(py, t)
           made == Make(w, State(e, t))
           f == finishExitEngine(made, t)
<1>1. MayLock(t) /\ pyScopes[t] = << >> /\ py' = f
  BY DEF PyCreate, Make
<1>2. py.count = 0
  BY <1>1, OwnerEnters, OpenOfNone
<1>3. /\ w \in PyLock
      /\ w.owner = t /\ w.gil = t /\ w.depth = 1 /\ w.count = 1
      /\ \A u \in PyThreads \ {t} : w.main[u] = py.main[u]
      /\ py.live \subseteq w.live
  BY <1>1, <1>2, WaitEnters
<1> HIDE DEF w
<1>4. State(e, t) \in ThreadState
  BY StateIsTyped
<1>5. /\ made \in PyLock
      /\ made.owner = t /\ made.gil = t /\ made.depth = 1 /\ made.count = 1
      /\ made.current = State(e, t) /\ made.main = w.main /\ made.live = w.live \cup {State(e, t)}
  BY <1>3, <1>4, MakeMakes
<1> HIDE DEF made
<1>6. /\ f \in PyLock /\ f.count = 0 /\ f.depth = 0 /\ f.live = made.live
      /\ f.owner = NoThread /\ f.gil = NoThread /\ f.current = NoState
      /\ f.main = [made.main EXCEPT ![t] = State(e, t)]
  BY <1>5, FinishExits
<1> HIDE DEF f
<1>7. f.main[t] = State(e, t) /\ \A u \in PyThreads \ {t} : f.main[u] = py.main[u]
  BY <1>3, <1>5, <1>6 DEF PyLock
<1>8. Nested(<< >>, f.main[t], t, f.live)
  <2>1. OpenAt(<< >>, 0) = 0 /\ EngineAt(<< >>, 0) = NoEngine
    BY OpenOfNone DEF EngineAt
  <2>2. f.main[t] \in f.live
    BY <1>5, <1>6, <1>7
  <2> QED
    BY <2>1, <2>2 DEF Nested, ScopeLives
<1>9. \A u \in PyThreads \ {t} : Nested(pyScopes[u], f.main[u], u, f.live)
  BY <1>3, <1>5, <1>6, <1>7, OthersStayNested
<1>10. ScopesBecome(t, << >>) /\ << >> \in Seq(PyScope)
  BY <1>1 DEF PyCreate, PyInv, PyTypeOK, ScopesBecome
<1>11. pyLife' \in Lives
  BY DEF PyCreate, PyInv, PyTypeOK, Lives
<1>12. OpenAt(<< >>, Len(<< >>)) = 0
  BY OpenOfNone
<1> QED
  <2>1. f.count \in Nat /\ f.depth = f.count /\ ~(f.count > 0)
    BY <1>6
  <2>2. OpenAt(<< >>, Len(<< >>)) = f.count
    BY <1>6, <1>12
  <2> QED
    BY <1>1, <1>6, <1>8, <1>9, <1>10, <1>11, <2>1, <2>2, PyStepInv

(* A scope that has nothing to do.                                         *)
LEMMA NoneInv ==
  ASSUME PyInv, NEW t \in PyThreads, NEW e, e = PyCurrent(t),
         PyPush(t, e, "none", NoEngine, NoState), py' = py, pyLife' = pyLife
  PROVE  PyInv'
<1> DEFINE s == pyScopes[t]
           x == [engine |-> e, impl |-> "none", of |-> NoEngine, saved |-> NoState]
           r == Append(s, x)
           n == Len(s)
<1>1. /\ s \in Seq(PyScope) /\ Nested(s, py.main[t], t, py.live) /\ n \in Nat
      /\ e = EngineAt(s, n) /\ e \in Engines \cup {NoEngine}
  BY ScopesAreNested
<1>2. x \in PyScope
  BY <1>1 DEF PyScope
<1>3. r \in Seq(PyScope) /\ Len(r) = n + 1 /\ r[n + 1] = x /\ \A i \in 1..n : r[i] = s[i]
  BY <1>1, <1>2
<1>4. /\ x.engine = e /\ x.impl = "none" /\ x.of = NoEngine /\ x.saved = NoState
      /\ ScopesBecome(t, r)
  BY DEF PyPush, ScopesBecome
<1> HIDE DEF s, x, r, n
<1>5. ScopeFits(r, n + 1, py.main[t], t)
  <2>1. EngineAt(r, n) = EngineAt(s, n)
    BY <1>1, <1>3 DEF EngineAt
  <2> QED
    BY <1>1, <1>3, <1>4, <2>1 DEF ScopeFits
<1>6. e # NoEngine => State(e, t) \in py.live
  <2>1. n \in 0..Len(s)
    BY <1>1 DEF n
  <2> QED
    BY <1>1, <2>1 DEF Nested, ScopeLives
<1>7. /\ Nested(r, py.main[t], t, py.live)
      /\ LoadedAt(r, n + 1, py.main[t], t) = IF e = NoEngine THEN py.main[t] ELSE State(e, t)
  <2>1. ScopeFits(Append(s, x), Len(s) + 1, py.main[t], t)
    BY <1>5 DEF r, n
  <2>2. x.engine # NoEngine => State(x.engine, t) \in py.live
    BY <1>4, <1>6
  <2>3. /\ Nested(Append(s, x), py.main[t], t, py.live)
        /\ LoadedAt(Append(s, x), Len(s) + 1, py.main[t], t) =
             IF x.engine = NoEngine THEN py.main[t] ELSE State(x.engine, t)
    BY <1>1, <1>2, <2>1, <2>2, NestedPush
  <2> QED
    BY <1>4, <2>3 DEF r, n
<1>8. OpenAt(r, n + 1) = OpenAt(s, n)
  BY ZenonT(30), <1>1, <1>3, <1>4, OpenByOne, OpenIsBelow
<1>9. LoadedAt(r, n + 1, py.main[t], t) = LoadedAt(s, n, py.main[t], t)
  BY <1>1, <1>7 DEF LoadedAt
<1> QED
  BY <1>3, <1>4, <1>7, <1>8, <1>9, StepSame DEF s, n

LEMMA PyEnterInv ==
  ASSUME PyInv, NEW t \in PyThreads, NEW e \in Engines, MayLock(t), EngineScopeImpl(t, e),
         pyLife' = pyLife
  PROVE  PyInv'
<1> DEFINE s == pyScopes[t]
           n == Len(s)
           w == waitToEnterEngine(py, t)
           p == Make(w, State(e, t))
           x == [engine |-> e, impl |-> "enter", of |-> e, saved |-> w.current]
           r == Append(s, x)
<1>1. s \in Seq(PyScope) /\ Nested(s, py.main[t], t, py.live) /\ n \in Nat
  BY ScopesAreNested
<1>2. /\ w \in PyLock
      /\ w.owner = t /\ w.gil = t /\ w.depth = py.count + 1 /\ w.count = py.count + 1
      /\ w.main[t] # NoState /\ w.main[t] \in w.live
      /\ w.main[t] = py.main[t] \/ py.main[t] = NoState
      /\ \A u \in PyThreads \ {t} : w.main[u] = py.main[u]
      /\ py.live \subseteq w.live
      /\ w.current = LoadedAt(s, n, w.main[t], t)
  BY WaitEnters
<1>3. /\ py' = p /\ ScopesBecome(t, r)
      /\ x.engine = e /\ x.impl = "enter" /\ x.of = e /\ x.saved = w.current
  BY DEF EngineScopeImpl, PyPush, Make, ScopesBecome
<1>4. State(e, t) \in ThreadState /\ e # NoEngine /\ w.current \in ThreadState \cup {NoState}
  BY <1>2, StateIsTyped, BackendAssumption DEF PyLock
<1>5. x \in PyScope
  BY <1>4 DEF PyScope
<1> HIDE DEF w
<1>6. /\ p \in PyLock
      /\ p.owner = t /\ p.gil = t /\ p.depth = py.count + 1 /\ p.count = py.count + 1
      /\ p.current = State(e, t) /\ p.main = w.main /\ p.live = w.live \cup {State(e, t)}
  BY <1>2, <1>4, MakeMakes
<1>7. r \in Seq(PyScope) /\ Len(r) = n + 1 /\ r[n + 1] = x /\ \A i \in 1..n : r[i] = s[i]
  BY <1>1, <1>5
<1> HIDE DEF p, x
<1>8. Nested(s, p.main[t], t, p.live)
  BY <1>1, <1>2, <1>6, NestedWith
<1>9. ScopeFits(r, n + 1, p.main[t], t)
  <2>1. EngineAt(r, n) = EngineAt(s, n)
    BY <1>1, <1>7 DEF EngineAt
  <2>2. LoadedAt(r, n, p.main[t], t) = w.current
    BY <1>2, <1>6, <2>1 DEF LoadedAt
  <2> HIDE DEF r, n
  <2>3. (n + 1) - 1 = n
    BY <1>1
  <2> QED
    BY <1>2, <1>3, <1>4, <1>6, <1>7, <2>2, <2>3 DEF ScopeFits
<1>10. /\ Nested(r, p.main[t], t, p.live)
       /\ LoadedAt(r, n + 1, p.main[t], t) = State(e, t)
  <2>1. ScopeFits(Append(s, x), Len(s) + 1, p.main[t], t)
    BY <1>9
  <2>2. x.engine # NoEngine => State(x.engine, t) \in p.live
    BY <1>3, <1>6
  <2>3. /\ Nested(Append(s, x), p.main[t], t, p.live)
        /\ LoadedAt(Append(s, x), Len(s) + 1, p.main[t], t) =
             IF x.engine = NoEngine THEN p.main[t] ELSE State(x.engine, t)
    BY <1>1, <1>5, <1>8, <2>1, <2>2, NestedPush
  <2> QED
    BY <1>3, <1>4, <2>3
<1>11. OpenAt(r, n + 1) = py.count + 1
  <2> HIDE DEF r
  <2>1. OpenAt(r, n) = OpenAt(s, n) /\ OpenAt(s, n) = py.count
    BY <1>1, <1>7, OpenIsBelow, OwnerEnters
  <2> QED
    BY <1>1, <1>3, <1>7, <2>1, OpenByOne
<1>12. \A u \in PyThreads \ {t} : Nested(pyScopes[u], p.main[u], u, p.live)
  <2>1. (\A u \in PyThreads \ {t} : p.main[u] = py.main[u]) /\ py.live \subseteq p.live
    BY <1>2, <1>6
  <2> QED
    BY <2>1, OthersStayNested
<1>13. pyLife' \in Lives
  BY DEF PyInv, PyTypeOK, Lives
<1>14. py.count \in Nat
  BY OwnerEnters
<1> HIDE DEF r, n
<1>15. p.count \in Nat /\ p.depth = p.count /\ p.count # 0
  BY <1>6, <1>14
<1>16. OpenAt(r, Len(r)) = p.count /\ p.current = LoadedAt(r, Len(r), p.main[t], t)
  BY <1>6, <1>7, <1>10, <1>11
<1> QED
  BY <1>3, <1>6, <1>7, <1>10, <1>12, <1>13, <1>15, <1>16, PyStepInv

LEMMA PyExitInv ==
  ASSUME PyInv, NEW t \in PyThreads, NEW e, e = PyCurrent(t), e # NoEngine,
         py' = finishExitEngine(Load(py, py.main[t]), t),
         PyPush(t, NoEngine, "exit", e, py.current), pyLife' = pyLife
  PROVE  PyInv'
<1> DEFINE s == pyScopes[t]
           n == Len(s)
           m == py.main[t]
           l == Load(py, m)
           p == finishExitEngine(l, t)
           x == [engine |-> NoEngine, impl |-> "exit", of |-> e, saved |-> py.current]
           r == Append(s, x)
<1>1. /\ s \in Seq(PyScope) /\ Nested(s, m, t, py.live) /\ n \in Nat /\ py \in PyLock
      /\ e = EngineAt(s, n) /\ e \in Engines
  BY ScopesAreNested
<1>2. /\ py.owner = t /\ py.gil = t /\ py.count > 0 /\ py.current = State(e, t)
  BY InsideOwns
<1>3. MayLock(t)
  BY <1>2 DEF MayLock
<1>4. py.count \in Nat /\ py.depth = py.count /\ OpenAt(s, n) = py.count
  BY <1>3, OwnerEnters
<1>5. m \in ThreadState \cup {NoState} /\ py.current \in ThreadState \cup {NoState}
  BY <1>1 DEF PyLock
<1>6. /\ py' = p /\ ScopesBecome(t, r)
      /\ x.engine = NoEngine /\ x.impl = "exit" /\ x.of = e /\ x.saved = py.current
  BY DEF PyPush, ScopesBecome
<1>7. x \in PyScope
  BY <1>1, <1>5 DEF PyScope
<1>8. r \in Seq(PyScope) /\ Len(r) = n + 1 /\ r[n + 1] = x /\ \A i \in 1..n : r[i] = s[i]
  BY <1>1, <1>7
<1> HIDE DEF x
<1>9. /\ l \in PyLock
      /\ l.owner = t /\ l.depth = py.count /\ l.count = py.count /\ l.gil = t
      /\ l.current = m /\ l.main = py.main /\ l.live = py.live
  BY <1>1, <1>2, <1>4, <1>5, LoadLoads
<1> HIDE DEF l
<1>10. /\ p \in PyLock
       /\ p.count = py.count - 1 /\ p.depth = py.count - 1 /\ p.live = py.live
       /\ py.count = 1 => /\ p.owner = NoThread /\ p.gil = NoThread /\ p.current = NoState
                          /\ p.main = [py.main EXCEPT ![t] = m]
       /\ py.count # 1 => p.owner = t /\ p.gil = t /\ p.current = m /\ p.main = py.main
  BY <1>2, <1>9, FinishExits
<1> HIDE DEF p
<1>11. p.main = py.main
  <2>1. [py.main EXCEPT ![t] = m] = py.main
    BY <1>1 DEF PyLock
  <2> QED
    BY <1>10, <2>1
<1>12. ScopeFits(r, n + 1, m, t)
  <2>1. EngineAt(r, n) = EngineAt(s, n)
    BY <1>1, <1>8 DEF EngineAt
  <2>2. LoadedAt(r, n, m, t) = py.current
    BY <1>1, <1>2, <2>1 DEF LoadedAt
  <2> HIDE DEF r, n, m
  <2>3. (n + 1) - 1 = n
    BY <1>1
  <2> QED
    BY <1>1, <1>6, <1>8, <2>1, <2>2, <2>3 DEF ScopeFits
<1>13. Nested(r, m, t, py.live) /\ LoadedAt(r, n + 1, m, t) = m
  <2> HIDE DEF m
  <2>1. ScopeFits(Append(s, x), Len(s) + 1, m, t)
    BY <1>12
  <2>2. x.engine # NoEngine => State(x.engine, t) \in py.live
    BY <1>6
  <2>3. /\ Nested(Append(s, x), m, t, py.live)
        /\ LoadedAt(Append(s, x), Len(s) + 1, m, t) =
             IF x.engine = NoEngine THEN m ELSE State(x.engine, t)
    BY <1>1, <1>7, <2>1, <2>2, NestedPush
  <2> QED
    BY <1>6, <2>3
<1>14. OpenAt(r, n + 1) = py.count - 1
  <2> HIDE DEF r
  <2>1. OpenAt(r, n) = OpenAt(s, n)
    BY <1>1, <1>8, OpenIsBelow
  <2> QED
    BY <1>1, <1>4, <1>6, <1>8, <2>1, OpenByOne
<1>15. \A u \in PyThreads \ {t} : Nested(pyScopes[u], p.main[u], u, p.live)
  BY <1>10, <1>11, ScopesAreNested
<1>16. pyLife' \in Lives
  BY DEF PyInv, PyTypeOK, Lives
<1> HIDE DEF r, n
<1>17. /\ p.count \in Nat /\ p.depth = p.count
       /\ p.count = 0 => py.count = 1
       /\ p.count > 0 => py.count # 1
  BY <1>2, <1>4, <1>10
<1>18. OpenAt(r, Len(r)) = p.count /\ m = LoadedAt(r, Len(r), p.main[t], t)
  BY <1>8, <1>10, <1>11, <1>13, <1>14
<1>19. Nested(r, p.main[t], t, p.live)
  BY <1>10, <1>11, <1>13
<1>20. /\ p.count = 0 => p.owner = NoThread /\ p.gil = NoThread /\ p.current = NoState
       /\ p.count > 0 => /\ p.owner = t /\ p.gil = t
                         /\ p.current = LoadedAt(r, Len(r), p.main[t], t)
  BY <1>10, <1>17, <1>18
<1> QED
  BY <1>3, <1>6, <1>8, <1>10, <1>15, <1>16, <1>17, <1>18, <1>19, <1>20, PyStepInv

(* The three destructors.                                                  *)
LEMMA LeaveNoneInv ==
  ASSUME PyInv, NEW t \in PyThreads, pyScopes[t] # << >>,
         pyScopes[t][Len(pyScopes[t])].impl = "none",
         ScopesBecome(t, SubSeq(pyScopes[t], 1, Len(pyScopes[t]) - 1)),
         py' = py, pyLife' = pyLife
  PROVE  PyInv'
<1> DEFINE s == pyScopes[t]
           n == Len(s) - 1
           r == SubSeq(s, 1, n)
           m == py.main[t]
<1>1. /\ s \in Seq(PyScope) /\ Nested(s, m, t, py.live) /\ n \in Nat /\ Len(s) = n + 1
  BY ScopesAreNested
<1>2. /\ Nested(r, m, t, py.live) /\ OpenAt(r, n) = OpenAt(s, n)
      /\ LoadedAt(r, n, m, t) = LoadedAt(s, n, m, t)
  BY <1>1, NestedPop
<1>3. r \in Seq(PyScope) /\ Len(r) = n
  BY <1>1, PopIsShorter
<1>4. s[n + 1].impl = "none" /\ ScopesBecome(t, r)
  BY <1>1
<1> HIDE DEF s, n, r, m
<1>5. ScopeFits(s, n + 1, m, t)
  BY <1>1 DEF Nested
<1>6. EngineAt(s, n + 1) = EngineAt(s, n)
  <2>1. (n + 1) - 1 = n /\ n + 1 # 0
    BY <1>1
  <2> QED
    BY <1>4, <1>5, <2>1 DEF ScopeFits, EngineAt
<1>7. LoadedAt(s, n + 1, m, t) = LoadedAt(r, n, m, t)
  BY <1>2, <1>6 DEF LoadedAt
<1>8. OpenAt(s, n + 1) = OpenAt(r, n)
  BY <1>1, <1>2, <1>4, OpenByOne
<1>9. /\ Nested(r, py.main[t], t, py.live)
      /\ OpenAt(r, Len(r)) = OpenAt(pyScopes[t], Len(pyScopes[t]))
      /\ LoadedAt(r, Len(r), py.main[t], t) = LoadedAt(pyScopes[t], Len(pyScopes[t]), py.main[t], t)
  BY <1>1, <1>2, <1>3, <1>7, <1>8 DEF s, m
<1> QED
  BY <1>3, <1>4, <1>9, StepSame

LEMMA LeaveEnterInv ==
  ASSUME PyInv, NEW t \in PyThreads, pyScopes[t] # << >>,
         pyScopes[t][Len(pyScopes[t])].impl = "enter",
         ScopesBecome(t, SubSeq(pyScopes[t], 1, Len(pyScopes[t]) - 1)),
         py' = finishExitEngine(Load(py, pyScopes[t][Len(pyScopes[t])].saved), t),
         pyLife' = pyLife
  PROVE  PyInv'
<1> DEFINE s == pyScopes[t]
           n == Len(s) - 1
           r == SubSeq(s, 1, n)
           m == py.main[t]
           saved == s[Len(s)].saved
           l == Load(py, saved)
           p == finishExitEngine(l, t)
<1>1. /\ s \in Seq(PyScope) /\ Nested(s, m, t, py.live) /\ n \in Nat /\ Len(s) = n + 1
      /\ py \in PyLock /\ PyCurrent(t) = EngineAt(s, n + 1)
  BY ScopesAreNested
<1>2. /\ Nested(r, m, t, py.live) /\ OpenAt(r, n) = OpenAt(s, n)
      /\ LoadedAt(r, n, m, t) = LoadedAt(s, n, m, t)
  BY <1>1, NestedPop
<1>3. r \in Seq(PyScope) /\ Len(r) = n
  BY <1>1, PopIsShorter
<1>4. /\ s[n + 1].impl = "enter" /\ s[n + 1].saved = saved /\ ScopesBecome(t, r)
      /\ py' = p /\ s[n + 1] \in PyScope
  BY <1>1
<1> HIDE DEF n
<1>5. /\ s[n + 1].engine # NoEngine /\ saved = LoadedAt(s, n, m, t) /\ m # NoState
  <2>1. ScopeFits(s, n + 1, m, t)
    BY <1>1 DEF Nested
  <2> QED
    BY <1>1, <1>4, <2>1 DEF ScopeFits
<1>6. py.owner = t /\ py.gil = t /\ py.count > 0
  <2>1. EngineAt(s, n + 1) = s[n + 1].engine
    BY <1>1 DEF EngineAt
  <2> QED
    BY <1>1, <1>5, <2>1, InsideOwns
<1>7. MayLock(t)
  BY <1>6 DEF MayLock
<1>8. py.count \in Nat /\ py.depth = py.count /\ OpenAt(s, n + 1) = py.count
  BY <1>1, <1>7, OwnerEnters
<1>9. saved \in ThreadState \cup {NoState}
  BY <1>4 DEF PyScope
<1> HIDE DEF saved
<1>10. /\ l \in PyLock
       /\ l.owner = t /\ l.depth = py.count /\ l.count = py.count /\ l.gil = t
       /\ l.current = saved /\ l.main = py.main /\ l.live = py.live
  BY <1>1, <1>6, <1>8, <1>9, LoadLoads
<1> HIDE DEF l
<1>11. /\ p \in PyLock
       /\ p.count = py.count - 1 /\ p.depth = py.count - 1 /\ p.live = py.live
       /\ py.count = 1 => /\ p.owner = NoThread /\ p.gil = NoThread /\ p.current = NoState
                          /\ p.main = [py.main EXCEPT ![t] = saved]
       /\ py.count # 1 => p.owner = t /\ p.gil = t /\ p.current = saved /\ p.main = py.main
  BY <1>6, <1>10, FinishExits
<1> HIDE DEF p
<1>12. OpenAt(r, n) = py.count - 1
  <2>1. OpenAt(s, n) \in Int /\ OpenAt(s, n + 1) = OpenAt(s, n) + 1
    BY <1>1, <1>4, OpenByOne, OpenIsInt
  <2> QED
    BY <1>2, <1>8, <2>1
<1>13. p.main = py.main
  <2>1. CASE py.count = 1
    <3>1. EngineAt(r, n) = NoEngine
      <4>1. ScopeLives(r, n, t, py.live) /\ OpenAt(r, n) = 0
        BY <1>1, <1>2, <1>3, <1>12, <2>1 DEF Nested
      <4> QED
        BY <4>1 DEF ScopeLives
    <3>2. saved = m
      BY <1>2, <1>5, <3>1 DEF LoadedAt
    <3>3. [py.main EXCEPT ![t] = m] = py.main
      BY <1>1 DEF PyLock
    <3> QED
      BY <1>11, <2>1, <3>2, <3>3
  <2>2. CASE py.count # 1
    BY <1>11, <2>2
  <2> QED
    BY <2>1, <2>2
<1>14. \A u \in PyThreads \ {t} : Nested(pyScopes[u], p.main[u], u, p.live)
  BY <1>11, <1>13, ScopesAreNested
<1>15. pyLife' \in Lives
  BY DEF PyInv, PyTypeOK, Lives
<1> HIDE DEF r
<1>16. /\ p.count \in Nat /\ p.depth = p.count
       /\ p.count = 0 => py.count = 1
       /\ p.count > 0 => py.count # 1
  BY <1>6, <1>8, <1>11
<1>17. OpenAt(r, Len(r)) = p.count /\ saved = LoadedAt(r, Len(r), p.main[t], t)
  BY <1>2, <1>3, <1>5, <1>11, <1>12, <1>13
<1>18. Nested(r, p.main[t], t, p.live)
  BY <1>2, <1>11, <1>13
<1>19. /\ p.count = 0 => p.owner = NoThread /\ p.gil = NoThread /\ p.current = NoState
       /\ p.count > 0 => /\ p.owner = t /\ p.gil = t
                         /\ p.current = LoadedAt(r, Len(r), p.main[t], t)
  BY <1>11, <1>16, <1>17
<1> QED
  BY <1>3, <1>4, <1>7, <1>11, <1>14, <1>15, <1>16, <1>17, <1>18, <1>19, PyStepInv

LEMMA LeaveExitInv ==
  ASSUME PyInv, NEW t \in PyThreads, pyScopes[t] # << >>, MayLock(t),
         pyScopes[t][Len(pyScopes[t])].impl = "exit",
         ScopesBecome(t, SubSeq(pyScopes[t], 1, Len(pyScopes[t]) - 1)),
         py' = Load(waitToEnterEngine(py, t), pyScopes[t][Len(pyScopes[t])].saved),
         pyLife' = pyLife
  PROVE  PyInv'
<1> DEFINE s == pyScopes[t]
           n == Len(s) - 1
           r == SubSeq(s, 1, n)
           m == py.main[t]
           saved == s[Len(s)].saved
           w == waitToEnterEngine(py, t)
           p == Load(w, saved)
<1>1. /\ s \in Seq(PyScope) /\ Nested(s, m, t, py.live) /\ n \in Nat /\ Len(s) = n + 1
  BY ScopesAreNested
<1>2. /\ w \in PyLock
      /\ w.owner = t /\ w.gil = t /\ w.depth = py.count + 1 /\ w.count = py.count + 1
      /\ w.main[t] # NoState /\ w.main[t] \in w.live
      /\ w.main[t] = m \/ m = NoState
      /\ \A u \in PyThreads \ {t} : w.main[u] = py.main[u]
      /\ py.live \subseteq w.live
  BY WaitEnters
<1>3. Nested(s, w.main[t], t, w.live)
  BY <1>1, <1>2, NestedWith
<1>4. /\ Nested(r, w.main[t], t, w.live) /\ OpenAt(r, n) = OpenAt(s, n)
      /\ LoadedAt(r, n, w.main[t], t) = LoadedAt(s, n, w.main[t], t)
  BY <1>1, <1>3, NestedPop
<1>5. r \in Seq(PyScope) /\ Len(r) = n
  BY <1>1, PopIsShorter
<1>6. /\ s[n + 1].impl = "exit" /\ s[n + 1].saved = saved /\ ScopesBecome(t, r)
      /\ py' = p /\ s[n + 1] \in PyScope
  BY <1>1
<1> HIDE DEF n, r, w
<1>7. saved = LoadedAt(s, n, w.main[t], t)
  <2>1. ScopeFits(s, n + 1, w.main[t], t)
    BY <1>1, <1>3 DEF Nested
  <2> QED
    BY <1>1, <1>6, <2>1 DEF ScopeFits
<1>8. saved \in ThreadState \cup {NoState}
  BY <1>6 DEF PyScope
<1> HIDE DEF saved
<1>9. /\ p \in PyLock
      /\ p.owner = t /\ p.depth = py.count + 1 /\ p.count = py.count + 1 /\ p.gil = t
      /\ p.current = saved /\ p.main = w.main /\ p.live = w.live
  BY <1>2, <1>8, LoadLoads
<1> HIDE DEF p
<1>10. py.count \in Nat /\ OpenAt(s, n + 1) = py.count
  BY <1>1, OwnerEnters
<1>11. OpenAt(r, n) = py.count + 1
  <2>1. OpenAt(s, n) \in Int /\ OpenAt(s, n + 1) = OpenAt(s, n) - 1
    BY <1>1, <1>6, OpenByOne, OpenIsInt
  <2> QED
    BY <1>4, <1>10, <2>1
<1>12. \A u \in PyThreads \ {t} : Nested(pyScopes[u], p.main[u], u, p.live)
  <2>1. (\A u \in PyThreads \ {t} : p.main[u] = py.main[u]) /\ py.live \subseteq p.live
    BY <1>2, <1>9
  <2> QED
    BY <2>1, OthersStayNested
<1>13. pyLife' \in Lives
  BY DEF PyInv, PyTypeOK, Lives
<1>14. p.count \in Nat /\ p.depth = p.count /\ p.count # 0
  BY <1>9, <1>10
<1>15. OpenAt(r, Len(r)) = p.count /\ p.current = LoadedAt(r, Len(r), p.main[t], t)
  BY <1>4, <1>5, <1>7, <1>9, <1>11
<1>16. Nested(r, p.main[t], t, p.live)
  BY <1>4, <1>9
<1> QED
  BY <1>5, <1>6, <1>9, <1>12, <1>13, <1>14, <1>15, <1>16, PyStepInv

(* The steps of EngineLockerHelper, one by one.                            *)
LEMMA RestoreRestores ==
  ASSUME NEW s \in PyLock, NEW t \in PyThreads, NEW state \in ThreadState \cup {NoState}
  PROVE  LET r == RestoreThread(s, t, state)
         IN  /\ r \in PyLock
             /\ r.owner = s.owner /\ r.depth = s.depth /\ r.count = s.count /\ r.gil = t
             /\ r.current = state /\ r.main = s.main /\ r.live = s.live
  BY DEF RestoreThread, PyLock

LEMMA SaveSaves ==
  ASSUME NEW s \in PyLock, NEW t \in PyThreads
  PROVE  LET r == SaveThread(s, t)
         IN  /\ r \in PyLock
             /\ r.owner = s.owner /\ r.depth = s.depth /\ r.count = s.count
             /\ r.gil = NoThread /\ r.current = NoState
             /\ r.main = [s.main EXCEPT ![t] = s.current] /\ r.live = s.live
  BY DEF SaveThread, PyLock

LEMMA LockLocks ==
  ASSUME NEW s \in PyLock, NEW t \in PyThreads
  PROVE  LET r == Lock(s, t)
         IN  /\ r \in PyLock
             /\ r.owner = t /\ r.depth = s.depth + 1 /\ r.count = s.count /\ r.gil = s.gil
             /\ r.current = s.current /\ r.main = s.main /\ r.live = s.live
<1> DEFINE depth == s.depth + 1
           r == Lock(s, t)
<1>1. r = [s EXCEPT !.owner = t, !.depth = depth]
  BY DEF Lock
<1>2. depth \in Int
  BY DEF PyLock
<1> HIDE DEF depth, r
<1>3. r = [owner |-> t, depth |-> depth, count |-> s.count, gil |-> s.gil,
           current |-> s.current, main |-> s.main, live |-> s.live]
  BY <1>1 DEF PyLock
<1>4. r \in PyLock
  BY <1>2, <1>3 DEF PyLock
<1>5. /\ r.owner = t /\ r.depth = depth /\ r.count = s.count /\ r.gil = s.gil
      /\ r.current = s.current /\ r.main = s.main /\ r.live = s.live
  BY <1>3
<1> QED
  BY <1>4, <1>5 DEF depth, r

LEMMA UnlockUnlocks ==
  ASSUME NEW s \in PyLock
  PROVE  LET r == Unlock(s)
         IN  /\ r \in PyLock
             /\ r.owner = (IF s.depth = 1 THEN NoThread ELSE s.owner)
             /\ r.depth = s.depth - 1 /\ r.count = s.count /\ r.gil = s.gil
             /\ r.current = s.current /\ r.main = s.main /\ r.live = s.live
<1> DEFINE owner == IF s.depth = 1 THEN NoThread ELSE s.owner
           depth == s.depth - 1
           r == Unlock(s)
<1>1. r = [s EXCEPT !.depth = depth, !.owner = owner]
  BY DEF Unlock
<1>2. owner \in PyThreads \cup {NoThread} /\ depth \in Int
  BY DEF PyLock
<1> HIDE DEF owner, depth, r
<1>3. /\ r \in PyLock
      /\ r.owner = owner /\ r.depth = depth /\ r.count = s.count /\ r.gil = s.gil
      /\ r.current = s.current /\ r.main = s.main /\ r.live = s.live
  <2>1. r = [owner |-> owner, depth |-> depth, count |-> s.count, gil |-> s.gil,
             current |-> s.current, main |-> s.main, live |-> s.live]
    BY <1>1 DEF PyLock
  <2>2. r \in PyLock
    BY <1>2, <2>1 DEF PyLock
  <2> QED
    BY <2>1, <2>2
<1> QED
  BY <1>3 DEF owner, depth, r

LEMMA EndEnds ==
  ASSUME NEW s \in PyLock, NEW t \in PyThreads, NEW e
  PROVE  LET r == EndInterpreter(s, t, e)
         IN  /\ r \in PyLock
             /\ r.owner = s.owner /\ r.depth = s.depth /\ r.count = s.count /\ r.gil = s.gil
             /\ r.current = s.current /\ r.main = s.main
             /\ r.live = {state \in s.live : state.interp # e}
<1> DEFINE live == {state \in s.live : state.interp # e}
           r == EndInterpreter(s, t, e)
<1>1. r = [[s EXCEPT !.live = live] EXCEPT !.current = s.current]
  BY DEF EndInterpreter, Load
<1>2. live \in SUBSET ThreadState /\ s.current \in ThreadState \cup {NoState}
  BY DEF PyLock
<1> HIDE DEF live, r
<1>3. /\ r \in PyLock
      /\ r.owner = s.owner /\ r.depth = s.depth /\ r.count = s.count /\ r.gil = s.gil
      /\ r.current = s.current /\ r.main = s.main /\ r.live = live
  BY <1>1, <1>2 DEF PyLock
<1> QED
  BY <1>3 DEF live, r

(* The end of an interpreter that no scope and no thread needs.            *)
LEMMA PyDestroyInv ==
  ASSUME PyInv, NEW t \in PyThreads, NEW e \in Engines, PyDestroy(t, e) PROVE PyInv'
<1> DEFINE s == pyScopes[t]
           n == Len(s)
           rest == {state \in py.live : state.interp # e}
           a == startDestroyEngine(py, t)
           b == EndInterpreter(a, t, e)
           p == endDestroyEngine(b, t)
<1>1. MayLock(t) /\ py' = p /\ py \in PyLock
  BY ScopesAreNested DEF PyDestroy
<1>2. /\ py.count \in Nat /\ py.depth = py.count /\ OpenAt(s, n) = py.count
      /\ py.count = 0 => py.owner = NoThread
      /\ py.count > 0 => py.owner = t /\ py.gil = t
  BY <1>1, OwnerEnters
<1>3. py.main[t] \in ThreadState \cup {NoState} /\ [py.main EXCEPT ![t] = py.main[t]] = py.main
  BY <1>1 DEF PyLock
<1>5. py.count = 0 => py.gil = NoThread /\ py.current = NoState
  BY <1>2 DEF PyInv, EntersAreCounted, OwnerIsLoaded
<1>7. /\ p \in PyLock
      /\ p.owner = py.owner /\ p.depth = py.count /\ p.count = py.count /\ p.gil = py.gil
      /\ p.current = py.current /\ p.main = py.main /\ p.live = rest
  <2>1. CASE py.count = 0
    <3> DEFINE c == RestoreThread(py, t, py.main[t])
               d == SaveThread(b, t)
    <3>1. a = Lock(c, t)
      BY <2>1 DEF startDestroyEngine
    <3>2. /\ c \in PyLock /\ c.depth = 0 /\ c.count = 0 /\ c.gil = t
          /\ c.current = py.main[t] /\ c.main = py.main /\ c.live = py.live
      BY <1>1, <1>2, <1>3, <2>1, RestoreRestores
    <3> HIDE DEF c
    <3>3. /\ a \in PyLock /\ a.owner = t /\ a.depth = 1 /\ a.count = 0 /\ a.gil = t
          /\ a.current = py.main[t] /\ a.main = py.main /\ a.live = py.live
      BY <3>1, <3>2, LockLocks
    <3> HIDE DEF a
    <3>4. /\ b \in PyLock /\ b.owner = t /\ b.depth = 1 /\ b.count = 0 /\ b.gil = t
          /\ b.current = py.main[t] /\ b.main = py.main /\ b.live = rest
      BY <3>3, EndEnds
    <3>5. p = Unlock(d)
      BY <3>4 DEF endDestroyEngine
    <3> HIDE DEF b
    <3>6. /\ d \in PyLock /\ d.owner = t /\ d.depth = 1 /\ d.count = 0 /\ d.gil = NoThread
          /\ d.current = NoState /\ d.main = py.main /\ d.live = rest
      BY <1>3, <3>4, SaveSaves
    <3> HIDE DEF d, p
    <3>7. /\ p \in PyLock /\ p.owner = NoThread /\ p.depth = 0 /\ p.count = 0 /\ p.gil = NoThread
          /\ p.current = NoState /\ p.main = py.main /\ p.live = rest
      BY <3>5, <3>6, UnlockUnlocks
    <3> QED
      BY <1>2, <1>5, <2>1, <3>7
  <2>2. CASE py.count # 0
    <3>1. a = Lock(py, t) /\ py.owner = t
      BY <1>2, <2>2 DEF startDestroyEngine
    <3>2. /\ a \in PyLock /\ a.owner = t /\ a.depth = py.count + 1 /\ a.count = py.count
          /\ a.gil = py.gil /\ a.current = py.current /\ a.main = py.main /\ a.live = py.live
      BY <1>1, <1>2, <3>1, LockLocks
    <3> HIDE DEF a
    <3>3. /\ b \in PyLock /\ b.owner = t /\ b.depth = py.count + 1 /\ b.count = py.count
          /\ b.gil = py.gil /\ b.current = py.current /\ b.main = py.main /\ b.live = rest
      BY <3>2, EndEnds
    <3> HIDE DEF b
    <3>4. p = Unlock(b)
      BY <2>2, <3>3 DEF endDestroyEngine
    <3> HIDE DEF p
    <3>5. b.depth # 1 /\ b.depth - 1 = py.count
      BY <1>2, <2>2, <3>3
    <3>6. /\ p \in PyLock /\ p.owner = b.owner /\ p.depth = py.count /\ p.count = b.count
          /\ p.gil = b.gil /\ p.current = b.current /\ p.main = b.main /\ p.live = b.live
      BY <3>3, <3>4, <3>5, UnlockUnlocks
    <3> QED
      BY <3>1, <3>3, <3>6
  <2> QED
    BY <2>1, <2>2
<1> HIDE DEF p, rest
<1>8. \A u \in PyThreads : Nested(pyScopes[u], p.main[u], u, p.live)
  <2> TAKE u \in PyThreads
  <2>1. pyScopes[u] \in Seq(PyScope) /\ Nested(pyScopes[u], py.main[u], u, py.live)
    BY ScopesAreNested
  <2>2. py.main[u] \in rest \cup {NoState}
    <3>1. py.main[u].interp # e /\ py.main[u] \in py.live \cup {NoState}
      BY <2>1 DEF PyDestroy, Nested
    <3> QED
      BY <3>1 DEF rest
  <2>3. \A i \in 1..Len(pyScopes[u]) :
          State(pyScopes[u][i].engine, u) \in py.live => State(pyScopes[u][i].engine, u) \in rest
    <3>1. \A i \in 1..Len(pyScopes[u]) : pyScopes[u][i].engine # e
      BY DEF PyDestroy
    <3> QED
      BY <3>1 DEF rest, State
  <2> QED
    BY <1>7, <2>1, <2>2, <2>3, NestedWith
<1>9. ScopesBecome(t, s) /\ s \in Seq(PyScope)
  BY ScopesAreNested DEF PyDestroy, ScopesBecome, PyInv, PyTypeOK
<1>10. pyLife' \in Lives
  BY DEF PyDestroy, PyInv, PyTypeOK, Lives
<1>11. p.count > 0 => p.current = LoadedAt(s, Len(s), p.main[t], t)
  BY <1>2, <1>7 DEF PyInv, OwnerIsLoaded
<1>12. /\ p.count \in Nat /\ p.depth = p.count /\ OpenAt(s, Len(s)) = p.count
       /\ p.count = 0 => p.owner = NoThread /\ p.gil = NoThread /\ p.current = NoState
       /\ p.count > 0 => p.owner = t /\ p.gil = t
  BY <1>2, <1>5, <1>7
<1> HIDE DEF s
<1> QED
  BY <1>1, <1>7, <1>8, <1>9, <1>10, <1>11, <1>12, PyStepInv DEF s

LEMMA PyNextInv == PyInv /\ [PyNext]_pyVars => PyInv'
<1> SUFFICES ASSUME PyInv, [PyNext]_pyVars PROVE PyInv'
  OBVIOUS
<1>1. CASE UNCHANGED pyVars
  <2>1. py' = py /\ pyScopes' = pyScopes /\ pyLife' = pyLife
    BY <1>1 DEF pyVars
  <2>2. \A u : OpenScopes(u)' = OpenAt(pyScopes'[u], Len(pyScopes'[u]))
    BY DEF OpenScopes, OpenAt, Opened
  <2>3. EntersAreCounted'
    BY <2>1, <2>2, OpenScopesAreOpen DEF PyInv, EntersAreCounted
  <2> QED
    BY <2>1, <2>3 DEF PyInv, PyTypeOK, AllNested, OwnerIsLoaded
<1>2. ASSUME NEW t \in PyThreads, NEW e \in Engines, PyCreate(t, e) PROVE PyInv'
  BY <1>2, CreateInv
<1>3. ASSUME NEW t \in PyThreads, NEW e \in Engines, PyEnter(t, e) PROVE PyInv'
  <2>1. CASE e = PyCurrent(t)
    <3>1. PyPush(t, e, "none", NoEngine, NoState) /\ py' = py /\ pyLife' = pyLife
      BY <1>3, <2>1 DEF PyEnter
    <3> QED
      BY <2>1, <3>1, NoneInv
  <2>2. CASE e # PyCurrent(t)
    <3>1. MayLock(t) /\ EngineScopeImpl(t, e) /\ pyLife' = pyLife
      BY <1>3, <2>2 DEF PyEnter
    <3> QED
      BY <3>1, PyEnterInv
  <2> QED
    BY <2>1, <2>2
<1>4. ASSUME NEW t \in PyThreads, NEW e \in Engines, PyDestroy(t, e) PROVE PyInv'
  BY <1>4, PyDestroyInv
<1>5. ASSUME NEW t \in PyThreads, PyExit(t) PROVE PyInv'
  <2>1. CASE PyCurrent(t) = NoEngine
    <3>1. PyPush(t, PyCurrent(t), "none", NoEngine, NoState) /\ py' = py /\ pyLife' = pyLife
      BY <1>5, <2>1 DEF PyExit
    <3> QED
      BY <3>1, NoneInv
  <2>2. CASE PyCurrent(t) # NoEngine
    <3>1. /\ py' = finishExitEngine(Load(py, py.main[t]), t)
          /\ PyPush(t, NoEngine, "exit", PyCurrent(t), py.current)
          /\ pyLife' = pyLife
      BY <1>5, <2>2 DEF PyExit
    <3> QED
      BY <2>2, <3>1, PyExitInv
  <2> QED
    BY <2>1, <2>2
<1>6. ASSUME NEW t \in PyThreads, PyLeave(t) PROVE PyInv'
  <2> DEFINE scope == pyScopes[t][Len(pyScopes[t])]
  <2>1. /\ pyScopes[t] # << >> /\ pyLife' = pyLife
        /\ ScopesBecome(t, SubSeq(pyScopes[t], 1, Len(pyScopes[t]) - 1))
    BY <1>6 DEF PyLeave, ScopesBecome
  <2>2. scope \in PyScope
    BY <2>1, ScopesAreNested
  <2>3. CASE scope.impl = "none"
    <3>1. py' = py
      BY <1>6, <2>3 DEF PyLeave
    <3> QED
      BY <2>1, <2>3, <3>1, LeaveNoneInv
  <2>4. CASE scope.impl = "enter"
    <3>1. py' = finishExitEngine(Load(py, scope.saved), t)
      BY <1>6, <2>4 DEF PyLeave
    <3> QED
      BY <2>1, <2>4, <3>1, LeaveEnterInv
  <2>5. CASE scope.impl = "exit"
    <3>1. MayLock(t) /\ py' = Load(waitToEnterEngine(py, t), scope.saved)
      BY <1>6, <2>5 DEF PyLeave
    <3> QED
      BY <2>1, <2>5, <3>1, LeaveExitInv
  <2> QED
    BY <2>2, <2>3, <2>4, <2>5 DEF PyScope
<1> QED
  BY <1>1, <1>2, <1>3, <1>4, <1>5, <1>6 DEF PyNext

(* What is loaded by a scope that was opened lives.                        *)
LEMMA LoadedLives ==
  ASSUME NEW s \in Seq(PyScope), NEW m, NEW t \in PyThreads, NEW live,
         Nested(s, m, t, live), NEW n \in 0..Len(s)
  PROVE  LoadedAt(s, n, m, t) \in live \cup {NoState}
<1>1. m \in live \cup {NoState} /\ ScopeLives(s, n, t, live)
  BY DEF Nested
<1> QED
  BY <1>1 DEF LoadedAt, ScopeLives

LEMMA InvSurvive == PyInv => PyStatesSurvive
<1> SUFFICES ASSUME PyInv PROVE PyStatesSurvive
  OBVIOUS
<1>1. ScopeHasItsState
  BY InsideOwns DEF ScopeHasItsState
<1>2. EntersAreCounted
  BY DEF PyInv
<1>3. py.current \in py.live \cup {NoState}
  <2>1. CASE py.owner = NoThread
    BY <2>1 DEF PyInv, OwnerIsLoaded
  <2>2. CASE py.owner # NoThread
    <3>1. py.owner \in PyThreads
      BY <2>2, PyAssumption DEF PyInv, PyTypeOK
    <3>2. py.current = LoadedAt(pyScopes[py.owner], Len(pyScopes[py.owner]), py.main[py.owner], py.owner)
      BY <3>1 DEF PyInv, OwnerIsLoaded
    <3>3. Len(pyScopes[py.owner]) \in 0..Len(pyScopes[py.owner])
      BY <3>1, ScopesAreNested
    <3> QED
      BY <3>1, <3>2, <3>3, ScopesAreNested, LoadedLives
  <2> QED
    BY <2>1, <2>2
<1>4. ASSUME NEW t \in PyThreads
      PROVE  /\ py.main[t] \in py.live \cup {NoState}
             /\ \A i \in 1..Len(pyScopes[t]) : pyScopes[t][i].saved \in py.live \cup {NoState}
  <2> DEFINE s == pyScopes[t]
             m == py.main[t]
  <2>1. s \in Seq(PyScope) /\ Nested(s, m, t, py.live) /\ m \in py.live \cup {NoState}
    BY ScopesAreNested DEF Nested
  <2> HIDE DEF s, m
  <2>2. ASSUME NEW i \in 1..Len(s) PROVE s[i].saved \in py.live \cup {NoState}
    <3>1. ScopeFits(s, i, m, t)
      BY <2>1 DEF Nested
    <3>2. i - 1 \in 0..Len(s)
      BY <2>1
    <3>3. LoadedAt(s, i - 1, m, t) \in py.live \cup {NoState}
      BY <2>1, <3>2, LoadedLives
    <3> QED
      BY <3>1, <3>3 DEF ScopeFits
  <2> QED
    BY <2>1, <2>2 DEF s, m
<1>5. NoFreedState
  BY <1>3, <1>4 DEF NoFreedState
<1> QED
  BY <1>1, <1>2, <1>5 DEF PyStatesSurvive

-----------------------------------------------------------------------------
(* Whatever the engines, the threads and the depth of their scopes: what   *)
(* runs in a scope has its thread state and the locks, the count is that of*)
(* the scopes, and no freed thread state is loaded or kept (EngineScopeImpl*)
(* and EngineLockerHelper of PyScope.cc and PyHelper.cc).                  *)
THEOREM PyStatesAlwaysSurvive == PySpec => []PyStatesSurvive
<1>1. PySpec => []PyInv
  BY PyInitInv, PyNextInv, PTL DEF PySpec
<1> QED
  BY <1>1, InvSurvive, PTL

(* The state has its types: scopes, thread states, mutex and lives.        *)
THEOREM PyIsTyped == PySpec => []PyTypeOK
<1>1. PySpec => []PyInv
  BY PyInitInv, PyNextInv, PTL DEF PySpec
<1>2. PyInv => PyTypeOK
  BY DEF PyInv
<1> QED
  BY <1>1, <1>2, PTL

-----------------------------------------------------------------------------
(* LocalCounts: the counts behind the Locals of QuickJs and Python, for    *)
(* any values, Locals and calls. One expression of the backends takes the  *)
(* heap through several changes, and in between a value may have a count   *)
(* that belongs to nothing yet. Good(h, n) says of such a heap that no     *)
(* freed value was used and that a value v has the counts of the slots     *)
(* which hold it and n[v] others; a lemma about each change of the heap    *)
(* says what it makes of n. Between the steps, n is Owned.                 *)

OneIf(b) == IF b THEN 1 ELSE 0
InSlots(e, v) == Cardinality({s \in Fields : e[s] = v})
Heaps == [counts : [Counted -> Nat], entries : [Fields -> CountedValue], wild : BOOLEAN]

Good(h, n) ==
  /\ h \in Heaps /\ ~h.wild
  /\ n \in [Counted -> Nat]
  /\ \A v \in Counted : h.counts[v] = InSlots(h.entries, v) + n[v]

Plus(n, w)  == [v \in Counted |-> n[v] + OneIf(w = v)]
Minus(n, w) == [v \in Counted |-> n[v] - OneIf(w = v)]
Alive(h, v) == v # Nothing => h.counts[v] > 0

LEMMA HeapBecomes ==
  ASSUME NEW h \in Heaps, NEW c \in [Counted -> Nat], NEW w \in BOOLEAN
  PROVE  [h EXCEPT !.counts = c, !.wild = w] \in Heaps
  BY DEF Heaps

LEMMA FieldsAreFinite == CountsConstants => IsFiniteSet(Fields) /\ IsFiniteSet({<<Root, "x">>})
<1> SUFFICES ASSUME CountsConstants PROVE IsFiniteSet(Fields)
  BY FS_Singleton
<1>1. IsFiniteSet({"x"}) /\ IsFiniteSet({"store"}) /\ IsFiniteSet({<<Root, "x">>})
  BY FS_Singleton
<1>2. IsFiniteSet(CountedArrays) /\ IsFiniteSet(PlainObjects)
  BY FS_Subset DEF CountsConstants, PlainObjects
<1>3. IsFiniteSet(CountedArrays \X {"x"}) /\ IsFiniteSet(PlainObjects \X {"store"})
  BY <1>1, <1>2, FS_Product
<1>4. IsFiniteSet({<<Root, "x">>} \cup (CountedArrays \X {"x"}))
  BY <1>1, <1>3, FS_Union
<1> QED
  BY <1>3, <1>4, FS_Union DEF Fields

LEMMA FieldsOfObjects ==
  ASSUME CountsConstants, NEW s \in Fields
  PROVE  s[1] # Root => s[1] \in Counted
  BY DEF Fields, CountsConstants, PlainObjects

(* Two sets that differ in x only.                                         *)
LEMMA OneDiffers ==
  ASSUME NEW A, IsFiniteSet(A), NEW B, IsFiniteSet(B), NEW x, A \ {x} = B \ {x}
  PROVE  /\ Cardinality(A) \in Nat /\ Cardinality(B) \in Nat
         /\ Cardinality(B) = (Cardinality(A) - OneIf(x \in A)) + OneIf(x \in B)
<1>2. Cardinality(A) \in Nat /\ Cardinality(B) \in Nat
  BY FS_CardinalityType
<1>3. CASE x \in A /\ x \notin B
  <2>1. A = B \cup {x}
    BY <1>3
  <2>2. Cardinality(A) = Cardinality(B) + 1
    BY <1>3, <2>1, FS_AddElement
  <2> QED
    BY <1>2, <1>3, <2>2 DEF OneIf
<1>4. CASE x \notin A /\ x \in B
  <2>1. B = A \cup {x}
    BY <1>4
  <2>2. Cardinality(B) = Cardinality(A) + 1
    BY <1>4, <2>1, FS_AddElement
  <2> QED
    BY <1>2, <1>4, <2>2 DEF OneIf
<1>5. CASE x \in A <=> x \in B
  <2>1. A = B
    BY <1>5
  <2> QED
    BY <1>2, <2>1 DEF OneIf
<1> QED
  BY <1>3, <1>4, <1>5

LEMMA SlotsAreCounted ==
  ASSUME CountsConstants, NEW e, NEW v
  PROVE  /\ InSlots(e, v) \in Nat
         /\ \A s \in Fields : e[s] = v => InSlots(e, v) > 0
<1> DEFINE A == {s \in Fields : e[s] = v}
<1>1. IsFiniteSet(A) /\ Cardinality(A) \in Nat
  BY FieldsAreFinite, FS_Subset, FS_CardinalityType
<1>2. A # {} => Cardinality(A) # 0
  BY <1>1, FS_EmptySet
<1>3. InSlots(e, v) = Cardinality(A)
  BY DEF InSlots
<1>4. \A s \in Fields : e[s] = v => A # {}
  OBVIOUS
<1> HIDE DEF A
<1> QED
  BY <1>1, <1>2, <1>3, <1>4

LEMMA SlotChanges ==
  ASSUME CountsConstants, NEW e \in [Fields -> CountedValue], NEW slot \in Fields, NEW w \in CountedValue, NEW v
  PROVE  InSlots([e EXCEPT ![slot] = w], v) =
           (InSlots(e, v) - OneIf(e[slot] = v)) + OneIf(w = v)
<1> DEFINE f == [e EXCEPT ![slot] = w]
           A == {s \in Fields : e[s] = v}
           B == {s \in Fields : f[s] = v}
<1>1. /\ A \ {slot} = B \ {slot}
      /\ slot \in A <=> e[slot] = v
      /\ slot \in B <=> w = v
  OBVIOUS
<1>2. InSlots(e, v) = Cardinality(A) /\ InSlots(f, v) = Cardinality(B)
  BY DEF InSlots
<1>3. IsFiniteSet(A) /\ IsFiniteSet(B)
  BY FieldsAreFinite, FS_Subset
<1> HIDE DEF A, B, f
<1>4. Cardinality(B) = (Cardinality(A) - OneIf(slot \in A)) + OneIf(slot \in B)
  BY <1>1, <1>3, OneDiffers
<1>5. OneIf(slot \in A) = OneIf(e[slot] = v) /\ OneIf(slot \in B) = OneIf(w = v)
  BY <1>1 DEF OneIf
<1> QED
  BY <1>2, <1>4, <1>5 DEF f

-----------------------------------------------------------------------------
(* What the interpreters do.                                               *)

LEMMA GoodIsAlive ==
  ASSUME CountsConstants, NEW h, NEW n, Good(h, n)
  PROVE  /\ \A v \in Counted : n[v] > 0 => h.counts[v] > 0
         /\ \A s \in Fields : h.entries[s] \in CountedValue /\ Alive(h, h.entries[s])
         /\ \A v \in Counted : h.counts[v] \in Nat /\ n[v] \in Nat /\ n[v] <= h.counts[v]
         /\ \A v \in Counted : h.counts[v] = InSlots(h.entries, v) + n[v]
<1>1. \A v \in Counted : /\ InSlots(h.entries, v) \in Nat
                         /\ \A s \in Fields : h.entries[s] = v => InSlots(h.entries, v) > 0
  BY SlotsAreCounted
<1>2. \A v \in Counted : n[v] \in Nat /\ h.counts[v] = InSlots(h.entries, v) + n[v]
  BY DEF Good
<1>3. \A s \in Fields : h.entries[s] \in Counted \cup {Nothing}
  BY DEF Good, Heaps, CountedValue
<1> QED
  BY <1>1, <1>2, <1>3 DEF Alive, CountedValue

LEMMA GoodIsEnough ==
  ASSUME NEW h, NEW n, Good(h, n), NEW m, m \in [Counted -> Int], \A v \in Counted : m[v] = n[v]
  PROVE  Good(h, m)
  BY DEF Good

LEMMA IncGood ==
  ASSUME CountsConstants, NEW h, NEW n, Good(h, n), NEW v \in CountedValue, Alive(h, v)
  PROVE  Good(Inc(h, v), Plus(n, v))
<1>1. CASE v = Nothing
  <2>1. Inc(h, v) = h
    BY <1>1 DEF Inc
  <2>2. Plus(n, v) \in [Counted -> Int] /\ \A u \in Counted : Plus(n, v)[u] = n[u]
    BY <1>1 DEF Plus, OneIf, CountsConstants, Good
  <2> QED
    BY <2>1, <2>2, GoodIsEnough
<1>2. CASE v # Nothing
  <2>1. v \in Counted
    BY <1>2 DEF CountedValue
  <2> DEFINE g == [h EXCEPT !.counts[v] = @ + 1, !.wild = @ \/ h.counts[v] = 0]
  <2>2. Inc(h, v) = g
    BY <1>2 DEF Inc
  <2>3. h.counts[v] > 0
    BY <1>2 DEF Alive
  <2>4. g \in Heaps /\ ~g.wild /\ g.entries = h.entries
        /\ \A u \in Counted : g.counts[u] = h.counts[u] + OneIf(v = u)
    <3>1. h \in Heaps /\ ~h.wild /\ h.counts \in [Counted -> Nat] /\ h.counts[v] \in Nat
      BY <2>1 DEF Good, Heaps
    <3>2. g.counts = [h.counts EXCEPT ![v] = @ + 1] /\ g.entries = h.entries /\ g.wild = FALSE
      BY <2>3, <3>1 DEF Heaps
    <3>3. [h.counts EXCEPT ![v] = @ + 1] \in [Counted -> Nat]
      BY <2>1, <3>1
    <3>4. (h.wild \/ h.counts[v] = 0) = FALSE
      BY <2>3, <3>1
    <3>5. g = [h EXCEPT !.counts = [h.counts EXCEPT ![v] = @ + 1], !.wild = FALSE]
      BY <3>1, <3>4
    <3> HIDE DEF g
    <3>6. g \in Heaps
      BY <3>1, <3>3, <3>5, HeapBecomes
    <3> QED
      BY <2>1, <3>1, <3>2, <3>6 DEF OneIf
  <2>5. \A u \in Counted : InSlots(h.entries, u) \in Nat
    BY SlotsAreCounted
  <2> HIDE DEF g
  <2>6. Plus(n, v) \in [Counted -> Nat]
    BY DEF Plus, OneIf, Good
  <2>7. ASSUME NEW u \in Counted PROVE g.counts[u] = InSlots(g.entries, u) + Plus(n, v)[u]
    BY <2>4, <2>5 DEF Plus, OneIf, Good
  <2> QED
    BY <2>2, <2>4, <2>6, <2>7 DEF Good
<1> QED
  BY <1>1, <1>2

LEMMA IncIs ==
  ASSUME NEW h \in Heaps, NEW v \in CountedValue
  PROVE  /\ Inc(h, v).entries = h.entries
         /\ \A u \in Counted : /\ h.counts[u] <= Inc(h, v).counts[u]
                               /\ u # v => Inc(h, v).counts[u] = h.counts[u]
  BY DEF Inc, Heaps, CountedValue

LEMMA MadeGood ==
  ASSUME CountsConstants, NEW h, NEW n, Good(h, n), NEW v \in Counted, h.counts[v] = 0
  PROVE  Good(MadeValue(h, v), Plus(n, v))
<1>1. MadeValue(h, v) \in Heaps /\ ~MadeValue(h, v).wild /\ MadeValue(h, v).entries = h.entries
      /\ \A u \in Counted : MadeValue(h, v).counts[u] = IF u = v THEN 1 ELSE h.counts[u]
  BY DEF MadeValue, Good, Heaps
<1>2. \A u \in Counted : InSlots(h.entries, u) \in Nat
  BY SlotsAreCounted
<1>3. Plus(n, v) \in [Counted -> Nat]
  BY DEF Plus, OneIf, Good
<1>4. ASSUME NEW u \in Counted
      PROVE  MadeValue(h, v).counts[u] = InSlots(MadeValue(h, v).entries, u) + Plus(n, v)[u]
  BY <1>1, <1>2 DEF Plus, OneIf, Good
<1> QED
  BY <1>1, <1>3, <1>4 DEF Good

LEMMA SweptGood ==
  ASSUME CountsConstants, NEW h, NEW n, Good(h, n)
  PROVE  /\ Good(Swept(h), n)
         /\ \A v \in Counted : Swept(h).counts[v] <= h.counts[v]
<1> DEFINE dead == {s \in Fields : s[1] # Root /\ h.entries[s] # Nothing /\ h.counts[s[1]] = 0}
           D(v) == {s \in dead : h.entries[s] = v}
           e == [s \in Fields |-> IF s \in dead THEN Nothing ELSE h.entries[s]]
           c == [v \in Counted |-> h.counts[v] - Cardinality(D(v))]
           g == [h EXCEPT !.counts = c, !.entries = e]
<1>1. CASE dead = {}
  BY <1>1, GoodIsAlive DEF Swept
<1>2. CASE dead # {}
  <2>1. Swept(h) = g
    BY <1>2 DEF Swept
  <2>2. ASSUME NEW v \in Counted
        PROVE  /\ Cardinality(D(v)) \in Nat
               /\ InSlots(e, v) \in Nat
               /\ InSlots(e, v) = InSlots(h.entries, v) - Cardinality(D(v))
    <3> DEFINE A == {s \in Fields : h.entries[s] = v}
               B == {s \in Fields : e[s] = v}
    <3>1. B = A \ D(v) /\ A \cap D(v) = D(v)
      BY DEF CountsConstants
    <3>2. IsFiniteSet(A) /\ IsFiniteSet(D(v))
      BY FieldsAreFinite, FS_Subset
    <3>3. Cardinality(A \ D(v)) = Cardinality(A) - Cardinality(A \cap D(v))
      BY <3>2, FS_Difference
    <3>4. Cardinality(D(v)) \in Nat
      BY <3>2, FS_CardinalityType
    <3>5. InSlots(e, v) = Cardinality(B) /\ InSlots(h.entries, v) = Cardinality(A)
      BY DEF InSlots
    <3>6. InSlots(e, v) \in Nat
      BY SlotsAreCounted
    <3> HIDE DEF A, B, D, e
    <3> QED
      BY <3>1, <3>3, <3>4, <3>5, <3>6
  <2>3. e \in [Fields -> CountedValue]
    BY DEF Good, Heaps, CountedValue
  <2> HIDE DEF D, e, dead
  <2>4. \A v \in Counted : /\ h.counts[v] \in Nat /\ n[v] \in Nat
                           /\ h.counts[v] = InSlots(h.entries, v) + n[v]
    BY DEF Good, Heaps
  <2>5. \A v \in Counted : c[v] = InSlots(e, v) + n[v] /\ c[v] \in Nat /\ c[v] <= h.counts[v]
    <3> SUFFICES ASSUME NEW v \in Counted
                 PROVE  c[v] = InSlots(e, v) + n[v] /\ c[v] \in Nat /\ c[v] <= h.counts[v]
      OBVIOUS
    <3>1. InSlots(h.entries, v) \in Nat
      BY SlotsAreCounted
    <3> QED
      BY <2>2, <2>4, <3>1
  <2>6. c \in [Counted -> Nat]
    BY <2>5
  <2> HIDE DEF c
  <2>7. g \in Heaps /\ ~g.wild /\ g.counts = c /\ g.entries = e
    BY <2>3, <2>6 DEF Good, Heaps
  <2> HIDE DEF g
  <2> QED
    BY <2>1, <2>5, <2>7 DEF Good
<1> QED
  BY <1>1, <1>2

LEMMA DecGood ==
  ASSUME CountsConstants, NEW h, NEW n, Good(h, n), NEW v \in CountedValue, v # Nothing => n[v] > 0
  PROVE  /\ Good(Dec(h, v), Minus(n, v))
         /\ \A u \in Counted : Dec(h, v).counts[u] <= h.counts[u]
<1>1. CASE v = Nothing
  <2>1. Dec(h, v) = h
    BY <1>1 DEF Dec
  <2>2. Minus(n, v) \in [Counted -> Int] /\ \A u \in Counted : Minus(n, v)[u] = n[u]
    BY <1>1 DEF Minus, OneIf, CountsConstants, Good
  <2>3. Good(h, Minus(n, v))
    BY <2>2, GoodIsEnough
  <2> QED
    BY <2>1, <2>3, GoodIsAlive
<1>2. CASE v # Nothing
  <2>1. v \in Counted /\ n[v] > 0
    BY <1>2 DEF CountedValue
  <2> DEFINE g == [h EXCEPT !.counts[v] = @ - 1, !.wild = @ \/ h.counts[v] = 0]
             m == Minus(n, v)
  <2>2. Dec(h, v) = Swept(Swept(Swept(g)))
    BY <1>2 DEF Dec
  <2>3. h.counts[v] > 0
    BY <2>1, GoodIsAlive
  <2>4. g \in Heaps /\ ~g.wild /\ g.entries = h.entries
        /\ \A u \in Counted : g.counts[u] = h.counts[u] - OneIf(v = u)
    <3>1. h \in Heaps /\ ~h.wild /\ h.counts \in [Counted -> Nat] /\ h.counts[v] \in Nat
      BY <2>1 DEF Good, Heaps
    <3>2. g.counts = [h.counts EXCEPT ![v] = @ - 1] /\ g.entries = h.entries /\ g.wild = FALSE
      BY <2>3, <3>1 DEF Heaps
    <3>3. [h.counts EXCEPT ![v] = @ - 1] \in [Counted -> Nat]
      BY <2>1, <2>3, <3>1
    <3>4. (h.wild \/ h.counts[v] = 0) = FALSE
      BY <2>3, <3>1
    <3>5. g = [h EXCEPT !.counts = [h.counts EXCEPT ![v] = @ - 1], !.wild = FALSE]
      BY <3>1, <3>4
    <3> HIDE DEF g
    <3>6. g \in Heaps
      BY <3>1, <3>3, <3>5, HeapBecomes
    <3> QED
      BY <2>1, <3>1, <3>2, <3>6 DEF OneIf
  <2>5. \A u \in Counted : InSlots(h.entries, u) \in Nat
    BY SlotsAreCounted
  <2> HIDE DEF g
  <2>6. m \in [Counted -> Nat]
    BY <2>1 DEF Minus, OneIf, Good
  <2>7. ASSUME NEW u \in Counted PROVE g.counts[u] = InSlots(g.entries, u) + m[u]
    BY <2>4, <2>5 DEF Minus, OneIf, Good
  <2>8. Good(g, m)
    BY <2>4, <2>6, <2>7 DEF Good
  <2>9. \A u \in Counted : g.counts[u] <= h.counts[u] /\ g.counts[u] \in Int /\ h.counts[u] \in Int
    BY <2>4 DEF OneIf, Good, Heaps
  <2> HIDE DEF m
  <2> DEFINE g1 == Swept(g)
             g2 == Swept(g1)
             g3 == Swept(g2)
  <2>10. Good(g1, m) /\ \A u \in Counted : g1.counts[u] <= g.counts[u]
    BY <2>8, SweptGood
  <2> HIDE DEF g1
  <2>11. Good(g2, m) /\ \A u \in Counted : g2.counts[u] <= g1.counts[u]
    BY <2>10, SweptGood
  <2> HIDE DEF g2
  <2>12. Good(g3, m) /\ \A u \in Counted : g3.counts[u] <= g2.counts[u]
    BY <2>11, SweptGood
  <2>13. Dec(h, v) = g3
    BY <2>2 DEF g1, g2
  <2> HIDE DEF g3
  <2>14. \A u \in Counted : g1.counts[u] \in Int /\ g2.counts[u] \in Int /\ g3.counts[u] \in Int
    BY <2>10, <2>11, <2>12 DEF Good, Heaps
  <2>15. \A u \in Counted : g3.counts[u] <= h.counts[u]
    BY <2>9, <2>10, <2>11, <2>12, <2>14
  <2> QED
    BY <2>12, <2>13, <2>15 DEF m
<1> QED
  BY <1>1, <1>2

(* A slot takes the count of v over.                                       *)
LEMMA EntryGood ==
  ASSUME CountsConstants, NEW h, NEW n, Good(h, n), NEW slot \in Fields,
         NEW v \in CountedValue, v # Nothing => n[v] > 0
  PROVE  LET g == [h EXCEPT !.entries[slot] = v]
             w == h.entries[slot]
         IN  /\ Good(g, Plus(Minus(n, v), w))
             /\ w # Nothing => Plus(Minus(n, v), w)[w] > 0
             /\ g.counts = h.counts
<1> DEFINE g == [h EXCEPT !.entries[slot] = v]
           w == h.entries[slot]
           m == Plus(Minus(n, v), w)
<1>1. h \in Heaps /\ ~h.wild /\ h.entries \in [Fields -> CountedValue] /\ h.counts \in [Counted -> Nat]
      /\ w \in CountedValue /\ n \in [Counted -> Nat]
      /\ \A u \in Counted : h.counts[u] = InSlots(h.entries, u) + n[u]
  BY DEF Good, Heaps
<1>2. g.counts = h.counts /\ g.wild = FALSE /\ g.entries = [h.entries EXCEPT ![slot] = v]
  BY <1>1 DEF Heaps
<1>3. g \in Heaps
  BY <1>1, <1>2 DEF Heaps
<1>4. \A u \in Counted : InSlots(g.entries, u) = (InSlots(h.entries, u) - OneIf(w = u)) + OneIf(v = u)
  BY <1>1, <1>2, SlotChanges
<1>5. \A u \in Counted : InSlots(h.entries, u) \in Nat
  BY SlotsAreCounted
<1>6. \A u \in Counted : m[u] = (n[u] - OneIf(v = u)) + OneIf(w = u)
  BY DEF Plus, Minus
<1>7. \A u \in Counted : v = u => n[u] > 0
  BY DEF CountsConstants
<1> HIDE DEF g, w
<1>8. m \in [Counted -> Nat]
  BY <1>1, <1>7 DEF Plus, Minus, OneIf
<1> HIDE DEF m
<1>9. ASSUME NEW u \in Counted PROVE g.counts[u] = InSlots(g.entries, u) + m[u]
  <2>1. g.counts[u] = InSlots(h.entries, u) + n[u]
    BY <1>1, <1>2
  <2> QED
    BY <2>1, <1>1, <1>4, <1>5, <1>6 DEF OneIf
<1>10. Good(g, m)
  BY <1>2, <1>3, <1>8, <1>9 DEF Good
<1>11. w # Nothing => m[w] > 0
  <2> SUFFICES ASSUME w # Nothing PROVE m[w] > 0
    OBVIOUS
  <2>1. w \in Counted
    BY <1>1 DEF CountedValue
  <2> QED
    BY <2>1, <1>1, <1>6, <1>7 DEF OneIf
<1> QED
  BY <1>2, <1>10, <1>11 DEF g, w, m

LEMMA PutGood ==
  ASSUME CountsConstants, NEW h, NEW n, Good(h, n), NEW slot \in Fields,
         NEW v \in CountedValue, v # Nothing => n[v] > 0
  PROVE  /\ Good(PutEntry(h, slot, v), Minus(n, v))
         /\ \A u \in Counted : PutEntry(h, slot, v).counts[u] <= h.counts[u]
<1> DEFINE g == [h EXCEPT !.entries[slot] = v]
           w == h.entries[slot]
           m == Plus(Minus(n, v), w)
<1>1. Good(g, m) /\ (w # Nothing => m[w] > 0) /\ g.counts = h.counts
  BY EntryGood
<1>2. w \in CountedValue
  BY DEF Good, Heaps
<1>3. PutEntry(h, slot, v) = Dec(g, w)
  BY DEF PutEntry
<1> HIDE DEF g
<1>4. \A u \in Counted : Minus(m, w)[u] = Minus(n, v)[u]
  BY DEF Minus, Plus, OneIf, Good
<1>5. Minus(n, v) \in [Counted -> Int]
  BY DEF Minus, OneIf, Good
<1> HIDE DEF m, w
<1>6. Good(Dec(g, w), Minus(m, w)) /\ \A u \in Counted : Dec(g, w).counts[u] <= g.counts[u]
  BY <1>1, <1>2, DecGood
<1>7. Good(Dec(g, w), Minus(n, v))
  BY <1>4, <1>5, <1>6, GoodIsEnough
<1> QED
  BY <1>1, <1>3, <1>6, <1>7

(* Nothing else dies where v has another count.                            *)
LEMMA DecIs ==
  ASSUME CountsConstants, NEW h, NEW n, Good(h, n), ChainsEnd(h), NEW v \in CountedValue,
         v # Nothing => h.counts[v] > 1
  PROVE  /\ Dec(h, v).entries = h.entries
         /\ ChainsEnd(Dec(h, v))
         /\ \A u \in Counted : Dec(h, v).counts[u] = h.counts[u] - OneIf(v = u)
<1>0. h \in Heaps /\ h.counts \in [Counted -> Nat]
  BY DEF Good, Heaps
<1>1. CASE v = Nothing
  <2>1. Dec(h, v) = h
    BY <1>1 DEF Dec
  <2> QED
    BY <2>1, <1>0, <1>1 DEF OneIf, CountsConstants
<1>2. CASE v # Nothing
  <2> DEFINE g == [h EXCEPT !.counts[v] = @ - 1, !.wild = @ \/ h.counts[v] = 0]
  <2>1. v \in Counted /\ h.counts[v] > 1
    BY <1>2 DEF CountedValue
  <2>2. Dec(h, v) = Swept(Swept(Swept(g)))
    BY <1>2 DEF Dec
  <2>3. g.counts = [h.counts EXCEPT ![v] = @ - 1] /\ g.entries = h.entries
    BY <1>0 DEF Heaps
  <2> HIDE DEF g
  <2>4. \A u \in Counted : /\ g.counts[u] = h.counts[u] - OneIf(v = u)
                           /\ g.counts[u] = 0 => h.counts[u] = 0
    BY <1>0, <2>1, <2>3 DEF OneIf
  <2>5. ChainsEnd(g)
    BY <2>3, <2>4, FieldsOfObjects DEF ChainsEnd
  <2>6. {s \in Fields : s[1] # Root /\ g.entries[s] # Nothing /\ g.counts[s[1]] = 0} = {}
    BY <2>5 DEF ChainsEnd
  <2>7. Swept(g) = g
    BY <2>6 DEF Swept
  <2>8. Dec(h, v) = g
    BY <2>2, <2>7
  <2> QED
    BY <2>3, <2>4, <2>5, <2>8
<1> QED
  BY <1>1, <1>2

-----------------------------------------------------------------------------
(* Who holds a value.                                                      *)

SameOn(S, f, g) == \A i \in S : f[i] = g[i]
SameBut(n, i, f, g) == \A j \in 1..n : j # i => f[j] = g[j]
CountIn(n, f, v) == Cardinality({i \in 1..n : f[i] = v})
LocalsOf(ls, v)    == CountIn(Len(ls), [i \in 1..Len(ls) |-> ls[i].value], v)
ArgumentsOf(fs, v) == CountIn(Len(fs), [d \in 1..Len(fs) |-> fs[d].argument], v)
ResultsOf(fs, v)   == CountIn(Len(fs), [d \in 1..Len(fs) |-> fs[d].result], v)
Lent == IF backend = "QuickJs" THEN holder.value ELSE Nothing

OwnedBy(ls, fs, gl, ke, le, lo) ==
  [v \in Counted |-> LocalsOf(ls, v) + ArgumentsOf(fs, v) + ResultsOf(fs, v)
                     + OneIf(gl = v) + OneIf(ke = v) + OneIf(le = v) + lo[v]]
Owned == OwnedBy(locals, natives, global, kept, Lent, lost)

(* Sequences that are longer by one, or differ at i only.                  *)
MoreLocals(ls, ms, w) ==
  /\ Len(ms) = Len(ls) + 1 /\ ms[Len(ls) + 1].value = w
  /\ \A j \in 1..Len(ls) : ms[j].value = ls[j].value
OneLocal(ls, ms, i, u, w) ==
  /\ Len(ms) = Len(ls) /\ i \in 1..Len(ls) /\ ls[i].value = u /\ ms[i].value = w
  /\ \A j \in 1..Len(ls) : j # i => ms[j].value = ls[j].value
MoreFrames(fs, gs, a, r) ==
  /\ Len(gs) = Len(fs) + 1 /\ gs[Len(fs) + 1].argument = a /\ gs[Len(fs) + 1].result = r
  /\ \A d \in 1..Len(fs) : gs[d] = fs[d]
OneResult(fs, gs, i, u, w) ==
  /\ Len(gs) = Len(fs) /\ i \in 1..Len(fs) /\ fs[i].result = u /\ gs[i].result = w
  /\ \A d \in 1..Len(fs) : gs[d].argument = fs[d].argument /\ (d # i => gs[d] = fs[d])

LEMMA IndicesAreCounted ==
  ASSUME NEW n \in Nat, NEW A \in SUBSET (1..n)
  PROVE  /\ IsFiniteSet(A) /\ Cardinality(A) \in Nat
         /\ A # {} => Cardinality(A) > 0
<1>1. IsFiniteSet(1..n)
  BY FS_Interval
<1>2. IsFiniteSet(A) /\ Cardinality(A) \in Nat
  BY <1>1, FS_Subset, FS_CardinalityType
<1> QED
  BY <1>2, FS_EmptySet

LEMMA CountIsPositive ==
  ASSUME NEW n \in Nat, NEW f, NEW v
  PROVE  /\ CountIn(n, f, v) \in Nat
         /\ \A i \in 1..n : f[i] = v => CountIn(n, f, v) > 0
<1> DEFINE A == {i \in 1..n : f[i] = v}
<1>1. A \in SUBSET (1..n) /\ CountIn(n, f, v) = Cardinality(A)
  BY DEF CountIn
<1>2. \A i \in 1..n : f[i] = v => A # {}
  OBVIOUS
<1> HIDE DEF A
<1> QED
  BY <1>1, <1>2, IndicesAreCounted

LEMMA CountChanges ==
  ASSUME NEW n \in Nat, NEW f, NEW g, NEW i \in 1..n, SameBut(n, i, f, g), NEW v
  PROVE  CountIn(n, g, v) = (CountIn(n, f, v) - OneIf(f[i] = v)) + OneIf(g[i] = v)
<1> DEFINE A == {j \in 1..n : f[j] = v}
           B == {j \in 1..n : g[j] = v}
<1>1. /\ A \in SUBSET (1..n) /\ B \in SUBSET (1..n)
      /\ A \ {i} = B \ {i}
      /\ (i \in A <=> f[i] = v) /\ (i \in B <=> g[i] = v)
  BY DEF SameBut
<1>2. CountIn(n, f, v) = Cardinality(A) /\ CountIn(n, g, v) = Cardinality(B)
  BY DEF CountIn
<1>3. IsFiniteSet(A) /\ IsFiniteSet(B)
  BY <1>1, IndicesAreCounted
<1> HIDE DEF A, B
<1>4. Cardinality(B) = (Cardinality(A) - OneIf(i \in A)) + OneIf(i \in B)
  BY <1>1, <1>3, OneDiffers
<1>5. OneIf(i \in A) = OneIf(f[i] = v) /\ OneIf(i \in B) = OneIf(g[i] = v)
  BY <1>1 DEF OneIf
<1> QED
  BY <1>2, <1>4, <1>5

LEMMA CountGrows ==
  ASSUME NEW n \in Nat, NEW f, NEW g, SameOn(1..n, f, g), NEW v
  PROVE  CountIn(n + 1, g, v) = CountIn(n, f, v) + OneIf(g[n + 1] = v)
<1> DEFINE k == n + 1
           A == {j \in 1..n : f[j] = v}
           B == {j \in 1..(n + 1) : g[j] = v}
<1>1. /\ A \in SUBSET (1..k) /\ B \in SUBSET (1..k)
      /\ A \ {k} = B \ {k}
      /\ k \notin A /\ (k \in B <=> g[k] = v) /\ k \in Nat
  BY DEF SameOn
<1>2. CountIn(n, f, v) = Cardinality(A) /\ CountIn(k, g, v) = Cardinality(B)
  BY DEF CountIn
<1>3. IsFiniteSet(A) /\ IsFiniteSet(B) /\ Cardinality(A) \in Nat
  BY <1>1, IndicesAreCounted
<1> HIDE DEF A, B, k
<1>4. Cardinality(B) = (Cardinality(A) - OneIf(k \in A)) + OneIf(k \in B)
  BY <1>1, <1>3, OneDiffers
<1>5. OneIf(k \in A) = 0 /\ OneIf(k \in B) = OneIf(g[k] = v)
  BY <1>1 DEF OneIf
<1>6. CountIn(k, g, v) = CountIn(n, f, v) + OneIf(g[k] = v)
  BY <1>2, <1>3, <1>4, <1>5 DEF OneIf
<1> QED
  BY <1>6 DEF k

LEMMA CutOff ==
  ASSUME NEW S, NEW ls \in Seq(S), Len(ls) > 0
  PROVE  /\ SubSeq(ls, 1, Len(ls) - 1) \in Seq(S)
         /\ Len(SubSeq(ls, 1, Len(ls) - 1)) = Len(ls) - 1
         /\ \A i \in 1..(Len(ls) - 1) : SubSeq(ls, 1, Len(ls) - 1)[i] = ls[i]
<1> DEFINE k == Len(ls) - 1
           ms == SubSeq(ls, 1, Len(ls) - 1)
<1>1. k \in Nat /\ Len(ls) = k + 1 /\ \A i \in 1..k : ls[i] \in S
  OBVIOUS
<1>2. ms = SubSeq(ls, 1, k)
  OBVIOUS
<1> HIDE DEF k, ms
<1>3. /\ ms \in Seq(S)
      /\ Len(ms) = IF 1 <= k THEN k - 1 + 1 ELSE 0
      /\ \A i \in 1..k - 1 + 1 : ms[i] = ls[1 + i - 1]
  BY <1>1, <1>2, SubSeqProperties
<1>4. ms \in Seq(S) /\ Len(ms) = k /\ \A i \in 1..k : ms[i] = ls[i]
  BY <1>1, <1>3
<1> QED
  BY <1>4 DEF ms, k

LEMMA LocalsAreCounted ==
  ASSUME NEW ls, Len(ls) \in Nat, NEW v
  PROVE  /\ LocalsOf(ls, v) \in Nat
         /\ \A i \in 1..Len(ls) : ls[i].value = v => LocalsOf(ls, v) > 0
<1> DEFINE n == Len(ls)
           f == [i \in 1..Len(ls) |-> ls[i].value]
<1>1. LocalsOf(ls, v) = CountIn(n, f, v) /\ n \in Nat /\ \A i \in 1..n : f[i] = ls[i].value
  BY DEF LocalsOf
<1> HIDE DEF f
<1>2. CountIn(n, f, v) \in Nat /\ \A i \in 1..n : f[i] = v => CountIn(n, f, v) > 0
  BY <1>1, CountIsPositive
<1> QED
  BY <1>1, <1>2

LEMMA LocalsUpdated ==
  ASSUME NEW ls, NEW ms, Len(ls) \in Nat, NEW i, NEW u, NEW w,
         OneLocal(ls, ms, i, u, w), NEW v
  PROVE  LocalsOf(ms, v) = (LocalsOf(ls, v) - OneIf(u = v)) + OneIf(w = v)
<1> DEFINE n == Len(ls)
           f == [j \in 1..Len(ls) |-> ls[j].value]
           g == [j \in 1..Len(ms) |-> ms[j].value]
<1>1. /\ LocalsOf(ls, v) = CountIn(n, f, v) /\ LocalsOf(ms, v) = CountIn(n, g, v)
      /\ n \in Nat /\ i \in 1..n
  BY DEF LocalsOf, OneLocal
<1>2. /\ \A j \in 1..n : f[j] = ls[j].value /\ g[j] = ms[j].value
      /\ f[i] = u /\ g[i] = w
  BY DEF OneLocal
<1> HIDE DEF f, g
<1>3. SameBut(n, i, f, g)
  BY <1>2 DEF SameBut, OneLocal
<1>4. CountIn(n, g, v) = (CountIn(n, f, v) - OneIf(f[i] = v)) + OneIf(g[i] = v)
  BY <1>1, <1>3, CountChanges
<1> QED
  BY <1>1, <1>2, <1>4

LEMMA LocalsGrow ==
  ASSUME NEW ls, NEW ms, Len(ls) \in Nat, NEW w, MoreLocals(ls, ms, w), NEW v
  PROVE  LocalsOf(ms, v) = LocalsOf(ls, v) + OneIf(w = v)
<1> DEFINE n == Len(ls)
           f == [j \in 1..Len(ls) |-> ls[j].value]
           g == [j \in 1..Len(ms) |-> ms[j].value]
<1>1. /\ LocalsOf(ls, v) = CountIn(n, f, v) /\ LocalsOf(ms, v) = CountIn(n + 1, g, v)
      /\ n \in Nat /\ Len(ms) = n + 1
  BY DEF LocalsOf, MoreLocals
<1>2. SameOn(1..n, f, g) /\ g[n + 1] = w
  BY <1>1 DEF SameOn, MoreLocals
<1> HIDE DEF f, g
<1>3. CountIn(n + 1, g, v) = CountIn(n, f, v) + OneIf(g[n + 1] = v)
  BY <1>1, <1>2, CountGrows
<1> QED
  BY <1>1, <1>2, <1>3

LEMMA FramesAreCounted ==
  ASSUME NEW fs, Len(fs) \in Nat, NEW v
  PROVE  /\ ArgumentsOf(fs, v) \in Nat /\ ResultsOf(fs, v) \in Nat
         /\ \A d \in 1..Len(fs) : /\ fs[d].argument = v => ArgumentsOf(fs, v) > 0
                                  /\ fs[d].result = v => ResultsOf(fs, v) > 0
<1> DEFINE n == Len(fs)
           f == [d \in 1..Len(fs) |-> fs[d].argument]
           g == [d \in 1..Len(fs) |-> fs[d].result]
<1>1. /\ ArgumentsOf(fs, v) = CountIn(n, f, v) /\ ResultsOf(fs, v) = CountIn(n, g, v)
      /\ n \in Nat /\ \A d \in 1..n : f[d] = fs[d].argument /\ g[d] = fs[d].result
  BY DEF ArgumentsOf, ResultsOf
<1> HIDE DEF f, g
<1>2. CountIn(n, f, v) \in Nat /\ \A d \in 1..n : f[d] = v => CountIn(n, f, v) > 0
  BY <1>1, CountIsPositive
<1>3. CountIn(n, g, v) \in Nat /\ \A d \in 1..n : g[d] = v => CountIn(n, g, v) > 0
  BY <1>1, CountIsPositive
<1> QED
  BY <1>1, <1>2, <1>3

LEMMA FramesGrow ==
  ASSUME NEW fs, NEW gs, Len(fs) \in Nat, NEW a, NEW r, MoreFrames(fs, gs, a, r), NEW v
  PROVE  /\ ArgumentsOf(gs, v) = ArgumentsOf(fs, v) + OneIf(a = v)
         /\ ResultsOf(gs, v) = ResultsOf(fs, v) + OneIf(r = v)
<1> DEFINE n == Len(fs)
           f == [d \in 1..Len(fs) |-> fs[d].argument]
           f2 == [d \in 1..Len(gs) |-> gs[d].argument]
           g == [d \in 1..Len(fs) |-> fs[d].result]
           g2 == [d \in 1..Len(gs) |-> gs[d].result]
<1>1. /\ ArgumentsOf(fs, v) = CountIn(n, f, v) /\ ArgumentsOf(gs, v) = CountIn(n + 1, f2, v)
      /\ ResultsOf(fs, v) = CountIn(n, g, v) /\ ResultsOf(gs, v) = CountIn(n + 1, g2, v)
      /\ n \in Nat /\ Len(gs) = n + 1
  BY DEF ArgumentsOf, ResultsOf, MoreFrames
<1>2. /\ SameOn(1..n, f, f2) /\ SameOn(1..n, g, g2)
      /\ f2[n + 1] = a /\ g2[n + 1] = r
  BY <1>1 DEF SameOn, MoreFrames
<1> HIDE DEF f, g, f2, g2
<1>3. CountIn(n + 1, f2, v) = CountIn(n, f, v) + OneIf(f2[n + 1] = v)
  BY <1>1, <1>2, CountGrows
<1>4. CountIn(n + 1, g2, v) = CountIn(n, g, v) + OneIf(g2[n + 1] = v)
  BY <1>1, <1>2, CountGrows
<1> QED
  BY <1>1, <1>2, <1>3, <1>4

LEMMA FramesReturn ==
  ASSUME NEW fs, NEW gs, Len(fs) \in Nat, NEW i, NEW u, NEW w,
         OneResult(fs, gs, i, u, w), NEW v
  PROVE  /\ ArgumentsOf(gs, v) = ArgumentsOf(fs, v)
         /\ ResultsOf(gs, v) = (ResultsOf(fs, v) - OneIf(u = v)) + OneIf(w = v)
<1> DEFINE n == Len(fs)
           g == [d \in 1..Len(fs) |-> fs[d].result]
           g2 == [d \in 1..Len(gs) |-> gs[d].result]
<1>1. /\ ResultsOf(fs, v) = CountIn(n, g, v) /\ ResultsOf(gs, v) = CountIn(n, g2, v)
      /\ n \in Nat /\ i \in 1..n
  BY DEF ResultsOf, OneResult
<1>2. /\ \A d \in 1..n : g[d] = fs[d].result /\ g2[d] = gs[d].result
      /\ g[i] = u /\ g2[i] = w
  BY DEF OneResult
<1>3. [d \in 1..Len(fs) |-> fs[d].argument] = [d \in 1..Len(gs) |-> gs[d].argument]
  BY DEF OneResult
<1>4. ArgumentsOf(gs, v) = ArgumentsOf(fs, v)
  BY <1>3 DEF ArgumentsOf, OneResult
<1> HIDE DEF g, g2
<1>5. SameBut(n, i, g, g2)
  BY <1>2 DEF SameBut, OneResult
<1>6. CountIn(n, g2, v) = (CountIn(n, g, v) - OneIf(g[i] = v)) + OneIf(g2[i] = v)
  BY <1>1, <1>5, CountChanges
<1> QED
  BY <1>1, <1>2, <1>4, <1>6

-----------------------------------------------------------------------------
(* The inductive invariant: the heap is good for those that own a count, a *)
(* frame has a result only when it returns, so that Return overwrites none *)
(* that was counted, and what was freed has given back what it held.       *)

CountsTyped ==
  /\ backend \in {"QuickJs", "Python"}
  /\ locals \in Seq(LocalVariable) /\ Len(locals) <= MaxLocals
  /\ holder \in [value : CountedStrings \cup {Nothing}, depth : 0..MaxCalls]
  /\ natives \in Seq(NativeFrame) /\ Len(natives) <= MaxCalls
  /\ global \in CountedValue /\ kept \in CountedValue
  /\ lost \in [Counted -> 0..MaxLost]

NoResultYet == \A d \in 1..Len(natives) : natives[d].returns \/ natives[d].result = Nothing

CountsInv ==
  /\ CountsTyped /\ NoResultYet /\ PointersAreOwn
  /\ ChainsEnd(heap)
  /\ Good(heap, Owned)

(* What a step has to keep; that chains end is a bound.                    *)
CountsKept == CountsTyped' /\ NoResultYet' /\ PointersAreOwn' /\ Good(heap', Owned')

LEMMA OwnedIs ==
  ASSUME NEW v \in Counted
  PROVE  Owned[v] = LocalsOf(locals, v) + ArgumentsOf(natives, v) + ResultsOf(natives, v)
                    + OneIf(global = v) + OneIf(kept = v) + OneIf(Lent = v) + lost[v]
  BY DEF Owned, OwnedBy

LEMMA OwnedIsAfter ==
  ASSUME NEW v \in Counted
  PROVE  Owned'[v] = LocalsOf(locals', v) + ArgumentsOf(natives', v) + ResultsOf(natives', v)
                     + OneIf(global' = v) + OneIf(kept' = v) + OneIf(Lent' = v) + lost'[v]
  BY DEF Owned, OwnedBy

LEMMA OwnersAreTyped ==
  ASSUME CountsConstants, CountsInv, NEW v \in Counted
  PROVE  /\ LocalsOf(locals, v) \in Nat /\ ArgumentsOf(natives, v) \in Nat
         /\ ResultsOf(natives, v) \in Nat /\ lost[v] \in Nat
         /\ Owned[v] \in Nat
<1>1. Len(locals) \in Nat /\ Len(natives) \in Nat /\ lost[v] \in Nat
  BY DEF CountsInv, CountsTyped, CountsConstants
<1>2. /\ LocalsOf(locals, v) \in Nat /\ ArgumentsOf(natives, v) \in Nat
      /\ ResultsOf(natives, v) \in Nat
  BY <1>1, LocalsAreCounted, FramesAreCounted
<1>3. Owned[v] \in Nat
  BY DEF CountsInv, Good
<1> QED
  BY <1>1, <1>2, <1>3

LEMMA SumIsMore ==
  ASSUME NEW p \in Nat, NEW q \in Nat, NEW r \in Nat, NEW x \in Nat, NEW y \in Nat,
         NEW z \in Nat, NEW u \in Nat
  PROVE  p + q + r + x + y + z + u >= p /\ p + q + r + x + y + z + u >= q + r
         /\ p + q + r + x + y + z + u >= x /\ p + q + r + x + y + z + u >= y
         /\ p + q + r + x + y + z + u >= z
  OBVIOUS

LEMMA SumRegrouped ==
  ASSUME NEW p \in Nat, NEW q \in Nat, NEW r \in Nat, NEW x \in Nat, NEW y \in Nat,
         NEW z \in Nat, NEW u \in Nat
  PROVE  p + q + r + x + y + z + u = p + (q + r) + (x + y + z + u)
  OBVIOUS

LEMMA OwnedIsMore ==
  ASSUME CountsConstants, CountsInv, NEW v \in Counted
  PROVE  /\ Owned[v] >= LocalsOf(locals, v)
         /\ Owned[v] >= ArgumentsOf(natives, v) + ResultsOf(natives, v)
         /\ Owned[v] >= OneIf(global = v) /\ Owned[v] >= OneIf(kept = v)
         /\ Owned[v] >= OneIf(Lent = v)
<1>1. /\ LocalsOf(locals, v) \in Nat /\ ArgumentsOf(natives, v) \in Nat
      /\ ResultsOf(natives, v) \in Nat /\ lost[v] \in Nat
  BY OwnersAreTyped
<1>2. OneIf(global = v) \in Nat /\ OneIf(kept = v) \in Nat /\ OneIf(Lent = v) \in Nat
  BY DEF OneIf
<1> QED
  BY <1>1, <1>2, OwnedIs, SumIsMore

IsHeld(v) == v \in CountedValue /\ (v # Nothing => Owned[v] > 0) /\ Alive(heap, v)

LEMMA OwnedIsHeld ==
  ASSUME CountsConstants, CountsInv, NEW v \in CountedValue, v # Nothing => Owned[v] > 0
  PROVE  IsHeld(v)
<1>1. Good(heap, Owned)
  BY DEF CountsInv
<1>2. v # Nothing => heap.counts[v] > 0
  BY <1>1, GoodIsAlive DEF CountedValue
<1> QED
  BY <1>2 DEF IsHeld, Alive

LEMMA LocalIsHeld ==
  ASSUME CountsConstants, CountsInv, NEW i \in 1..Len(locals)
  PROVE  IsHeld(locals[i].value) /\ locals[i] \in LocalVariable
<1> DEFINE v == locals[i].value
<1>0. locals[i] \in LocalVariable /\ Len(locals) \in Nat
  BY DEF CountsInv, CountsTyped
<1>1. locals[i] \in LocalVariable /\ v \in CountedValue /\ Len(locals) \in Nat
  BY <1>0 DEF LocalVariable
<1>2. ASSUME v # Nothing PROVE Owned[v] > 0
  <2>1. v \in Counted
    BY <1>1, <1>2 DEF CountedValue
  <2>2. LocalsOf(locals, v) > 0
    BY <1>1, LocalsAreCounted
  <2> HIDE DEF v
  <2> QED
    BY <2>1, <2>2, OwnedIsMore, OwnersAreTyped
<1> QED
  BY <1>1, <1>2, OwnedIsHeld

LEMMA FrameIsHeld ==
  ASSUME CountsConstants, CountsInv, NEW d \in 1..Len(natives)
  PROVE  IsHeld(natives[d].argument) /\ IsHeld(natives[d].result) /\ natives[d] \in NativeFrame
<1> DEFINE v == natives[d].argument
           w == natives[d].result
<1>0. natives[d] \in NativeFrame /\ Len(natives) \in Nat
  BY DEF CountsInv, CountsTyped
<1>1. natives[d] \in NativeFrame /\ v \in CountedValue /\ w \in CountedValue /\ Len(natives) \in Nat
  BY <1>0 DEF NativeFrame
<1>2. ASSUME v # Nothing PROVE Owned[v] > 0
  <2>1. v \in Counted
    BY <1>1, <1>2 DEF CountedValue
  <2>2. ArgumentsOf(natives, v) > 0
    BY <1>1, FramesAreCounted
  <2> HIDE DEF v
  <2> QED
    BY <2>1, <2>2, OwnedIsMore, OwnersAreTyped
<1>3. ASSUME w # Nothing PROVE Owned[w] > 0
  <2>1. w \in Counted
    BY <1>1, <1>3 DEF CountedValue
  <2>2. ResultsOf(natives, w) > 0
    BY <1>1, FramesAreCounted
  <2> HIDE DEF w
  <2> QED
    BY <2>1, <2>2, OwnedIsMore, OwnersAreTyped
<1> QED
  BY <1>1, <1>2, <1>3, OwnedIsHeld

LEMMA OthersAreHeld ==
  ASSUME CountsConstants, CountsInv
  PROVE  IsHeld(global) /\ IsHeld(kept) /\ IsHeld(Lent)
<1>1. global \in CountedValue /\ kept \in CountedValue /\ Lent \in CountedValue
  BY DEF CountsInv, CountsTyped, CountsConstants, Lent, CountedValue
<1>2. ASSUME NEW v \in Counted, v = global \/ v = kept \/ v = Lent PROVE Owned[v] > 0
  BY <1>2, OwnedIsMore, OwnersAreTyped DEF OneIf
<1> QED
  BY <1>1, <1>2, OwnedIsHeld DEF CountedValue

LEMMA EntryIsAlive ==
  ASSUME CountsConstants, CountsInv, NEW s \in Fields
  PROVE  heap.entries[s] \in CountedValue /\ Alive(heap, heap.entries[s])
  BY GoodIsAlive DEF CountsInv

-----------------------------------------------------------------------------
(* What changes the Locals and what is lost.                               *)

Steady == CountsConstants /\ CountsInv /\ backend' = backend
LostMore(v) == lost'[v] - lost[v]

LEMMA LocalsKeep ==
  ASSUME Steady, UNCHANGED <<holder, natives, global, kept>>, lost' \in [Counted -> 0..MaxLost],
         locals' \in Seq(LocalVariable), Len(locals') <= MaxLocals, PointersAreOwn',
         NEW m, Good(heap', m),
         \A v \in Counted :
           m[v] = (Owned[v] - LocalsOf(locals, v)) + LocalsOf(locals', v) + LostMore(v)
  PROVE  CountsKept
<1>1. CountsTyped' /\ NoResultYet'
  BY DEF Steady, CountsInv, CountsTyped, NoResultYet
<1>2. Lent' = Lent
  BY DEF Lent, Steady
<1>3. Len(locals') \in Nat
  OBVIOUS
<1>4. ASSUME NEW v \in Counted PROVE Owned'[v] = m[v] /\ m[v] \in Int
  <2>1. LocalsOf(locals', v) \in Nat
    BY <1>3, LocalsAreCounted
  <2>2. Owned'[v] = LocalsOf(locals', v) + ArgumentsOf(natives, v) + ResultsOf(natives, v)
                    + OneIf(global = v) + OneIf(kept = v) + OneIf(Lent = v) + lost'[v]
    BY <1>2, OwnedIsAfter
  <2>3. m[v] = (Owned[v] - LocalsOf(locals, v)) + LocalsOf(locals', v) + (lost'[v] - lost[v])
    BY DEF LostMore
  <2>4. OneIf(global = v) \in Nat /\ OneIf(kept = v) \in Nat /\ OneIf(Lent = v) \in Nat
    BY DEF OneIf
  <2>5. Owned[v] = LocalsOf(locals, v) + ArgumentsOf(natives, v) + ResultsOf(natives, v)
                   + OneIf(global = v) + OneIf(kept = v) + OneIf(Lent = v) + lost[v]
    BY OwnedIs
  <2>6. /\ LocalsOf(locals, v) \in Nat /\ ArgumentsOf(natives, v) \in Nat
        /\ ResultsOf(natives, v) \in Nat /\ lost[v] \in Nat
    BY OwnersAreTyped DEF Steady
  <2>7. lost'[v] \in Nat
    BY DEF Steady, CountsConstants
  <2> DEFINE r == ArgumentsOf(natives, v) + ResultsOf(natives, v)
                  + OneIf(global = v) + OneIf(kept = v) + OneIf(Lent = v)
  <2>8. r \in Nat
    BY <2>4, <2>6
  <2>9. Owned[v] = LocalsOf(locals, v) + r + lost[v]
    BY <2>4, <2>5, <2>6
  <2>10. Owned'[v] = LocalsOf(locals', v) + r + lost'[v]
    BY <2>1, <2>2, <2>4, <2>6, <2>7
  <2> HIDE DEF r
  <2> QED
    BY <2>1, <2>3, <2>6, <2>7, <2>8, <2>9, <2>10
<1>5. Owned' \in [Counted -> Int]
  <2>1. Owned' = [v \in Counted |-> Owned'[v]]
    BY DEF Owned, OwnedBy
  <2> QED
    BY <1>4, <2>1
<1>6. Good(heap', Owned')
  BY <1>4, <1>5, GoodIsEnough
<1> QED
  BY <1>1, <1>6 DEF CountsKept

PushGives(l, m) == \A v \in Counted : m[v] = Owned[v] + OneIf(l.value = v) + LostMore(v)

LEMMA PushKeeps ==
  ASSUME Steady, UNCHANGED <<holder, natives, global, kept>>, lost' \in [Counted -> 0..MaxLost],
         NEW l \in LocalVariable, l.pointer \in {Nothing, l.value}, PushLocal(l), Room,
         NEW m, Good(heap', m), PushGives(l, m)
  PROVE  CountsKept
<1> DEFINE ms == locals'
<1>1. /\ locals \in Seq(LocalVariable) /\ Len(locals) \in Nat /\ Len(locals) < MaxLocals
      /\ ms = Append(locals, l)
  BY DEF PushLocal, Room, CountsInv, CountsTyped, Steady
<1>2. /\ ms \in Seq(LocalVariable) /\ Len(ms) = Len(locals) + 1
      /\ \A i \in 1..Len(locals) : ms[i] = locals[i]
      /\ ms[Len(ms)] = l
  BY <1>1
<1>3. Len(ms) <= MaxLocals
  BY <1>1, <1>2 DEF CountsConstants, Steady
<1>4. PointersAreOwn'
  BY <1>1, <1>2 DEF PointersAreOwn, CountsInv, Steady
<1> HIDE DEF ms
<1>5. ASSUME NEW v \in Counted
      PROVE  m[v] = (Owned[v] - LocalsOf(locals, v)) + LocalsOf(ms, v) + LostMore(v)
  <2>0. MoreLocals(locals, ms, l.value)
    BY <1>2 DEF MoreLocals
  <2>1. LocalsOf(ms, v) = LocalsOf(locals, v) + OneIf(l.value = v)
    BY <1>1, <2>0, LocalsGrow
  <2>2. m[v] = Owned[v] + OneIf(l.value = v) + LostMore(v)
    BY DEF PushGives
  <2>3. LocalsOf(locals, v) \in Nat /\ Owned[v] \in Nat /\ LostMore(v) \in Int
    BY OwnersAreTyped DEF Steady, LostMore, CountsConstants
  <2>4. OneIf(l.value = v) \in Nat
    BY DEF OneIf
  <2> QED
    BY <2>1, <2>2, <2>3, <2>4
<1> QED
  BY <1>2, <1>3, <1>4, <1>5, LocalsKeep DEF ms

NewIsTyped(l) == l \in LocalVariable /\ l.pointer \in {Nothing, l.value}

LEMMA NewLocalIsTyped ==
  ASSUME CountsConstants, CountsInv, NEW type \in {"Value", "Bytes"}, NEW v \in CountedValue
  PROVE  NewIsTyped(NewLocal(type, v)) /\ NewLocal(type, v).value = v
  BY DEF NewLocal, LocalVariable, NewIsTyped, CountedValue, Depth, CountsInv, CountsTyped, CountsConstants

LEMMA LostIsTyped ==
  ASSUME Steady
  PROVE  /\ lost \in [Counted -> 0..MaxLost] /\ lost \in [Counted -> Nat]
         /\ lost' = lost => \A v \in Counted : LostMore(v) = 0
  BY DEF Steady, CountsInv, CountsTyped, CountsConstants, LostMore

(* Made with the count that its maker receives, or counted.                *)
LEMMA NewKeeps ==
  ASSUME Steady, UNCHANGED <<holder, natives, global, kept, lost>>,
         NEW type \in {"Value", "Bytes"}, NEW v \in CountedValue, PushLocal(NewLocal(type, v)), Room,
         Good(heap', Plus(Owned, v))
  PROVE  CountsKept
<1> DEFINE l == NewLocal(type, v)
           m == Plus(Owned, v)
<1>1. l \in LocalVariable /\ l.pointer \in {Nothing, l.value} /\ l.value = v
  BY NewLocalIsTyped DEF NewIsTyped, Steady
<1>2. PushLocal(l) /\ Good(heap', m)
  OBVIOUS
<1>3. lost' \in [Counted -> 0..MaxLost]
  BY LostIsTyped
<1>4. \A u \in Counted : LostMore(u) = 0 /\ Owned[u] \in Nat
  BY LostIsTyped, OwnersAreTyped DEF Steady
<1>5. \A u \in Counted : m[u] = Owned[u] + OneIf(v = u)
  BY DEF Plus
<1> HIDE DEF l, m
<1>6. PushGives(l, m)
  BY <1>1, <1>4, <1>5 DEF PushGives, OneIf
<1> QED
  BY <1>1, <1>2, <1>3, <1>6, PushKeeps

(* One Local has another value.                                            *)
UpdateGives(u, w, m) ==
  \A v \in Counted : m[v] = (Owned[v] - OneIf(u = v)) + OneIf(w = v) + LostMore(v)

LEMMA UpdateKeeps ==
  ASSUME Steady, UNCHANGED <<holder, natives, global, kept>>, lost' \in [Counted -> 0..MaxLost],
         locals' \in Seq(LocalVariable), PointersAreOwn',
         NEW i, NEW u, NEW w, OneLocal(locals, locals', i, u, w),
         NEW m, Good(heap', m), UpdateGives(u, w, m)
  PROVE  CountsKept
<1>1. Len(locals) \in Nat /\ Len(locals) <= MaxLocals
  BY DEF CountsInv, CountsTyped, Steady
<1>2. Len(locals') <= MaxLocals
  BY <1>1 DEF OneLocal
<1>3. ASSUME NEW v \in Counted
      PROVE  m[v] = (Owned[v] - LocalsOf(locals, v)) + LocalsOf(locals', v) + LostMore(v)
  <2>1. LocalsOf(locals', v) = (LocalsOf(locals, v) - OneIf(u = v)) + OneIf(w = v)
    BY <1>1, LocalsUpdated
  <2>2. m[v] = (Owned[v] - OneIf(u = v)) + OneIf(w = v) + LostMore(v)
    BY DEF UpdateGives
  <2>3. LocalsOf(locals, v) \in Nat /\ Owned[v] \in Nat /\ LostMore(v) \in Int
    BY OwnersAreTyped DEF Steady, LostMore, CountsConstants
  <2>4. OneIf(u = v) \in Nat /\ OneIf(w = v) \in Nat
    BY DEF OneIf
  <2> QED
    BY <2>1, <2>2, <2>3, <2>4
<1> QED
  BY <1>2, <1>3, LocalsKeep

(* What changes neither.                                                   *)
LEMMA OthersKeep ==
  ASSUME Steady, UNCHANGED <<locals, natives, lost>>,
         holder' \in [value : CountedStrings \cup {Nothing}, depth : 0..MaxCalls],
         global' \in CountedValue, kept' \in CountedValue,
         NEW m, Good(heap', m),
         \A v \in Counted :
           m[v] = (((((Owned[v] - OneIf(global = v)) - OneIf(kept = v)) - OneIf(Lent = v))
                    + OneIf(global' = v)) + OneIf(kept' = v)) + OneIf(Lent' = v)
  PROVE  CountsKept
<1>1. CountsTyped' /\ NoResultYet' /\ PointersAreOwn'
  BY DEF Steady, CountsInv, CountsTyped, NoResultYet, PointersAreOwn
<1>4. ASSUME NEW v \in Counted PROVE Owned'[v] = m[v] /\ m[v] \in Int
  <2>2. Owned'[v] = LocalsOf(locals, v) + ArgumentsOf(natives, v) + ResultsOf(natives, v)
                    + OneIf(global' = v) + OneIf(kept' = v) + OneIf(Lent' = v) + lost[v]
    BY OwnedIsAfter
  <2>4. /\ OneIf(global = v) \in Nat /\ OneIf(kept = v) \in Nat /\ OneIf(Lent = v) \in Nat
        /\ OneIf(global' = v) \in Nat /\ OneIf(kept' = v) \in Nat /\ OneIf(Lent' = v) \in Nat
    BY DEF OneIf
  <2>5. Owned[v] = LocalsOf(locals, v) + ArgumentsOf(natives, v) + ResultsOf(natives, v)
                   + OneIf(global = v) + OneIf(kept = v) + OneIf(Lent = v) + lost[v]
    BY OwnedIs
  <2>6. /\ LocalsOf(locals, v) \in Nat /\ ArgumentsOf(natives, v) \in Nat
        /\ ResultsOf(natives, v) \in Nat /\ lost[v] \in Nat
    BY OwnersAreTyped DEF Steady
  <2> QED
    BY <2>2, <2>4, <2>5, <2>6
<1>5. Owned' \in [Counted -> Int]
  <2>1. Owned' = [v \in Counted |-> Owned'[v]]
    BY DEF Owned, OwnedBy
  <2> QED
    BY <1>4, <2>1
<1>6. Good(heap', Owned')
  BY <1>4, <1>5, GoodIsEnough
<1> QED
  BY <1>1, <1>6 DEF CountsKept

-----------------------------------------------------------------------------
(* What the expressions of several actions do to a heap.                   *)

LEMMA GoodIsTyped ==
  ASSUME NEW h, NEW n, Good(h, n)
  PROVE  h \in Heaps /\ n \in [Counted -> Nat] /\ \A v \in Counted : n[v] \in Nat
  BY DEF Good

LEMMA PlusIs ==
  ASSUME NEW n \in [Counted -> Nat], NEW w
  PROVE  /\ Plus(n, w) \in [Counted -> Nat]
         /\ \A v \in Counted : /\ Plus(n, w)[v] = n[v] + OneIf(w = v)
                               /\ n[v] <= Plus(n, w)[v]
         /\ w \in Counted => Plus(n, w)[w] > 0
  BY DEF Plus, OneIf

LEMMA MinusIs ==
  ASSUME NEW n \in [Counted -> Nat], NEW w
  PROVE  /\ Minus(n, w) \in [Counted -> Int]
         /\ \A v \in Counted : Minus(n, w)[v] = n[v] - OneIf(w = v)
  BY DEF Minus, OneIf

LEMMA MinusOfPlus ==
  ASSUME CountsConstants, NEW h, NEW n \in [Counted -> Nat], NEW w, Good(h, Minus(Plus(n, w), w))
  PROVE  Good(h, n)
<1>1. \A v \in Counted : Minus(Plus(n, w), w)[v] = n[v]
  BY DEF Minus, Plus, OneIf
<1>2. n \in [Counted -> Int]
  OBVIOUS
<1> QED
  BY <1>1, <1>2, GoodIsEnough

LEMMA StillAlive ==
  ASSUME NEW h \in Heaps, NEW v \in CountedValue, NEW u \in CountedValue, Alive(h, u)
  PROVE  Alive(Inc(h, v), u)
  BY IncIs DEF Alive, Heaps, CountedValue, Inc

(* What is assigned to a slot is counted first.                            *)
LEMMA StoreGood ==
  ASSUME CountsConstants, NEW h, NEW n, Good(h, n), NEW v \in CountedValue, Alive(h, v),
         NEW slot \in Fields
  PROVE  Good(PutEntry(Inc(h, v), slot, v), n)
<1>1. Good(Inc(h, v), Plus(n, v))
  BY IncGood
<1>2. n \in [Counted -> Nat]
  BY GoodIsTyped
<1>3. v # Nothing => Plus(n, v)[v] > 0
  BY <1>2, PlusIs DEF CountedValue
<1>4. Good(PutEntry(Inc(h, v), slot, v), Minus(Plus(n, v), v))
  BY <1>1, <1>3, PutGood
<1> QED
  BY <1>2, <1>4, MinusOfPlus

(* What is counted and given back.                                         *)
LEMMA LendGood ==
  ASSUME CountsConstants, NEW h, NEW n, Good(h, n), NEW v \in CountedValue, Alive(h, v)
  PROVE  /\ Good(Dec(Inc(h, v), v), n)
         /\ \A u \in Counted : u # v /\ h.counts[u] = 0 => Dec(Inc(h, v), v).counts[u] = 0
<1>1. Good(Inc(h, v), Plus(n, v))
  BY IncGood
<1>2. n \in [Counted -> Nat] /\ h \in Heaps
  BY GoodIsTyped
<1>3. v # Nothing => Plus(n, v)[v] > 0
  BY <1>2, PlusIs DEF CountedValue
<1>4. /\ Good(Dec(Inc(h, v), v), Minus(Plus(n, v), v))
      /\ \A u \in Counted : Dec(Inc(h, v), v).counts[u] <= Inc(h, v).counts[u]
  BY <1>1, <1>3, DecGood
<1>5. Good(Dec(Inc(h, v), v), n)
  BY <1>2, <1>4, MinusOfPlus
<1>6. ASSUME NEW u \in Counted, u # v, h.counts[u] = 0 PROVE Dec(Inc(h, v), v).counts[u] = 0
  <2>1. Inc(h, v).counts[u] = 0
    BY <1>2, <1>6, IncIs
  <2>2. Dec(Inc(h, v), v).counts[u] \in Nat
    BY <1>5, GoodIsAlive
  <2> QED
    BY <1>4, <2>1, <2>2
<1> QED
  BY <1>5, <1>6

LEMMA HeldIsCounted ==
  ASSUME CountsConstants, CountsInv, NEW v, IsHeld(v)
  PROVE  Good(Inc(heap, v), Plus(Owned, v)) /\ v \in CountedValue /\ Alive(heap, v)
<1>1. v \in CountedValue /\ Alive(heap, v)
  BY DEF IsHeld
<1> QED
  BY <1>1, IncGood DEF CountsInv

-----------------------------------------------------------------------------
(* The actions that make a Local.                                          *)

OthersStay == UNCHANGED <<holder, natives, global, kept, lost>>

LEMMA MadeIsNew ==
  ASSUME Steady, OthersStay, Room, NEW type \in {"Value", "Bytes"}, NEW v \in Counted,
         Unused(v), heap' = MadeValue(heap, v), PushLocal(NewLocal(type, v))
  PROVE  CountsKept
<1>1. Good(heap, Owned) /\ heap.counts[v] = 0 /\ v \in CountedValue
  BY DEF Steady, CountsInv, Unused, CountedValue
<1>2. Good(heap', Plus(Owned, v))
  BY <1>1, MadeGood DEF Steady
<1> QED
  BY <1>1, <1>2, NewKeeps DEF OthersStay

LEMMA NewInv == ASSUME Steady, Room, NEW v \in Counted, New(v) PROVE CountsKept
  BY MadeIsNew DEF New, OthersStay

LEMMA NewByteBufferInv == ASSUME Steady, Room, NEW v \in Counted, NewByteBuffer(v) PROVE CountsKept
  BY MadeIsNew DEF NewByteBuffer, OthersStay

LEMMA CountedIsNew ==
  ASSUME Steady, OthersStay, Room, NEW type \in {"Value", "Bytes"}, NEW v \in CountedValue,
         Alive(heap, v), heap' = Inc(heap, v), PushLocal(NewLocal(type, v))
  PROVE  CountsKept
<1>1. Good(heap', Plus(Owned, v))
  BY IncGood DEF Steady, CountsInv
<1> QED
  BY <1>1, NewKeeps DEF OthersStay

OwnIndex(i) == i \in 1..Len(locals)
LEMMA OwnIsIndex == ASSUME NEW i \in Own PROVE OwnIndex(i)
  BY DEF Own, OwnIndex

LEMMA AsInv ==
  ASSUME Steady, Room, NEW i, OwnIndex(i), NEW type \in {"Value", "Bytes"}, As(i, type)
  PROVE  CountsKept
<1>1. locals[i].value \in CountedValue /\ Alive(heap, locals[i].value)
  BY LocalIsHeld DEF OwnIndex, Steady, IsHeld
<1> QED
  BY <1>1, CountedIsNew DEF As, OthersStay

LEMMA GlobalGetInv == ASSUME Steady, Room, GlobalGet PROVE CountsKept
<1>1. global \in CountedValue /\ Alive(heap, global)
  BY OthersAreHeld DEF Steady, IsHeld
<1>2. TypeOf(global) \in {"Value", "Bytes"}
  BY DEF TypeOf
<1> QED
  BY <1>1, <1>2, CountedIsNew DEF GlobalGet, OthersStay

LEMMA ContainersAreFields == Containers \subseteq Fields
  BY DEF Containers, Fields

LEMMA GetInv == ASSUME Steady, Room, NEW slot \in Fields, GetEntry(slot) PROVE CountsKept
<1>1. heap.entries[slot] \in CountedValue /\ Alive(heap, heap.entries[slot])
  BY EntryIsAlive DEF Steady
<1> QED
  BY <1>1, CountedIsNew DEF GetEntry, OthersStay

LEMMA GetScriptObjectInv ==
  ASSUME Steady, Room, NEW c \in PlainObjects, GetScriptObject(c) PROVE CountsKept
<1>1. c \in Counted /\ c \in CountedValue
  BY DEF PlainObjects, CountedValue
<1>2. heap.counts[c] \in Nat
  BY <1>1, GoodIsAlive DEF Steady, CountsInv
<1>3. Alive(heap, c)
  BY <1>2 DEF GetScriptObject, Unused, Alive
<1> QED
  BY <1>1, <1>3, CountedIsNew DEF GetScriptObject, OthersStay

LEMMA ArgumentInv == ASSUME Steady, Room, Argument PROVE CountsKept
<1>1. Depth \in 1..Len(natives)
  BY DEF Depth, Argument, Steady, CountsInv, CountsTyped
<1>2. natives[Depth].argument \in CountedValue /\ Alive(heap, natives[Depth].argument)
  BY <1>1, FrameIsHeld DEF Steady, IsHeld
<1> QED
  BY <1>2, CountedIsNew DEF Argument, OthersStay

LEMMA NewArrayInv ==
  ASSUME Steady, Room, NEW a \in CountedArrays, NEW i, OwnIndex(i), locals[i].value # a, NewArray(a, i)
  PROVE  CountsKept
<1> DEFINE v == locals[i].value
           h == MadeValue(heap, a)
           n == Plus(Owned, a)
<1>1. a \in Counted /\ a \in CountedValue /\ <<a, "x">> \in Fields /\ heap.counts[a] = 0
  BY DEF Steady, CountsConstants, CountedValue, Fields, NewArray, Unused
<1>2. v \in CountedValue /\ Alive(heap, v) /\ v # a
  BY LocalIsHeld DEF OwnIndex, Steady, IsHeld
<1>3. Good(h, n)
  BY <1>1, MadeGood DEF Steady, CountsInv
<1>4. Alive(h, v)
  BY <1>1, <1>2 DEF Alive, MadeValue, Steady, CountsInv, Good, Heaps, CountedValue
<1>5. heap' = PutEntry(Inc(h, v), <<a, "x">>, v) /\ PushLocal(NewLocal("Value", a)) /\ OthersStay
  BY DEF NewArray, OthersStay
<1> HIDE DEF v, h
<1>6. Good(heap', n)
  BY <1>1, <1>2, <1>3, <1>4, <1>5, StoreGood DEF Steady
<1> QED
  BY <1>1, <1>5, <1>6, NewKeeps DEF OthersStay

(* The function gets v, which it may store, and lends what it returns.     *)
LEMMA CallScriptInv ==
  ASSUME Steady, Room, NEW i, OwnIndex(i), NEW stores \in BOOLEAN, NEW slot \in Fields,
         slot = <<Root, "x">>, CallScript(i, stores, slot)
  PROVE  CountsKept
<1> DEFINE v      == locals[i].value
           passed == Passed(heap, v)
           stored == IF stores THEN PutEntry(Inc(passed, v), slot, v) ELSE passed
           result == stored.entries[slot]
           n      == IF backend = "Python" THEN Plus(Owned, v) ELSE Owned
           last   == Inc(stored, result)
<1>1. v \in CountedValue /\ Alive(heap, v) /\ Good(heap, Owned) /\ Good(Inc(heap, v), Plus(Owned, v))
  BY LocalIsHeld, HeldIsCounted DEF OwnIndex, Steady, CountsInv
<1>2. Owned \in [Counted -> Nat] /\ heap \in Heaps
  BY <1>1, GoodIsTyped
<1>3. Good(passed, n) /\ Alive(passed, v)
  <2>1. Alive(Inc(heap, v), v)
    BY <1>1, <1>2, StillAlive
  <2> QED
    BY <1>1, <2>1 DEF Passed
<1> HIDE DEF passed
<1>4. Good(stored, n)
  <2>1. Good(PutEntry(Inc(passed, v), slot, v), n)
    BY <1>1, <1>3, StoreGood DEF Steady
  <2> QED
    BY <1>3, <2>1
<1>5. heap' = TakenBack(last, v) /\ PushLocal(NewLocal("Value", result)) /\ OthersStay
  BY <1>3 DEF CallScript, OthersStay, passed
<1> HIDE DEF stored
<1>6. result \in CountedValue /\ Alive(stored, result)
  BY <1>4, GoodIsAlive DEF Steady
<1> HIDE DEF result, v, n
<1>7. Good(last, Plus(n, result))
  BY <1>4, <1>6, IncGood DEF Steady
<1>8. n \in [Counted -> Nat]
  BY <1>4, GoodIsTyped
<1> HIDE DEF last
<1>9. Good(heap', Plus(Owned, result))
  <2>1. CASE backend # "Python"
    BY <1>5, <1>7, <2>1 DEF TakenBack, n
  <2>2. CASE backend = "Python"
    <3>1. heap' = Dec(last, v) /\ n = Plus(Owned, v)
      BY <1>5, <2>2 DEF TakenBack, n
    <3> DEFINE m == Plus(n, result)
    <3>2. m \in [Counted -> Nat] /\ \A u \in Counted : m[u] = n[u] + OneIf(result = u)
      BY <1>8, PlusIs
    <3>3. \A u \in Counted : n[u] = Owned[u] + OneIf(v = u)
      BY <1>2, <3>1, PlusIs
    <3>4. v # Nothing => m[v] > 0
      <4>1. v # Nothing => v \in Counted /\ n[v] > 0
        BY <1>1, <1>2, <3>1, PlusIs DEF CountedValue
      <4> QED
        BY <4>1, <3>2, <1>8 DEF OneIf
    <3> HIDE DEF m
    <3>5. Good(Dec(last, v), Minus(m, v))
      BY <1>1, <1>7, <3>4, DecGood DEF Steady, m
    <3>6. \A u \in Counted : Minus(m, v)[u] = m[u] - OneIf(v = u)
      BY <3>2, MinusIs
    <3>7. Plus(Owned, result) \in [Counted -> Int]
          /\ \A u \in Counted : Plus(Owned, result)[u] = Owned[u] + OneIf(result = u)
      BY <1>2, PlusIs
    <3>8. \A u \in Counted : Plus(Owned, result)[u] = Minus(m, v)[u]
      <4> SUFFICES ASSUME NEW u \in Counted PROVE Plus(Owned, result)[u] = Minus(m, v)[u]
        OBVIOUS
      <4>1. Owned[u] \in Nat
        BY <1>2
      <4> QED
        BY <3>2, <3>3, <3>6, <3>7, <4>1 DEF OneIf
    <3>9. Good(Dec(last, v), Plus(Owned, result))
      BY <3>5, <3>7, <3>8, GoodIsEnough
    <3> QED
      BY <3>1, <3>9
  <2> QED
    BY <2>1, <2>2
<1> QED
  BY <1>5, <1>6, <1>9, NewKeeps DEF OthersStay

(* A copied Local: its own count, and that of a ByteBufferState.           *)
CopyGives(v, m) == \A u \in Counted : m[u] = Owned[u] + OneIf(v = u) + LostMore(u)

LEMMA CopiedGood ==
  ASSUME Steady, NEW l \in LocalVariable, IsHeld(l.value), Loses(l)
  PROVE  /\ lost' \in [Counted -> 0..MaxLost]
         /\ \E m \in [Counted -> Nat] : Good(Copied(heap, l), m) /\ CopyGives(l.value, m)
<1> DEFINE v == l.value
<1>1. /\ Good(Inc(heap, v), Plus(Owned, v)) /\ v \in CountedValue /\ Alive(heap, v)
      /\ Owned \in [Counted -> Nat] /\ heap \in Heaps
  BY HeldIsCounted, GoodIsTyped DEF Steady, CountsInv
<1>2. Plus(Owned, v) \in [Counted -> Nat]
      /\ \A u \in Counted : Plus(Owned, v)[u] = Owned[u] + OneIf(v = u)
  BY <1>1, PlusIs
<1>3. lost \in [Counted -> 0..MaxLost] /\ lost \in [Counted -> Nat] /\ MaxLost \in Nat
  BY LostIsTyped DEF Steady, CountsConstants
<1>4. CASE ~Twice(l)
  <2>1. lost' = lost
    BY <1>4 DEF Loses
  <2>2. \A u \in Counted : LostMore(u) = 0
    BY <2>1, LostIsTyped
  <2>3. Good(Copied(heap, l), Plus(Owned, v))
    <3>1. CASE v = Nothing
      BY <1>1, <3>1 DEF Copied, QjsCopied, StateCopied, PyCopied, Inc
    <3>2. CASE v # Nothing
      BY <1>1, <1>4, <3>2 DEF Twice, Copied, QjsCopied, StateCopied, PyCopied
    <3> QED
      BY <3>1, <3>2
  <2>4. CopyGives(v, Plus(Owned, v))
    BY <1>1, <1>2, <2>2 DEF CopyGives, OneIf
  <2> QED
    BY <1>2, <1>3, <2>1, <2>3, <2>4
<1>5. CASE Twice(l)
  <2>1. v \in Counted /\ backend = "QuickJs" /\ l.type = "Bytes" /\ lost[v] < MaxLost
        /\ lost' = [lost EXCEPT ![v] = @ + 1]
    BY <1>1, <1>5 DEF Twice, Loses, CountedValue
  <2>2. lost' \in [Counted -> 0..MaxLost] /\ \A u \in Counted : LostMore(u) = OneIf(v = u)
    BY <1>3, <2>1 DEF LostMore, OneIf
  <2> DEFINE n == Plus(Owned, v)
             m == Plus(n, v)
  <2>3. Copied(heap, l) = Inc(Inc(heap, v), v)
    BY <2>1 DEF Copied, QjsCopied, StateCopied
  <2>4. Alive(Inc(heap, v), v)
    BY <1>1, StillAlive
  <2>5. Good(Inc(Inc(heap, v), v), m)
    BY <1>1, <2>4, IncGood DEF Steady
  <2>6. m \in [Counted -> Nat] /\ \A u \in Counted : m[u] = n[u] + OneIf(v = u)
    BY <1>2, PlusIs
  <2> HIDE DEF n, m, v
  <2>7. CopyGives(v, m)
    BY <1>1, <1>2, <2>2, <2>6 DEF CopyGives, OneIf, n
  <2> QED
    BY <2>2, <2>3, <2>5, <2>6, <2>7 DEF v
<1> QED
  BY <1>4, <1>5

LEMMA CopyLocalInv ==
  ASSUME Steady, Room, NEW i, OwnIndex(i), CopyLocal(i) PROVE CountsKept
<1> DEFINE l == [locals[i] EXCEPT !.depth = Depth]
<1>1. IsHeld(locals[i].value) /\ locals[i] \in LocalVariable
  BY LocalIsHeld DEF OwnIndex, Steady
<1>2. lost' \in [Counted -> 0..MaxLost]
  BY <1>1, CopiedGood DEF CopyLocal
<1>3. PICK m \in [Counted -> Nat] : Good(heap', m) /\ CopyGives(locals[i].value, m)
  BY <1>1, CopiedGood DEF CopyLocal
<1>4. Depth \in 0..MaxCalls
  BY DEF Depth, Steady, CountsInv, CountsTyped, CountsConstants
<1>5. l \in LocalVariable /\ l.value = locals[i].value /\ l.pointer = locals[i].pointer
  BY <1>1, <1>4 DEF LocalVariable
<1>6. l.pointer \in {Nothing, l.value}
  BY <1>5 DEF OwnIndex, Steady, CountsInv, PointersAreOwn
<1>7. PushLocal(l) /\ UNCHANGED <<holder, natives, global, kept>>
  BY DEF CopyLocal
<1> HIDE DEF l
<1>8. PushGives(l, m)
  BY <1>3, <1>5 DEF PushGives, CopyGives
<1> QED
  BY <1>2, <1>3, <1>5, <1>6, <1>7, <1>8, PushKeeps

-----------------------------------------------------------------------------
(* The actions that change a Local.                                        *)

OwnPointers(ls) == \A i \in 1..Len(ls) : ls[i].pointer \in {Nothing, ls[i].value}
LocalList(ls) == ls \in Seq(LocalVariable) /\ OwnPointers(ls)

LEMMA SetIsOne ==
  ASSUME NEW ls, LocalList(ls), NEW i \in 1..Len(ls), NEW l, NewIsTyped(l)
  PROVE  LET ms == [ls EXCEPT ![i] = l]
         IN  /\ LocalList(ms) /\ Len(ms) = Len(ls) /\ ms[i] = l
             /\ SameBut(Len(ls), i, ls, ms)
             /\ OneLocal(ls, ms, i, ls[i].value, l.value)
<1> DEFINE ms == [ls EXCEPT ![i] = l]
<1>1. ls \in Seq(LocalVariable) /\ Len(ls) \in Nat /\ l \in LocalVariable
      /\ l.pointer \in {Nothing, l.value} /\ OwnPointers(ls)
  BY DEF LocalList, NewIsTyped
<1>2. ms \in Seq(LocalVariable) /\ Len(ms) = Len(ls) /\ ms[i] = l
      /\ \A j \in 1..Len(ls) : j # i => ms[j] = ls[j]
  BY <1>1
<1> HIDE DEF ms
<1>3. OwnPointers(ms)
  BY <1>1, <1>2 DEF OwnPointers
<1>4. SameBut(Len(ls), i, ls, ms) /\ OneLocal(ls, ms, i, ls[i].value, l.value)
  BY <1>2 DEF SameBut, OneLocal
<1> QED
  BY <1>2, <1>3, <1>4 DEF ms, LocalList

LEMMA LocalsAreList ==
  ASSUME Steady
  PROVE  /\ LocalList(locals) /\ Len(locals) \in Nat /\ Len(locals) <= MaxLocals
<1>1. locals \in Seq(LocalVariable) /\ Len(locals) <= MaxLocals /\ PointersAreOwn
  BY DEF Steady, CountsInv, CountsTyped
<1> QED
  BY <1>1 DEF LocalList, OwnPointers, PointersAreOwn

LEMMA ListsAreTyped ==
  ASSUME LocalList(locals')
  PROVE  locals' \in Seq(LocalVariable) /\ PointersAreOwn'
  BY DEF LocalList, OwnPointers, PointersAreOwn

LEMMA EmptiedIsTyped ==
  ASSUME NEW l \in LocalVariable
  PROVE  NewIsTyped(Emptied(l)) /\ Emptied(l).value = Nothing
  BY DEF Emptied, LocalVariable, NewIsTyped, CountedValue

LEMMA LocalIsTyped ==
  ASSUME Steady, NEW i, OwnIndex(i)
  PROVE  /\ locals[i] \in LocalVariable /\ NewIsTyped(locals[i]) /\ i \in 1..Len(locals)
         /\ locals[i].value \in CountedValue /\ locals[i].pointer \in CountedValue
         /\ IsHeld(locals[i].value)
<1>1. locals[i] \in LocalVariable /\ i \in 1..Len(locals) /\ IsHeld(locals[i].value)
  BY LocalIsHeld DEF OwnIndex, Steady
<1>2. locals[i].pointer \in {Nothing, locals[i].value}
  BY <1>1 DEF Steady, CountsInv, PointersAreOwn
<1>3. locals[i].value \in CountedValue /\ locals[i].pointer \in CountedValue
  BY <1>1 DEF LocalVariable
<1> QED
  BY <1>1, <1>2, <1>3 DEF NewIsTyped

(* One Local has another value.                                            *)
LEMMA SetKeeps ==
  ASSUME Steady, UNCHANGED <<holder, natives, global, kept>>, lost' \in [Counted -> 0..MaxLost],
         NEW i, OwnIndex(i), NEW l, NewIsTyped(l), locals' = [locals EXCEPT ![i] = l],
         NEW m, Good(heap', m), UpdateGives(locals[i].value, l.value, m)
  PROVE  CountsKept
<1>1. i \in 1..Len(locals) /\ LocalList(locals)
  BY LocalIsTyped, LocalsAreList
<1>2. LocalList(locals') /\ OneLocal(locals, locals', i, locals[i].value, l.value)
  BY <1>1, SetIsOne
<1>3. locals' \in Seq(LocalVariable) /\ PointersAreOwn'
  BY <1>2, ListsAreTyped
<1> QED
  BY <1>2, <1>3, UpdateKeeps

LEMMA GivenBackIsGood ==
  ASSUME Steady, NEW v, IsHeld(v)
  PROVE  /\ Good(Dec(heap, v), Minus(Owned, v)) /\ Minus(Owned, v) \in [Counted -> Nat]
         /\ \A u \in Counted : Minus(Owned, v)[u] = Owned[u] - OneIf(v = u)
<1>1. Good(heap, Owned) /\ v \in CountedValue /\ (v # Nothing => Owned[v] > 0)
  BY DEF Steady, CountsInv, IsHeld
<1>2. Good(Dec(heap, v), Minus(Owned, v))
  BY <1>1, DecGood DEF Steady
<1> QED
  BY <1>1, <1>2, GoodIsTyped, MinusIs

LEMMA EmptyKeeps ==
  ASSUME Steady, UNCHANGED <<holder, natives, global, kept, lost>>, NEW i, OwnIndex(i),
         heap' = Dec(heap, locals[i].value), locals' = [locals EXCEPT ![i] = Emptied(@)]
  PROVE  CountsKept
<1> DEFINE v == locals[i].value
           m == Minus(Owned, v)
           l == Emptied(locals[i])
<1>1. IsHeld(v) /\ locals[i] \in LocalVariable
  BY LocalIsTyped
<1>2. NewIsTyped(l) /\ l.value = Nothing /\ locals' = [locals EXCEPT ![i] = l]
  BY <1>1, EmptiedIsTyped
<1>3. Good(heap', m) /\ \A u \in Counted : m[u] = Owned[u] - OneIf(v = u)
  BY <1>1, GivenBackIsGood
<1>4. lost' \in [Counted -> 0..MaxLost] /\ \A u \in Counted : LostMore(u) = 0 /\ Owned[u] \in Nat
  BY LostIsTyped, OwnersAreTyped DEF Steady
<1> HIDE DEF m, l
<1>5. UpdateGives(v, l.value, m)
  BY <1>2, <1>3, <1>4 DEF UpdateGives, OneIf, Steady, CountsConstants
<1> QED
  BY <1>2, <1>3, <1>4, <1>5, SetKeeps

LEMMA ResetInv == ASSUME Steady, NEW i, OwnIndex(i), Reset(i) PROVE CountsKept
  BY EmptyKeeps DEF Reset

LEMMA FillTypeAndSizeInv ==
  ASSUME Steady, NEW i, OwnIndex(i), FillTypeAndSize(i) PROVE CountsKept
<1> DEFINE l == [locals[i] EXCEPT !.pointer = locals[i].value]
<1>1. /\ locals' = [locals EXCEPT ![i] = l]
      /\ UNCHANGED <<heap, holder, natives, global, kept, lost>>
  BY DEF FillTypeAndSize
<1>2. NewIsTyped(l) /\ l.value = locals[i].value
  BY LocalIsTyped DEF NewIsTyped, LocalVariable
<1> HIDE DEF l
<1>3. lost' \in [Counted -> 0..MaxLost] /\ \A u \in Counted : LostMore(u) = 0 /\ Owned[u] \in Nat
  BY <1>1, LostIsTyped, OwnersAreTyped DEF Steady
<1>4. UpdateGives(locals[i].value, l.value, Owned)
  BY <1>2, <1>3 DEF UpdateGives, OneIf
<1>5. Good(heap', Owned)
  BY <1>1 DEF Steady, CountsInv
<1> QED
  BY <1>1, <1>2, <1>3, <1>4, <1>5, SetKeeps

(* Two Locals have other values.                                           *)
BothGive(i, k, l, j, m) == \A v \in Counted :
  m[v] = (((Owned[v] - OneIf(locals[i].value = v)) - OneIf(locals[j].value = v))
          + OneIf(k.value = v)) + OneIf(l.value = v)

LEMMA SetBothKeeps ==
  ASSUME Steady, UNCHANGED <<holder, natives, global, kept, lost>>,
         NEW i, OwnIndex(i), NEW j, OwnIndex(j), i # j,
         NEW k, NewIsTyped(k), NEW l, NewIsTyped(l),
         locals' = [[locals EXCEPT ![i] = k] EXCEPT ![j] = l],
         NEW m, Good(heap', m), BothGive(i, k, l, j, m)
  PROVE  CountsKept
<1> DEFINE ms == [locals EXCEPT ![i] = k]
<1>1. i \in 1..Len(locals) /\ j \in 1..Len(locals) /\ LocalList(locals)
      /\ Len(locals) \in Nat /\ Len(locals) <= MaxLocals
  BY LocalIsTyped, LocalsAreList
<1>2. /\ LocalList(ms) /\ Len(ms) = Len(locals) /\ SameBut(Len(locals), i, locals, ms)
      /\ OneLocal(locals, ms, i, locals[i].value, k.value)
  BY <1>1, SetIsOne
<1>3. ms[j] = locals[j]
  BY <1>1, <1>2 DEF SameBut
<1> HIDE DEF ms
<1>4. locals' = [ms EXCEPT ![j] = l] /\ j \in 1..Len(ms)
  BY <1>1, <1>2 DEF ms
<1> DEFINE ps == [ms EXCEPT ![j] = l]
<1>5. /\ LocalList(ps) /\ Len(ps) = Len(ms)
      /\ OneLocal(ms, ps, j, ms[j].value, l.value)
  BY <1>2, <1>4, SetIsOne
<1>6. /\ LocalList(locals') /\ Len(locals') = Len(ms)
      /\ OneLocal(ms, locals', j, ms[j].value, l.value)
  BY <1>4, <1>5
<1>7. locals' \in Seq(LocalVariable) /\ PointersAreOwn' /\ Len(locals') <= MaxLocals
  BY <1>1, <1>2, <1>6, ListsAreTyped
<1>8. lost' \in [Counted -> 0..MaxLost] /\ \A u \in Counted : LostMore(u) = 0
  BY LostIsTyped
<1>9. ASSUME NEW v \in Counted
      PROVE  m[v] = (Owned[v] - LocalsOf(locals, v)) + LocalsOf(locals', v) + LostMore(v)
  <2>1. LocalsOf(ms, v) = (LocalsOf(locals, v) - OneIf(locals[i].value = v)) + OneIf(k.value = v)
    BY <1>1, <1>2, LocalsUpdated
  <2>2. Len(ms) \in Nat
    BY <1>1, <1>2
  <2>3. LocalsOf(locals', v) = (LocalsOf(ms, v) - OneIf(ms[j].value = v)) + OneIf(l.value = v)
    BY <1>6, <2>2, LocalsUpdated
  <2>4. ms[j].value = locals[j].value
    BY <1>3
  <2>5. LocalsOf(locals, v) \in Nat /\ Owned[v] \in Nat /\ LostMore(v) = 0
    BY <1>8, OwnersAreTyped DEF Steady
  <2>6. m[v] = (((Owned[v] - OneIf(locals[i].value = v)) - OneIf(locals[j].value = v))
                + OneIf(k.value = v)) + OneIf(l.value = v)
    BY DEF BothGive
  <2>7. /\ OneIf(locals[i].value = v) \in Nat /\ OneIf(locals[j].value = v) \in Nat
        /\ OneIf(k.value = v) \in Nat /\ OneIf(l.value = v) \in Nat
    BY DEF OneIf
  <2> QED
    BY <2>1, <2>3, <2>4, <2>5, <2>6, <2>7
<1> QED
  BY <1>7, <1>8, <1>9, LocalsKeep

LEMMA SwapInv ==
  ASSUME Steady, NEW i, OwnIndex(i), NEW j, OwnIndex(j), Swap(i, j) PROVE CountsKept
<1>1. /\ locals' = [[locals EXCEPT ![i] = locals[j]] EXCEPT ![j] = locals[i]]
      /\ UNCHANGED <<heap, holder, natives, global, kept, lost>>
  BY DEF Swap
<1>2. NewIsTyped(locals[i]) /\ NewIsTyped(locals[j])
  BY LocalIsTyped
<1>3. Good(heap', Owned) /\ \A u \in Counted : Owned[u] \in Nat
  BY <1>1, OwnersAreTyped DEF Steady, CountsInv
<1>4. CASE i # j
  <2>1. BothGive(i, locals[j], locals[i], j, Owned)
    BY <1>3 DEF BothGive, OneIf
  <2> QED
    BY <1>1, <1>2, <1>3, <1>4, <2>1, SetBothKeeps
<1>5. CASE i = j
  <2>1. locals' = [locals EXCEPT ![i] = locals[i]]
    BY <1>1, <1>5
  <2>2. lost' \in [Counted -> 0..MaxLost] /\ \A u \in Counted : LostMore(u) = 0
    BY <1>1, LostIsTyped
  <2>3. UpdateGives(locals[i].value, locals[i].value, Owned)
    BY <1>3, <2>2 DEF UpdateGives, OneIf
  <2> QED
    BY <1>1, <1>2, <1>3, <2>1, <2>2, <2>3, SetKeeps
<1> QED
  BY <1>4, <1>5

LEMMA NothingIsLost ==
  ASSUME Steady, lost' = lost
  PROVE  /\ lost' \in [Counted -> 0..MaxLost]
         /\ \A u \in Counted : LostMore(u) = 0 /\ Owned[u] \in Nat /\ u # Nothing
         /\ Good(heap, Owned)
  BY LostIsTyped, OwnersAreTyped DEF Steady, CountsConstants, CountsInv

LEMMA MoveLocalInv ==
  ASSUME Steady, Room, NEW i, OwnIndex(i), MoveLocal(i) PROVE CountsKept
<1> DEFINE k == Emptied(locals[i])
           ms == [locals EXCEPT ![i] = k]
           l == locals[i]
           ps == Append(ms, l)
<1>1. /\ locals' = ps /\ UNCHANGED <<heap, holder, natives, global, kept, lost>>
  BY DEF MoveLocal
<1>2. i \in 1..Len(locals) /\ LocalList(locals) /\ Len(locals) \in Nat /\ Len(locals) < MaxLocals
      /\ l \in LocalVariable /\ NewIsTyped(l) /\ MaxLocals \in Nat
  BY LocalIsTyped, LocalsAreList DEF Room, Steady, CountsConstants
<1>3. NewIsTyped(k) /\ k.value = Nothing
  BY <1>2, EmptiedIsTyped
<1> HIDE DEF k
<1>4. LocalList(ms) /\ Len(ms) = Len(locals) /\ OneLocal(locals, ms, i, l.value, Nothing)
  BY <1>2, <1>3, SetIsOne
<1> HIDE DEF ms, l
<1>5. ms \in Seq(LocalVariable) /\ OwnPointers(ms) /\ Len(ms) \in Nat /\ Len(ms) < MaxLocals
  BY <1>2, <1>4 DEF LocalList
<1>6. ps \in Seq(LocalVariable) /\ Len(ps) = Len(ms) + 1 /\ ps[Len(ms) + 1] = l
      /\ \A j \in 1..Len(ms) : ps[j] = ms[j]
  BY <1>2, <1>5
<1> HIDE DEF ps
<1>7. LocalList(ps) /\ MoreLocals(ms, ps, l.value)
  <2>1. OwnPointers(ps)
    <3> SUFFICES ASSUME NEW j \in 1..Len(ps) PROVE ps[j].pointer \in {Nothing, ps[j].value}
      BY DEF OwnPointers
    <3>1. j \in 1..Len(ms) \/ j = Len(ms) + 1
      BY <1>5, <1>6
    <3>2. l.pointer \in {Nothing, l.value}
      BY <1>2 DEF NewIsTyped
    <3> QED
      BY <1>5, <1>6, <3>1, <3>2 DEF OwnPointers
  <2>2. MoreLocals(ms, ps, l.value)
    BY <1>6 DEF MoreLocals
  <2> QED
    BY <1>6, <2>1, <2>2 DEF LocalList
<1>8. Len(ps) <= MaxLocals
  BY <1>2, <1>5, <1>6
<1>9. locals' \in Seq(LocalVariable) /\ PointersAreOwn' /\ Len(locals') <= MaxLocals
  BY <1>1, <1>7, <1>8, ListsAreTyped
<1>10. /\ lost' \in [Counted -> 0..MaxLost] /\ Good(heap', Owned)
       /\ \A u \in Counted : LostMore(u) = 0 /\ Owned[u] \in Nat /\ u # Nothing
  BY <1>1, NothingIsLost
<1>11. ASSUME NEW v \in Counted
       PROVE  Owned[v] = (Owned[v] - LocalsOf(locals, v)) + LocalsOf(locals', v) + LostMore(v)
  <2>1. LocalsOf(ms, v) = (LocalsOf(locals, v) - OneIf(l.value = v)) + OneIf(Nothing = v)
    BY <1>2, <1>4, LocalsUpdated
  <2>2. LocalsOf(ps, v) = LocalsOf(ms, v) + OneIf(l.value = v)
    BY <1>5, <1>7, LocalsGrow
  <2>3. LocalsOf(locals, v) \in Nat /\ Owned[v] \in Nat /\ LostMore(v) = 0 /\ OneIf(Nothing = v) = 0
    BY <1>10, OwnersAreTyped DEF Steady, OneIf
  <2>4. OneIf(l.value = v) \in Nat
    BY DEF OneIf
  <2> QED
    BY <1>1, <2>1, <2>2, <2>3, <2>4
<1> QED
  BY <1>1, <1>9, <1>10, <1>11, LocalsKeep

LEMMA MoveAssignInv ==
  ASSUME Steady, NEW i, OwnIndex(i), NEW j, OwnIndex(j), MoveAssign(i, j) PROVE CountsKept
<1>1. UNCHANGED <<holder, natives, global, kept, lost>>
  BY DEF MoveAssign
<1>2. CASE i = j
  <2>1. MovedToItself(i)
    BY <1>2 DEF MoveAssign
  <2>2. CASE backend # "QuickJs"
    BY <1>1, <2>1, <2>2, EmptyKeeps DEF MovedToItself, PyMovedToItself
  <2>3. CASE backend = "QuickJs"
    <3>1. UNCHANGED <<heap, locals>>
      BY <2>1, <2>3 DEF MovedToItself
    <3>2. NewIsTyped(locals[i])
      BY LocalIsTyped
    <3>3. /\ lost' \in [Counted -> 0..MaxLost] /\ Good(heap', Owned)
          /\ \A u \in Counted : LostMore(u) = 0 /\ Owned[u] \in Nat
      BY <1>1, <3>1, NothingIsLost
    <3>4. UpdateGives(locals[i].value, locals[i].value, Owned)
      BY <3>3 DEF UpdateGives, OneIf
    <3>5. locals' = [locals EXCEPT ![i] = locals[i]]
      BY <3>1, LocalsAreList DEF LocalList
    <3> QED
      BY <1>1, <3>2, <3>3, <3>4, <3>5, SetKeeps
  <2> QED
    BY <2>2, <2>3
<1>3. CASE i # j
  <2> DEFINE k == [locals[i] EXCEPT !.value = locals[j].value, !.pointer = locals[j].pointer]
             l == Emptied(locals[j])
             v == locals[i].value
             m == Minus(Owned, v)
  <2>1. NewIsTyped(locals[i]) /\ NewIsTyped(locals[j]) /\ IsHeld(v)
        /\ locals[i] \in LocalVariable /\ locals[j] \in LocalVariable
    BY LocalIsTyped
  <2>2. NewIsTyped(k) /\ k.value = locals[j].value
    BY <2>1 DEF NewIsTyped, LocalVariable
  <2>3. NewIsTyped(l) /\ l.value = Nothing
    BY <2>1, EmptiedIsTyped
  <2>4. heap' = Dec(heap, v) /\ locals' = [[locals EXCEPT ![i] = k] EXCEPT ![j] = l]
    <3>1. /\ heap' = Dec(heap, v)
          /\ locals' = [locals EXCEPT ![i].value = locals[j].value,
                                      ![i].pointer = locals[j].pointer, ![j] = Emptied(@)]
      BY <1>3 DEF MoveAssign
    <3>2. locals \in Seq(LocalVariable) /\ i \in 1..Len(locals) /\ j \in 1..Len(locals)
      BY LocalIsTyped, LocalsAreList DEF LocalList
    <3> QED
      BY <1>3, <3>1, <3>2
  <2>5. Good(heap', m) /\ \A u \in Counted : m[u] = Owned[u] - OneIf(v = u)
    BY <2>1, <2>4, GivenBackIsGood
  <2>6. \A u \in Counted : LostMore(u) = 0 /\ Owned[u] \in Nat /\ u # Nothing
    BY <1>1, NothingIsLost
  <2> HIDE DEF m, l, k
  <2>7. BothGive(i, k, l, j, m)
    <3> SUFFICES ASSUME NEW u \in Counted
                 PROVE  m[u] = (((Owned[u] - OneIf(locals[i].value = u)) - OneIf(locals[j].value = u))
                                + OneIf(k.value = u)) + OneIf(l.value = u)
      BY DEF BothGive
    <3>1. OneIf(l.value = u) = 0 /\ OneIf(k.value = u) = OneIf(locals[j].value = u)
      BY <2>2, <2>3, <2>6 DEF OneIf
    <3>2. OneIf(locals[i].value = u) \in Nat /\ OneIf(locals[j].value = u) \in Nat /\ Owned[u] \in Nat
      BY <2>6 DEF OneIf
    <3> QED
      BY <2>5, <3>1, <3>2
  <2> QED
    BY <1>1, <1>3, <2>2, <2>3, <2>4, <2>5, <2>7, SetBothKeeps
<1> QED
  BY <1>2, <1>3

LEMMA QjsAssignedGood ==
  ASSUME Steady, NEW i, OwnIndex(i), NEW j, OwnIndex(j), CopyAssign(i, j), backend = "QuickJs"
  PROVE  \E m : Good(heap', m) /\ UpdateGives(locals[i].value, locals[j].value, m)
<1> DEFINE v == locals[i].value
           w == locals[j].value
           h == Copied(heap, locals[j])
<1>1. heap' = Dec(h, v)
  BY DEF CopyAssign, QjsAssigned, Copied
<1>2. v \in CountedValue /\ IsHeld(v) /\ IsHeld(w) /\ locals[j] \in LocalVariable /\ Loses(locals[j])
  BY LocalIsTyped DEF CopyAssign
<1>3. lost' \in [Counted -> 0..MaxLost]
  BY <1>2, CopiedGood
<1>4. PICK n \in [Counted -> Nat] : Good(h, n) /\ CopyGives(w, n)
  BY <1>2, CopiedGood
<1> HIDE DEF h, v, w
<1>5. lost \in [Counted -> 0..MaxLost] /\ MaxLost \in Nat
  BY LostIsTyped DEF Steady, CountsConstants
<1>6. v # Nothing => n[v] > 0
  <2> SUFFICES ASSUME v # Nothing PROVE n[v] > 0
    OBVIOUS
  <2>1. v \in Counted /\ Owned[v] > 0 /\ Owned[v] \in Nat
    BY <1>2, OwnersAreTyped DEF IsHeld, CountedValue, Steady
  <2>2. LostMore(v) >= 0 /\ LostMore(v) \in Int
    BY <1>2, <1>3, <1>5, <2>1 DEF Loses, LostMore, Twice
  <2>3. n[v] = Owned[v] + OneIf(w = v) + LostMore(v)
    BY <1>4, <2>1 DEF CopyGives
  <2> QED
    BY <2>1, <2>2, <2>3 DEF OneIf
<1>7. Good(Dec(h, v), Minus(n, v))
  BY <1>2, <1>4, <1>6, DecGood DEF Steady
<1>8. \A u \in Counted : Minus(n, v)[u] = n[u] - OneIf(v = u)
  BY <1>4, MinusIs
<1>9. UpdateGives(v, w, Minus(n, v))
  <2> SUFFICES ASSUME NEW u \in Counted
               PROVE  Minus(n, v)[u] = (Owned[u] - OneIf(v = u)) + OneIf(w = u) + LostMore(u)
    BY DEF UpdateGives
  <2>1. n[u] = Owned[u] + OneIf(w = u) + LostMore(u)
    BY <1>4 DEF CopyGives
  <2>2. Owned[u] \in Nat /\ LostMore(u) \in Int
    BY <1>3, <1>5, OwnersAreTyped DEF LostMore, Steady
  <2>3. OneIf(v = u) \in Nat /\ OneIf(w = u) \in Nat
    BY DEF OneIf
  <2> QED
    BY <1>8, <2>1, <2>2, <2>3
<1> QED
  BY <1>1, <1>7, <1>9 DEF v, w

(* The value of the Local j is still held when that of i was given back.   *)
LEMMA OtherStaysHeld ==
  ASSUME Steady, NEW i, OwnIndex(i), NEW j, OwnIndex(j), i # j
  PROVE  locals[j].value # Nothing => Minus(Owned, locals[i].value)[locals[j].value] > 0
<1> DEFINE v == locals[i].value
           w == locals[j].value
           k == Emptied(locals[i])
           ms == [locals EXCEPT ![i] = k]
<1> SUFFICES ASSUME w # Nothing PROVE Minus(Owned, v)[w] > 0
  OBVIOUS
<1>1. i \in 1..Len(locals) /\ j \in 1..Len(locals) /\ LocalList(locals) /\ Len(locals) \in Nat
      /\ locals[i] \in LocalVariable /\ w \in Counted /\ IsHeld(v)
  BY LocalIsTyped, LocalsAreList DEF CountedValue
<1>2. NewIsTyped(k) /\ k.value = Nothing
  BY <1>1, EmptiedIsTyped
<1>3. Len(ms) = Len(locals) /\ SameBut(Len(locals), i, locals, ms)
      /\ OneLocal(locals, ms, i, v, Nothing)
  BY <1>1, <1>2, SetIsOne
<1> HIDE DEF ms, k
<1>4. ms[j].value = w /\ j \in 1..Len(ms) /\ Len(ms) \in Nat
  BY <1>1, <1>3 DEF SameBut
<1> HIDE DEF v, w
<1>5. LocalsOf(ms, w) > 0 /\ LocalsOf(ms, w) \in Nat
  BY <1>4, LocalsAreCounted
<1>6. LocalsOf(ms, w) = (LocalsOf(locals, w) - OneIf(v = w)) + OneIf(Nothing = w)
  BY <1>1, <1>3, LocalsUpdated
<1>7. OneIf(Nothing = w) = 0
  BY <1>1 DEF OneIf, Steady, CountsConstants
<1>8. Minus(Owned, v)[w] = Owned[w] - OneIf(v = w)
  BY <1>1, GivenBackIsGood
<1>9. Owned[w] >= LocalsOf(locals, w) /\ Owned[w] \in Nat /\ LocalsOf(locals, w) \in Nat
  BY <1>1, OwnedIsMore, OwnersAreTyped DEF Steady
<1>10. OneIf(v = w) \in Nat
  BY DEF OneIf
<1> QED
  BY <1>5, <1>6, <1>7, <1>8, <1>9, <1>10

LEMMA PyAssignedGood ==
  ASSUME Steady, NEW i, OwnIndex(i), NEW j, OwnIndex(j), CopyAssign(i, j), backend # "QuickJs"
  PROVE  \E m : Good(heap', m) /\ UpdateGives(locals[i].value, locals[j].value, m)
<1> DEFINE v == locals[i].value
           w == locals[j].value
           h == Dec(heap, v)
           n == Minus(Owned, v)
           m == Plus(n, w)
<1>1. heap' = Inc(h, w) /\ i # j /\ lost' = lost
  BY DEF CopyAssign, PyAssigned, Loses, Twice, Steady, CountsInv, CountsTyped
<1>2. IsHeld(v) /\ w \in CountedValue
  BY LocalIsTyped
<1>3. Good(h, n) /\ n \in [Counted -> Nat] /\ \A u \in Counted : n[u] = Owned[u] - OneIf(v = u)
  BY <1>2, GivenBackIsGood
<1>4. w # Nothing => n[w] > 0
  BY <1>1, OtherStaysHeld
<1> HIDE DEF h, n, v, w
<1>5. Alive(h, w)
  BY <1>2, <1>3, <1>4, GoodIsAlive DEF Alive, CountedValue, Steady
<1>6. Good(heap', m)
  BY <1>1, <1>2, <1>3, <1>5, IncGood DEF Steady
<1>7. \A u \in Counted : m[u] = n[u] + OneIf(w = u)
  BY <1>3, PlusIs
<1>8. \A u \in Counted : LostMore(u) = 0 /\ Owned[u] \in Nat
  BY <1>1, NothingIsLost
<1> HIDE DEF m
<1>9. UpdateGives(v, w, m)
  BY <1>3, <1>7, <1>8 DEF UpdateGives, OneIf
<1> QED
  BY <1>6, <1>9 DEF v, w

LEMMA CopyAssignInv ==
  ASSUME Steady, NEW i, OwnIndex(i), NEW j, OwnIndex(j), CopyAssign(i, j) PROVE CountsKept
<1> DEFINE k == [locals[i] EXCEPT !.value = locals[j].value, !.pointer = locals[j].pointer]
<1>1. NewIsTyped(locals[i]) /\ NewIsTyped(locals[j]) /\ IsHeld(locals[j].value)
      /\ locals[i] \in LocalVariable /\ locals[j] \in LocalVariable
  BY LocalIsTyped
<1>2. NewIsTyped(k) /\ k.value = locals[j].value
  BY <1>1 DEF NewIsTyped, LocalVariable
<1>3. locals' = [locals EXCEPT ![i] = k] /\ UNCHANGED <<holder, natives, global, kept>>
  <2>1. locals' = [locals EXCEPT ![i].value = locals[j].value, ![i].pointer = locals[j].pointer]
    BY DEF CopyAssign
  <2>2. locals \in Seq(LocalVariable) /\ i \in 1..Len(locals)
    BY LocalIsTyped, LocalsAreList DEF LocalList
  <2> QED
    BY <2>1, <2>2 DEF CopyAssign
<1>4. lost' \in [Counted -> 0..MaxLost]
  BY <1>1, CopiedGood DEF CopyAssign
<1>5. PICK m : Good(heap', m) /\ UpdateGives(locals[i].value, locals[j].value, m)
  BY QjsAssignedGood, PyAssignedGood
<1> QED
  BY <1>2, <1>3, <1>4, <1>5, SetKeeps

LEMMA EndLocalInv == ASSUME Steady, EndLocal PROVE CountsKept
<1> DEFINE n == Len(locals)
           ms == SubSeq(locals, 1, Len(locals) - 1)
           v == locals[n].value
           m == Minus(Owned, v)
<1>1. OwnIndex(n) /\ n > 0 /\ n \in Nat /\ n <= MaxLocals /\ locals \in Seq(LocalVariable)
      /\ MaxLocals \in Nat /\ OwnPointers(locals)
  BY LocalsAreList DEF EndLocal, Own, OwnIndex, LocalList, Steady, CountsConstants
<1>2. /\ locals' = ms /\ heap' = Dec(heap, v)
      /\ UNCHANGED <<holder, natives, global, kept, lost>>
  BY DEF EndLocal
<1>3. IsHeld(v)
  BY <1>1, LocalIsTyped
<1>4. ms \in Seq(LocalVariable) /\ Len(ms) = n - 1 /\ \A i \in 1..(n - 1) : ms[i] = locals[i]
  BY <1>1, CutOff
<1> HIDE DEF ms, v
<1>5. OwnPointers(ms)
  BY <1>1, <1>4 DEF OwnPointers
<1>6. LocalList(ms) /\ Len(ms) <= MaxLocals /\ Len(ms) \in Nat
  BY <1>1, <1>4, <1>5 DEF LocalList
<1>7. MoreLocals(ms, locals, v)
  BY <1>1, <1>4 DEF MoreLocals, v
<1>8. locals' \in Seq(LocalVariable) /\ PointersAreOwn' /\ Len(locals') <= MaxLocals
  BY <1>2, <1>6, ListsAreTyped
<1>9. /\ Good(heap', m)
      /\ \A u \in Counted : m[u] = Owned[u] - OneIf(v = u)
  BY <1>2, <1>3, GivenBackIsGood
<1>10. lost' \in [Counted -> 0..MaxLost] /\ \A u \in Counted : LostMore(u) = 0 /\ Owned[u] \in Nat
  BY <1>2, NothingIsLost
<1>11. ASSUME NEW u \in Counted
       PROVE  m[u] = (Owned[u] - LocalsOf(locals, u)) + LocalsOf(locals', u) + LostMore(u)
  <2>1. LocalsOf(locals, u) = LocalsOf(ms, u) + OneIf(v = u)
    BY <1>6, <1>7, LocalsGrow
  <2>2. LocalsOf(ms, u) \in Nat /\ Owned[u] \in Nat /\ LostMore(u) = 0 /\ OneIf(v = u) \in Nat
    BY <1>6, <1>10, LocalsAreCounted DEF OneIf
  <2> HIDE DEF m
  <2> QED
    BY <1>2, <1>9, <2>1, <2>2
<1> HIDE DEF m
<1> QED
  BY <1>2, <1>8, <1>9, <1>10, <1>11, LocalsKeep

-----------------------------------------------------------------------------
(* The actions that change what the others hold, or a slot.                *)

LocalsStay == UNCHANGED <<locals, natives, lost>>
HolderIsTyped(r) == r \in [value : CountedStrings \cup {Nothing}, depth : 0..MaxCalls]

LEMMA HeldIsGood ==
  ASSUME Steady, NEW v, IsHeld(v)
  PROVE  /\ Good(Inc(heap, v), Plus(Owned, v)) /\ v \in CountedValue /\ Alive(heap, v)
         /\ Owned \in [Counted -> Nat] /\ Plus(Owned, v) \in [Counted -> Nat]
         /\ \A u \in Counted : Plus(Owned, v)[u] = Owned[u] + OneIf(v = u)
<1>1. Good(Inc(heap, v), Plus(Owned, v)) /\ v \in CountedValue /\ Alive(heap, v)
  BY HeldIsCounted DEF Steady
<1>2. Owned \in [Counted -> Nat]
  BY GoodIsTyped DEF Steady, CountsInv
<1> QED
  BY <1>1, <1>2, PlusIs

LEMMA OwnersAreHeld ==
  ASSUME Steady
  PROVE  IsHeld(global) /\ IsHeld(kept) /\ IsHeld(Lent) /\ HolderIsTyped(holder)
         /\ global \in CountedValue /\ kept \in CountedValue /\ Good(heap, Owned)
         /\ Nothing \in CountedValue /\ Depth \in 0..MaxCalls
         /\ \A u \in Counted : Owned[u] \in Nat /\ u # Nothing
<1>1. IsHeld(global) /\ IsHeld(kept) /\ IsHeld(Lent)
  BY OthersAreHeld DEF Steady
<1>2. HolderIsTyped(holder) /\ global \in CountedValue /\ kept \in CountedValue /\ Good(heap, Owned)
      /\ Nothing \in CountedValue /\ Depth \in 0..MaxCalls
  BY DEF Steady, CountsInv, CountsTyped, CountsConstants, HolderIsTyped, Depth, CountedValue
<1>3. \A u \in Counted : Owned[u] \in Nat /\ u # Nothing
  BY OwnersAreTyped DEF Steady, CountsConstants
<1> QED
  BY <1>1, <1>2, <1>3

(* Everything stays with those that hold it.                               *)
LEMMA SlotKeeps ==
  ASSUME Steady, LocalsStay, UNCHANGED <<holder, global, kept>>, Good(heap', Owned)
  PROVE  CountsKept
<1>1. Lent' = Lent
  BY DEF Lent, Steady
<1>2. ASSUME NEW v \in Counted
      PROVE  Owned[v] =
               (((((Owned[v] - OneIf(global = v)) - OneIf(kept = v)) - OneIf(Lent = v))
                    + OneIf(global' = v)) + OneIf(kept' = v)) + OneIf(Lent' = v)
  <2>1. Owned[v] \in Nat /\ OneIf(global = v) \in Nat /\ OneIf(kept = v) \in Nat
        /\ OneIf(Lent = v) \in Nat
    BY OwnersAreHeld DEF OneIf
  <2>2. global' = global /\ kept' = kept
    OBVIOUS
  <2> QED
    BY <1>1, <2>1, <2>2
<1>3. holder' \in [value : CountedStrings \cup {Nothing}, depth : 0..MaxCalls]
      /\ global' \in CountedValue /\ kept' \in CountedValue
  BY OwnersAreHeld DEF HolderIsTyped
<1> QED
  BY <1>2, <1>3, OthersKeep DEF LocalsStay

(* The Global, what is kept, or the StringHolder has w where it had v.     *)
OwnerGives(v, w, m) == \A u \in Counted : m[u] = (Owned[u] - OneIf(v = u)) + OneIf(w = u)

LEMMA GlobalKeeps ==
  ASSUME Steady, LocalsStay, UNCHANGED <<holder, kept>>, global' \in CountedValue,
         NEW m, Good(heap', m), OwnerGives(global, global', m)
  PROVE  CountsKept
<1>1. Lent' = Lent /\ kept' = kept
  BY DEF Lent, Steady
<1>2. ASSUME NEW v \in Counted
      PROVE  m[v] =
               (((((Owned[v] - OneIf(global = v)) - OneIf(kept = v)) - OneIf(Lent = v))
                    + OneIf(global' = v)) + OneIf(kept' = v)) + OneIf(Lent' = v)
  <2>1. Owned[v] \in Nat /\ OneIf(global = v) \in Nat /\ OneIf(kept = v) \in Nat
        /\ OneIf(Lent = v) \in Nat /\ OneIf(global' = v) \in Nat
    BY OwnersAreHeld DEF OneIf
  <2>2. m[v] = (Owned[v] - OneIf(global = v)) + OneIf(global' = v)
    BY DEF OwnerGives
  <2> QED
    BY <1>1, <2>1, <2>2
<1>3. holder' \in [value : CountedStrings \cup {Nothing}, depth : 0..MaxCalls] /\ kept' \in CountedValue
  BY OwnersAreHeld DEF HolderIsTyped
<1> QED
  BY <1>2, <1>3, OthersKeep DEF LocalsStay

LEMMA KeptKeeps ==
  ASSUME Steady, LocalsStay, UNCHANGED <<holder, global>>, kept' \in CountedValue,
         NEW m, Good(heap', m), OwnerGives(kept, kept', m)
  PROVE  CountsKept
<1>1. Lent' = Lent /\ global' = global
  BY DEF Lent, Steady
<1>2. ASSUME NEW v \in Counted
      PROVE  m[v] =
               (((((Owned[v] - OneIf(global = v)) - OneIf(kept = v)) - OneIf(Lent = v))
                    + OneIf(global' = v)) + OneIf(kept' = v)) + OneIf(Lent' = v)
  <2>1. Owned[v] \in Nat /\ OneIf(global = v) \in Nat /\ OneIf(kept = v) \in Nat
        /\ OneIf(Lent = v) \in Nat /\ OneIf(kept' = v) \in Nat
    BY OwnersAreHeld DEF OneIf
  <2>2. m[v] = (Owned[v] - OneIf(kept = v)) + OneIf(kept' = v)
    BY DEF OwnerGives
  <2> QED
    BY <1>1, <2>1, <2>2
<1>3. holder' \in [value : CountedStrings \cup {Nothing}, depth : 0..MaxCalls] /\ global' \in CountedValue
  BY OwnersAreHeld DEF HolderIsTyped
<1> QED
  BY <1>2, <1>3, OthersKeep DEF LocalsStay

LEMMA HolderKeeps ==
  ASSUME Steady, LocalsStay, UNCHANGED <<kept, global>>, HolderIsTyped(holder'),
         NEW m, Good(heap', m), OwnerGives(Lent, Lent', m)
  PROVE  CountsKept
<1>1. kept' = kept /\ global' = global
  OBVIOUS
<1>2. ASSUME NEW v \in Counted
      PROVE  m[v] =
               (((((Owned[v] - OneIf(global = v)) - OneIf(kept = v)) - OneIf(Lent = v))
                    + OneIf(global' = v)) + OneIf(kept' = v)) + OneIf(Lent' = v)
  <2>1. Owned[v] \in Nat /\ OneIf(global = v) \in Nat /\ OneIf(kept = v) \in Nat
        /\ OneIf(Lent = v) \in Nat /\ OneIf(Lent' = v) \in Nat
    BY OwnersAreHeld DEF OneIf
  <2>2. m[v] = (Owned[v] - OneIf(Lent = v)) + OneIf(Lent' = v)
    BY DEF OwnerGives
  <2> QED
    BY <1>1, <2>1, <2>2
<1>3. kept' \in CountedValue /\ global' \in CountedValue
  BY OwnersAreHeld
<1> QED
  BY <1>2, <1>3, OthersKeep DEF LocalsStay, HolderIsTyped

LEMMA GivenBackGives ==
  ASSUME Steady, NEW v, IsHeld(v)
  PROVE  \E m : Good(Dec(heap, v), m) /\ OwnerGives(v, Nothing, m)
<1> DEFINE m == Minus(Owned, v)
<1>1. Good(Dec(heap, v), m) /\ \A u \in Counted : m[u] = Owned[u] - OneIf(v = u)
  BY GivenBackIsGood
<1> HIDE DEF m
<1>2. OwnerGives(v, Nothing, m)
  BY <1>1, OwnersAreHeld DEF OwnerGives, OneIf
<1> QED
  BY <1>1, <1>2

LEMMA GlobalAssignInv ==
  ASSUME Steady, NEW i, OwnIndex(i), GlobalAssign(i) PROVE CountsKept
<1> DEFINE w == locals[i].value
           n == Plus(Owned, w)
           m == Minus(n, global)
<1>1. /\ heap' = Dec(Inc(heap, w), global) /\ global' = w
      /\ LocalsStay /\ UNCHANGED <<holder, kept>>
  BY DEF GlobalAssign, LocalsStay
<1>2. IsHeld(w)
  BY LocalIsTyped
<1> HIDE DEF w
<1>3. Good(Inc(heap, w), n) /\ w \in CountedValue /\ n \in [Counted -> Nat]
      /\ \A u \in Counted : n[u] = Owned[u] + OneIf(w = u)
  BY <1>2, HeldIsGood
<1>4. global # Nothing => n[global] > 0
  BY <1>3, OwnersAreHeld DEF IsHeld, CountedValue, OneIf
<1> HIDE DEF n
<1>5. Good(heap', m)
  BY <1>1, <1>3, <1>4, OwnersAreHeld, DecGood DEF Steady
<1>6. \A u \in Counted : m[u] = n[u] - OneIf(global = u)
  BY <1>3, MinusIs
<1> HIDE DEF m
<1>7. OwnerGives(global, w, m)
  BY <1>3, <1>6, OwnersAreHeld DEF OwnerGives, OneIf
<1> QED
  BY <1>1, <1>3, <1>5, <1>7, GlobalKeeps

LEMMA GlobalResetInv == ASSUME Steady, GlobalReset PROVE CountsKept
<1>1. /\ heap' = Dec(heap, global) /\ global' = Nothing
      /\ LocalsStay /\ UNCHANGED <<holder, kept>>
  BY DEF GlobalReset, LocalsStay
<1>2. PICK m : Good(heap', m) /\ OwnerGives(global, Nothing, m)
  BY <1>1, OwnersAreHeld, GivenBackGives
<1> QED
  BY <1>1, <1>2, OwnersAreHeld, GlobalKeeps

LEMMA NextLoopInv == ASSUME Steady, NextLoop PROVE CountsKept
<1>1. /\ heap' = Dec(heap, kept) /\ kept' = Nothing
      /\ LocalsStay /\ UNCHANGED <<holder, global>>
  BY DEF NextLoop, LocalsStay
<1>2. PICK m : Good(heap', m) /\ OwnerGives(kept, Nothing, m)
  BY <1>1, OwnersAreHeld, GivenBackGives
<1> QED
  BY <1>1, <1>2, OwnersAreHeld, KeptKeeps

LEMMA ConstructFromCppInv ==
  ASSUME Steady, NEW c \in PlainObjects, ConstructFromCpp(c) PROVE CountsKept
<1> DEFINE n == Plus(Owned, c)
           h == MadeValue(heap, c)
<1>1. /\ heap' = Dec(Inc(h, c), c) /\ kept = Nothing /\ kept' = c /\ heap.counts[c] = 0
      /\ LocalsStay /\ UNCHANGED <<holder, global>>
  BY DEF ConstructFromCpp, LocalsStay, Unused
<1>2. c \in Counted /\ c \in CountedValue /\ Owned \in [Counted -> Nat]
  BY OwnersAreHeld, GoodIsTyped DEF PlainObjects, CountedValue
<1>3. Good(h, n)
  BY <1>1, <1>2, OwnersAreHeld, MadeGood DEF Steady
<1>4. n[c] > 0 /\ \A u \in Counted : n[u] = Owned[u] + OneIf(c = u)
  BY <1>2, PlusIs
<1> HIDE DEF n, h
<1>5. Alive(h, c)
  BY <1>2, <1>3, <1>4, GoodIsAlive DEF Alive, Steady
<1>6. Good(heap', n)
  BY <1>1, <1>2, <1>3, <1>5, LendGood DEF Steady
<1>7. OwnerGives(kept, kept', n)
  BY <1>1, <1>4, OwnersAreHeld DEF OwnerGives, OneIf
<1> QED
  BY <1>1, <1>2, <1>6, <1>7, KeptKeeps

LEMMA ToStringHolderInv ==
  ASSUME Steady, NEW i, OwnIndex(i), ToStringHolder(i) PROVE CountsKept
<1> DEFINE v == locals[i].value
<1>1. /\ holder = NoHolder /\ v \in CountedStrings /\ holder' = [value |-> v, depth |-> Depth]
      /\ heap' = (IF backend = "QuickJs" THEN Inc(heap, v) ELSE heap)
      /\ LocalsStay /\ UNCHANGED <<kept, global>>
  BY DEF ToStringHolder, LocalsStay
<1>2. HolderIsTyped(holder')
  BY <1>1, OwnersAreHeld DEF HolderIsTyped
<1>3. IsHeld(v)
  BY LocalIsTyped
<1> HIDE DEF v
<1>4. CASE backend = "QuickJs"
  <2>1. Lent = Nothing /\ Lent' = v
    BY <1>1, <1>4 DEF Lent, NoHolder, Steady
  <2>2. Good(heap', Plus(Owned, v)) /\ \A u \in Counted : Plus(Owned, v)[u] = Owned[u] + OneIf(v = u)
    BY <1>1, <1>3, <1>4, HeldIsGood
  <2>3. OwnerGives(Lent, Lent', Plus(Owned, v))
    BY <2>1, <2>2, OwnersAreHeld DEF OwnerGives, OneIf
  <2> QED
    BY <1>1, <1>2, <2>2, <2>3, HolderKeeps
<1>5. CASE backend # "QuickJs"
  <2>1. Lent = Nothing /\ Lent' = Nothing
    BY <1>5 DEF Lent, Steady
  <2>2. Good(heap', Owned)
    BY <1>1, <1>5, OwnersAreHeld
  <2>3. OwnerGives(Lent, Lent', Owned)
    BY <2>1, OwnersAreHeld DEF OwnerGives, OneIf
  <2> QED
    BY <1>1, <1>2, <2>2, <2>3, HolderKeeps
<1> QED
  BY <1>4, <1>5

LEMMA EndStringHolderInv == ASSUME Steady, EndStringHolder PROVE CountsKept
<1>1. /\ heap' = HolderFreed(heap) /\ holder' = NoHolder
      /\ LocalsStay /\ UNCHANGED <<kept, global>>
  BY DEF EndStringHolder, LocalsStay
<1>2. HolderIsTyped(holder') /\ Lent' = Nothing
  BY <1>1 DEF HolderIsTyped, NoHolder, Lent, Steady, CountsConstants
<1>3. CASE backend = "QuickJs"
  <2>1. heap' = Dec(heap, Lent)
    BY <1>1, <1>3 DEF HolderFreed, Lent
  <2>2. PICK m : Good(heap', m) /\ OwnerGives(Lent, Nothing, m)
    BY <2>1, OwnersAreHeld, GivenBackGives
  <2> QED
    BY <1>1, <1>2, <2>2, HolderKeeps
<1>4. CASE backend # "QuickJs"
  <2>1. Lent = Nothing /\ heap' = heap
    BY <1>1, <1>4 DEF Lent, HolderFreed
  <2>2. OwnerGives(Lent, Lent', Owned)
    BY <1>2, <2>1, OwnersAreHeld DEF OwnerGives, OneIf
  <2> QED
    BY <1>1, <1>2, <2>1, <2>2, OwnersAreHeld, HolderKeeps
<1> QED
  BY <1>3, <1>4

LEMMA SetInv ==
  ASSUME Steady, NEW i, OwnIndex(i), NEW slot \in Fields, SetEntry(slot, i) PROVE CountsKept
<1>1. /\ heap' = PutEntry(Inc(heap, locals[i].value), slot, locals[i].value)
      /\ LocalsStay /\ UNCHANGED <<holder, kept, global>>
  BY DEF SetEntry, LocalsStay
<1>2. IsHeld(locals[i].value)
  BY LocalIsTyped
<1>3. locals[i].value \in CountedValue /\ Alive(heap, locals[i].value)
  BY <1>2, HeldIsGood
<1>4. Good(heap', Owned)
  BY <1>1, <1>3, OwnersAreHeld, StoreGood DEF Steady
<1> QED
  BY <1>1, <1>4, SlotKeeps

LEMMA RemoveSlotInv ==
  ASSUME Steady, NEW slot \in Fields, RemoveSlot(slot) PROVE CountsKept
<1>1. /\ heap' = PutEntry(heap, slot, Nothing)
      /\ LocalsStay /\ UNCHANGED <<holder, kept, global>>
  BY DEF RemoveSlot, LocalsStay
<1>2. Good(heap', Minus(Owned, Nothing)) /\ Owned \in [Counted -> Nat]
  BY <1>1, OwnersAreHeld, PutGood, GoodIsTyped DEF Steady
<1>3. \A u \in Counted : Owned[u] = Minus(Owned, Nothing)[u]
  BY <1>2, MinusIs, OwnersAreHeld DEF OneIf
<1>4. Owned \in [Counted -> Int]
  BY <1>2
<1>5. Good(heap', Owned)
  BY <1>2, <1>3, <1>4, GoodIsEnough
<1> QED
  BY <1>1, <1>5, SlotKeeps

LEMMA ScriptAssignsInv ==
  ASSUME Steady, NEW slot \in Fields, NEW v \in {heap.entries[s] : s \in Fields} \cup {Nothing},
         ScriptSets(slot, v)
  PROVE  CountsKept
<1>1. /\ heap' = PutEntry(Inc(heap, v), slot, v)
      /\ LocalsStay /\ UNCHANGED <<holder, kept, global>>
  BY DEF ScriptSets, LocalsStay
<1>2. v \in CountedValue /\ Alive(heap, v)
  <2>1. CASE v = Nothing
    BY <2>1 DEF CountedValue, Alive
  <2>2. CASE v # Nothing
    BY <2>2, EntryIsAlive DEF Steady
  <2> QED
    BY <2>1, <2>2
<1>3. Good(heap', Owned)
  BY <1>1, <1>2, OwnersAreHeld, StoreGood DEF Steady
<1> QED
  BY <1>1, <1>3, SlotKeeps

-----------------------------------------------------------------------------
(* Calls of native functions.                                              *)

InCalls(fs, v) == ArgumentsOf(fs, v) + ResultsOf(fs, v)
NoResultIn(fs) == \A d \in 1..Len(fs) : fs[d].returns \/ fs[d].result = Nothing
FrameList(fs) == fs \in Seq(NativeFrame) /\ Len(fs) \in Nat /\ Len(fs) <= MaxCalls /\ NoResultIn(fs)

LEMMA FramesAreList == ASSUME Steady PROVE FrameList(natives) /\ Depth \in Nat /\ Depth = Len(natives)
  BY DEF Steady, CountsInv, CountsTyped, NoResultYet, FrameList, NoResultIn, Depth

CallGives(m) == \A v \in Counted :
  m[v] = (((Owned[v] - LocalsOf(locals, v)) - InCalls(natives, v))
          + LocalsOf(locals', v)) + InCalls(natives', v)

LEMMA CallsKeep ==
  ASSUME Steady, UNCHANGED <<holder, global, kept, lost>>,
         LocalList(locals'), Len(locals') <= MaxLocals, FrameList(natives'),
         NEW m, Good(heap', m), CallGives(m)
  PROVE  CountsKept
<1>1. PointersAreOwn' /\ locals' \in Seq(LocalVariable)
  BY ListsAreTyped
<1>2. CountsTyped' /\ NoResultYet'
  <2>1. natives' \in Seq(NativeFrame) /\ Len(natives') <= MaxCalls /\ NoResultIn(natives')
    BY DEF FrameList
  <2>2. NoResultYet'
    BY <2>1 DEF NoResultIn, NoResultYet
  <2> QED
    BY <1>1, <2>1, <2>2 DEF Steady, CountsInv, CountsTyped
<1>3. Lent' = Lent /\ global' = global /\ kept' = kept /\ lost' = lost
  BY DEF Lent, Steady
<1>4. ASSUME NEW v \in Counted PROVE Owned'[v] = m[v] /\ m[v] \in Int
  <2>1. Owned'[v] = LocalsOf(locals', v) + ArgumentsOf(natives', v) + ResultsOf(natives', v)
                    + OneIf(global = v) + OneIf(kept = v) + OneIf(Lent = v) + lost[v]
    BY <1>3, OwnedIsAfter
  <2>2. Owned[v] = LocalsOf(locals, v) + ArgumentsOf(natives, v) + ResultsOf(natives, v)
                   + OneIf(global = v) + OneIf(kept = v) + OneIf(Lent = v) + lost[v]
    BY OwnedIs
  <2>3. /\ LocalsOf(locals, v) \in Nat /\ ArgumentsOf(natives, v) \in Nat
        /\ ResultsOf(natives, v) \in Nat /\ lost[v] \in Nat
    BY OwnersAreTyped DEF Steady
  <2>4. ArgumentsOf(natives', v) \in Nat /\ ResultsOf(natives', v) \in Nat
    BY FramesAreCounted DEF FrameList
  <2>5. LocalsOf(locals', v) \in Nat
    BY <1>1, LocalsAreCounted
  <2>6. OneIf(global = v) \in Nat /\ OneIf(kept = v) \in Nat /\ OneIf(Lent = v) \in Nat
    BY DEF OneIf
  <2>7. m[v] = (((Owned[v] - LocalsOf(locals, v)) - InCalls(natives, v))
                + LocalsOf(locals', v)) + InCalls(natives', v)
    BY DEF CallGives
  <2>8. InCalls(natives, v) \in Nat /\ InCalls(natives', v) \in Nat
    BY <2>3, <2>4 DEF InCalls
  <2> DEFINE r == OneIf(global = v) + OneIf(kept = v) + OneIf(Lent = v) + lost[v]
  <2>9. r \in Nat
    BY <2>3, <2>6
  <2>10. Owned[v] = LocalsOf(locals, v) + InCalls(natives, v) + r
    BY <2>2, <2>3, <2>6, SumRegrouped DEF InCalls
  <2>11. Owned'[v] = LocalsOf(locals', v) + InCalls(natives', v) + r
    <3> DEFINE p == LocalsOf(locals', v)
               q == ArgumentsOf(natives', v)
               c == ResultsOf(natives', v)
    <3>1. p \in Nat /\ q \in Nat /\ c \in Nat /\ InCalls(natives', v) = q + c
      BY <2>4, <2>5 DEF InCalls
    <3>2. Owned'[v] = p + q + c + OneIf(global = v) + OneIf(kept = v) + OneIf(Lent = v) + lost[v]
      BY <2>1
    <3> HIDE DEF p, q, c
    <3>3. Owned'[v] = p + (q + c) + r
      BY <2>3, <2>6, <3>1, <3>2, SumRegrouped
    <3> QED
      BY <3>1, <3>3 DEF p
  <2> HIDE DEF r
  <2> QED
    BY <2>3, <2>5, <2>7, <2>8, <2>9, <2>10, <2>11
<1>5. Owned' \in [Counted -> Int]
  <2>1. Owned' = [v \in Counted |-> Owned'[v]]
    BY DEF Owned, OwnedBy
  <2> QED
    BY <1>4, <2>1
<1>6. Good(heap', Owned')
  BY <1>4, <1>5, GoodIsEnough
<1> QED
  BY <1>1, <1>2, <1>6 DEF CountsKept

LEMMA CallsAreCounted ==
  ASSUME Steady, NEW v \in Counted
  PROVE  /\ LocalsOf(locals, v) \in Nat /\ ArgumentsOf(natives, v) \in Nat
         /\ ResultsOf(natives, v) \in Nat /\ Owned[v] \in Nat
         /\ Owned[v] >= ArgumentsOf(natives, v) + ResultsOf(natives, v)
  BY OwnersAreTyped, OwnedIsMore DEF Steady

(* The Locals are the same, and a call holds w.                            *)
CallsMore(w) == \A v \in Counted : InCalls(natives', v) = InCalls(natives, v) + OneIf(w = v)
GivesMore(w, m) == \A v \in Counted : m[v] = Owned[v] + OneIf(w = v)

LEMMA FramesKeep ==
  ASSUME Steady, UNCHANGED <<holder, global, kept, lost, locals>>, FrameList(natives'),
         NEW w, CallsMore(w), NEW m, Good(heap', m), GivesMore(w, m)
  PROVE  CountsKept
<1>1. LocalList(locals') /\ Len(locals') <= MaxLocals
  BY LocalsAreList
<1>2. CallGives(m)
  <2> SUFFICES ASSUME NEW v \in Counted
               PROVE  m[v] = (((Owned[v] - LocalsOf(locals, v)) - InCalls(natives, v))
                              + LocalsOf(locals', v)) + InCalls(natives', v)
    BY DEF CallGives
  <2>1. LocalsOf(locals', v) = LocalsOf(locals, v) /\ LocalsOf(locals, v) \in Nat
        /\ InCalls(natives, v) \in Nat /\ OneIf(w = v) \in Nat /\ Owned[v] \in Nat
    BY CallsAreCounted DEF InCalls, OneIf
  <2>2. InCalls(natives', v) = InCalls(natives, v) + OneIf(w = v) /\ m[v] = Owned[v] + OneIf(w = v)
    BY DEF CallsMore, GivesMore
  <2> QED
    BY <2>1, <2>2
<1> QED
  BY <1>1, <1>2, CallsKeep

LEMMA CallNativeInv ==
  ASSUME Steady, NEW slot \in Fields, CallNative(slot) PROVE CountsKept
<1> DEFINE w == heap.entries[slot]
           f == [argument |-> w, result |-> Nothing, returns |-> FALSE]
           m == Plus(Owned, w)
<1>1. /\ heap' = Inc(heap, w) /\ natives' = Append(natives, f) /\ Len(natives) < MaxCalls
      /\ UNCHANGED <<holder, global, kept, lost, locals>>
  BY DEF CallNative, Depth
<1>2. w \in CountedValue /\ Alive(heap, w)
  BY EntryIsAlive DEF Steady
<1>3. f \in NativeFrame /\ f.argument = w /\ f.result = Nothing
  BY <1>2, OwnersAreHeld DEF NativeFrame
<1> HIDE DEF w
<1>4. Good(heap', m) /\ \A u \in Counted : m[u] = Owned[u] + OneIf(w = u)
  <2>1. Good(heap, Owned) /\ Owned \in [Counted -> Nat]
    BY OwnersAreHeld, GoodIsTyped
  <2>2. Good(heap', m)
    BY <1>1, <1>2, <2>1, IncGood DEF Steady
  <2> QED
    BY <2>1, <2>2, PlusIs
<1> HIDE DEF f, m
<1>5. FrameList(natives)
  BY FramesAreList
<1>6. /\ natives' \in Seq(NativeFrame) /\ Len(natives') = Len(natives) + 1
      /\ \A d \in 1..Len(natives) : natives'[d] = natives[d]
      /\ natives'[Len(natives) + 1] = f
  BY <1>1, <1>3, <1>5 DEF FrameList
<1>7. NoResultIn(natives')
  BY <1>3, <1>5, <1>6 DEF NoResultIn, FrameList
<1>8. FrameList(natives')
  BY <1>1, <1>5, <1>6, <1>7 DEF FrameList, Steady, CountsConstants
<1>9. MoreFrames(natives, natives', w, Nothing) /\ Len(natives) \in Nat
  BY <1>3, <1>5, <1>6 DEF MoreFrames, FrameList
<1>10. ASSUME NEW v \in Counted PROVE InCalls(natives', v) = InCalls(natives, v) + OneIf(w = v)
  <2>1. /\ ArgumentsOf(natives', v) = ArgumentsOf(natives, v) + OneIf(w = v)
        /\ ResultsOf(natives', v) = ResultsOf(natives, v) + OneIf(Nothing = v)
    BY <1>9, FramesGrow
  <2>2. ArgumentsOf(natives, v) \in Nat /\ ResultsOf(natives, v) \in Nat
    BY CallsAreCounted
  <2> QED
    BY <2>1, <2>2, OwnersAreHeld DEF InCalls, OneIf
<1>11. CallsMore(w) /\ GivesMore(w, m)
  BY <1>4, <1>10 DEF CallsMore, GivesMore
<1> QED
  BY <1>1, <1>4, <1>8, <1>11, FramesKeep

LEMMA ReturnInv ==
  ASSUME Steady, NEW i, OwnIndex(i), ~Returning, Return(i) PROVE CountsKept
<1> DEFINE w == locals[i].value
           m == Plus(Owned, w)
           f == [natives[Depth] EXCEPT !.result = w, !.returns = TRUE]
<1>1. /\ heap' = Inc(heap, w) /\ Depth > 0
      /\ natives' = [natives EXCEPT ![Depth].result = w, ![Depth].returns = TRUE]
      /\ UNCHANGED <<holder, global, kept, lost, locals>>
  BY DEF Return
<1>2. FrameList(natives) /\ Depth \in 1..Len(natives) /\ natives \in Seq(NativeFrame) /\ Len(natives) \in Nat
  BY <1>1, FramesAreList DEF FrameList
<1>3. IsHeld(w) /\ w \in CountedValue
  BY LocalIsTyped
<1>4. Good(heap', m) /\ \A u \in Counted : m[u] = Owned[u] + OneIf(w = u)
  BY <1>1, <1>3, HeldIsGood
<1> HIDE DEF w, m
<1>5. natives[Depth] \in NativeFrame
  BY <1>2
<1>6. f \in NativeFrame /\ f.argument = natives[Depth].argument /\ f.result = w /\ f.returns
  BY <1>3, <1>5 DEF NativeFrame
<1>7. natives' = [natives EXCEPT ![Depth] = f]
  BY <1>1, <1>2
<1> HIDE DEF f
<1>8. /\ natives' \in Seq(NativeFrame) /\ Len(natives') = Len(natives) /\ natives'[Depth] = f
      /\ \A d \in 1..Len(natives) : d # Depth => natives'[d] = natives[d]
  BY <1>2, <1>6, <1>7
<1>9. natives[Depth].result = Nothing
  BY <1>1, <1>2 DEF FrameList, NoResultIn, Returning
<1>10. NoResultIn(natives')
  BY <1>2, <1>6, <1>8 DEF NoResultIn, FrameList
<1>11. FrameList(natives')
  BY <1>2, <1>8, <1>10 DEF FrameList
<1>12. OneResult(natives, natives', Depth, Nothing, w)
  BY <1>2, <1>6, <1>8, <1>9 DEF OneResult
<1>13. ASSUME NEW v \in Counted PROVE InCalls(natives', v) = InCalls(natives, v) + OneIf(w = v)
  <2>1. /\ ArgumentsOf(natives', v) = ArgumentsOf(natives, v)
        /\ ResultsOf(natives', v) = (ResultsOf(natives, v) - OneIf(Nothing = v)) + OneIf(w = v)
    BY <1>2, <1>12, FramesReturn
  <2>2. ArgumentsOf(natives, v) \in Nat /\ ResultsOf(natives, v) \in Nat
    BY CallsAreCounted
  <2> QED
    BY <2>1, <2>2, OwnersAreHeld DEF InCalls, OneIf
<1>14. CallsMore(w) /\ GivesMore(w, m)
  BY <1>4, <1>13 DEF CallsMore, GivesMore
<1> QED
  BY <1>1, <1>4, <1>11, <1>14, FramesKeep

LEMMA LeaveFrameInv ==
  ASSUME Steady, Returning, NEW taken \in BOOLEAN, LeaveNative(taken) PROVE CountsKept
<1> DEFINE a    == natives[Depth].argument
           r    == natives[Depth].result
           left == Dec(heap, a)
           n    == Minus(Owned, a)
           fs   == SubSeq(natives, 1, Depth - 1)
           l    == [NewLocal("Value", r) EXCEPT !.depth = Depth - 1]
<1>1. /\ heap' = (IF taken THEN left ELSE Dec(left, r))
      /\ locals' = (IF taken THEN Append(locals, l) ELSE locals)
      /\ natives' = fs /\ (taken => Room)
      /\ UNCHANGED <<holder, global, kept, lost>>
  BY DEF LeaveNative
<1>2. /\ FrameList(natives) /\ Depth \in 1..Len(natives) /\ Depth = Len(natives) /\ Depth \in Nat
      /\ natives \in Seq(NativeFrame) /\ Len(natives) \in Nat /\ Len(natives) > 0
  BY FramesAreList DEF FrameList, Returning
<1>3. IsHeld(a) /\ IsHeld(r) /\ r \in CountedValue
  BY <1>2, FrameIsHeld DEF Steady, IsHeld
<1>4. Good(left, n) /\ n \in [Counted -> Nat] /\ \A u \in Counted : n[u] = Owned[u] - OneIf(a = u)
  BY <1>3, GivenBackIsGood
<1>5. fs \in Seq(NativeFrame) /\ Len(fs) = Depth - 1 /\ \A d \in 1..(Depth - 1) : fs[d] = natives[d]
  BY <1>2, CutOff
<1> HIDE DEF fs, left, n
<1>6. NoResultIn(fs)
  BY <1>2, <1>5 DEF NoResultIn, FrameList
<1>7. FrameList(fs)
  BY <1>2, <1>5, <1>6 DEF FrameList, Steady, CountsConstants
<1>8. MoreFrames(fs, natives, a, r) /\ Len(fs) \in Nat
  BY <1>2, <1>5 DEF MoreFrames
<1> HIDE DEF a, r
<1>9. ASSUME NEW v \in Counted
      PROVE  /\ InCalls(natives, v) = InCalls(fs, v) + OneIf(a = v) + OneIf(r = v)
             /\ InCalls(fs, v) \in Nat
             /\ OneIf(a = v) + OneIf(r = v) <= Owned[v]
  <2>1. /\ ArgumentsOf(natives, v) = ArgumentsOf(fs, v) + OneIf(a = v)
        /\ ResultsOf(natives, v) = ResultsOf(fs, v) + OneIf(r = v)
    BY <1>8, FramesGrow
  <2>2. ArgumentsOf(fs, v) \in Nat /\ ResultsOf(fs, v) \in Nat
    BY <1>8, FramesAreCounted
  <2>3. Owned[v] >= ArgumentsOf(natives, v) + ResultsOf(natives, v) /\ Owned[v] \in Nat
    BY CallsAreCounted
  <2>4. OneIf(a = v) \in Nat /\ OneIf(r = v) \in Nat
    BY DEF OneIf
  <2> QED
    BY <2>1, <2>2, <2>3, <2>4 DEF InCalls
<1>10. \A v \in Counted : /\ LocalsOf(locals, v) \in Nat /\ Owned[v] \in Nat
                          /\ OneIf(a = v) \in Nat /\ OneIf(r = v) \in Nat
  BY CallsAreCounted DEF OneIf
<1>11. LocalList(locals) /\ Len(locals) \in Nat /\ Len(locals) <= MaxLocals
  BY LocalsAreList
<1>12. CASE ~taken
  <2> DEFINE m == Minus(n, r)
  <2>1. r # Nothing => n[r] > 0
    BY <1>3, <1>4, <1>9, <1>10 DEF CountedValue, OneIf
  <2>2. Good(heap', m) /\ \A u \in Counted : m[u] = n[u] - OneIf(r = u)
    BY <1>1, <1>3, <1>4, <1>12, <2>1, DecGood, MinusIs DEF Steady
  <2> HIDE DEF m
  <2>3. CallGives(m)
    <3> SUFFICES ASSUME NEW v \in Counted
                 PROVE  m[v] = (((Owned[v] - LocalsOf(locals, v)) - InCalls(natives, v))
                                + LocalsOf(locals', v)) + InCalls(natives', v)
      BY DEF CallGives
    <3>1. LocalsOf(locals', v) = LocalsOf(locals, v) /\ InCalls(natives', v) = InCalls(fs, v)
      BY <1>1, <1>12
    <3> QED
      BY <1>4, <1>9, <1>10, <2>2, <3>1
  <2> QED
    BY <1>1, <1>7, <1>11, <1>12, <2>2, <2>3, CallsKeep
<1>13. CASE taken
  <2>1. Good(heap', n) /\ locals' = Append(locals, l) /\ Len(locals) < MaxLocals
    BY <1>1, <1>4, <1>13 DEF Room
  <2>2. Depth - 1 \in 0..MaxCalls
    BY <1>2 DEF FrameList, Steady, CountsConstants
  <2>3. NewIsTyped(l) /\ l.value = r
    BY <1>3, <2>2, OwnersAreHeld DEF NewLocal, NewIsTyped, LocalVariable
  <2> HIDE DEF l
  <2> DEFINE ms == Append(locals, l)
  <2>4. /\ ms \in Seq(LocalVariable) /\ Len(ms) = Len(locals) + 1
        /\ \A j \in 1..Len(locals) : ms[j] = locals[j]
        /\ ms[Len(locals) + 1] = l
    BY <1>11, <2>3 DEF LocalList, NewIsTyped
  <2> HIDE DEF ms
  <2>5. OwnPointers(ms)
    <3> SUFFICES ASSUME NEW j \in 1..Len(ms) PROVE ms[j].pointer \in {Nothing, ms[j].value}
      BY DEF OwnPointers
    <3>1. j \in 1..Len(locals) \/ j = Len(locals) + 1
      BY <1>11, <2>4
    <3> QED
      BY <1>11, <2>3, <2>4, <3>1 DEF OwnPointers, LocalList, NewIsTyped
  <2>6. LocalList(ms) /\ Len(ms) <= MaxLocals
    BY <1>11, <2>1, <2>4, <2>5 DEF LocalList, Steady, CountsConstants
  <2>7. MoreLocals(locals, ms, r)
    BY <2>3, <2>4 DEF MoreLocals
  <2>8. locals' = ms
    BY <2>1 DEF ms
  <2>9. CallGives(n)
    <3> SUFFICES ASSUME NEW v \in Counted
                 PROVE  n[v] = (((Owned[v] - LocalsOf(locals, v)) - InCalls(natives, v))
                                + LocalsOf(locals', v)) + InCalls(natives', v)
      BY DEF CallGives
    <3>1. InCalls(natives', v) = InCalls(fs, v)
      BY <1>1
    <3>2. LocalsOf(locals', v) = LocalsOf(locals, v) + OneIf(r = v)
      BY <1>11, <2>7, <2>8, LocalsGrow
    <3> QED
      BY <1>4, <1>9, <1>10, <3>1, <3>2
  <2> QED
    BY <1>1, <1>7, <2>1, <2>6, <2>8, <2>9, CallsKeep
<1> QED
  BY <1>12, <1>13

-----------------------------------------------------------------------------
(* The internal store of c, which is made where there is none.             *)

StoreOf(c) == heap.entries[<<c, "store">>]

LEMMA StoreIsAlive ==
  ASSUME Steady, NEW c \in PlainObjects
  PROVE  /\ <<c, "store">> \in Fields /\ c \in Counted /\ c # Root
         /\ StoreOf(c) \in CountedValue /\ Alive(heap, StoreOf(c))
<1>1. <<c, "store">> \in Fields /\ c \in Counted /\ c # Root
  BY DEF Fields, PlainObjects, Steady, CountsConstants
<1> QED
  BY <1>1, EntryIsAlive DEF StoreOf, Steady

LEMMA QjsStoreInv ==
  ASSUME Steady, Room, NEW c \in PlainObjects, NEW a \in CountedArrays, QjsStore(c, a), OthersStay
  PROVE  CountsKept
<1> DEFINE store == StoreOf(c)
<1>1. /\ store \in CountedValue /\ Alive(heap, store) /\ <<c, "store">> \in Fields
      /\ a \in Counted /\ a \in CountedValue /\ Good(heap, Owned)
  BY StoreIsAlive, OwnersAreHeld DEF Steady, CountsConstants, CountedValue
<1>2. CASE store \in CountedArrays
  <2>1. heap' = Inc(heap, store) /\ PushLocal(NewLocal("Value", store))
    BY <1>2 DEF QjsStore, StoreOf
  <2> QED
    BY <1>1, <2>1, CountedIsNew
<1>3. CASE store \notin CountedArrays
  <2> DEFINE h == Dec(Inc(heap, store), store)
             g == MadeValue(h, a)
             m == Plus(Owned, a)
  <2>1. /\ heap' = PutEntry(Inc(g, a), <<c, "store">>, a) /\ PushLocal(NewLocal("Value", a))
        /\ heap.counts[a] = 0
    BY <1>3 DEF QjsStore, StoreOf, Unused
  <2>2. Good(h, Owned) /\ h.counts[a] = 0
    BY <1>1, <1>3, <2>1, LendGood DEF Steady
  <2> HIDE DEF h, store
  <2>3. Good(g, m)
    BY <1>1, <2>2, MadeGood DEF Steady
  <2>4. m[a] > 0
    BY <1>1, <2>2, GoodIsTyped, PlusIs
  <2> HIDE DEF g
  <2>5. Alive(g, a)
    BY <1>1, <2>3, <2>4, GoodIsAlive DEF Alive, Steady
  <2>6. Good(heap', m)
    BY <1>1, <2>1, <2>3, <2>5, StoreGood DEF Steady
  <2> QED
    BY <1>1, <2>1, <2>6, NewKeeps DEF OthersStay
<1> QED
  BY <1>2, <1>3

Again(c, a) == IF StoreOf(c) \in CountedArrays THEN {StoreOf(c)} ELSE {a, StoreOf(c)} \ {Nothing}

LEMMA PyLosesOnce ==
  ASSUME Steady, NEW c \in PlainObjects, NEW a \in CountedArrays, PyLoses(c, a)
  PROVE  /\ lost' \in [Counted -> 0..MaxLost]
         /\ \A v \in Counted : LostMore(v) = OneIf(v \in Again(c, a))
<1> DEFINE again == Again(c, a)
<1>1. /\ \A v \in again : lost[v] < MaxLost
      /\ lost' = [v \in Counted |-> IF v \in again THEN lost[v] + 1 ELSE lost[v]]
  BY DEF PyLoses, Again, StoreOf
<1>2. lost \in [Counted -> 0..MaxLost] /\ MaxLost \in Nat
  BY LostIsTyped DEF Steady, CountsConstants
<1> HIDE DEF again
<1>3. ASSUME NEW v \in Counted PROVE lost'[v] \in 0..MaxLost /\ lost'[v] - lost[v] = OneIf(v \in again)
  BY <1>1, <1>2 DEF OneIf
<1>4. lost' \in [Counted -> 0..MaxLost]
  BY <1>1, <1>3
<1>5. \A v \in Counted : LostMore(v) = OneIf(v \in again)
  BY <1>3 DEF LostMore
<1> QED
  BY <1>4, <1>5 DEF again

LEMMA PyFoundInv ==
  ASSUME Steady, Room, NEW c \in PlainObjects, NEW a \in CountedArrays, PyStore(c, a), PyLoses(c, a),
         StoreOf(c) \in CountedArrays, UNCHANGED <<holder, natives, global, kept>>
  PROVE  CountsKept
<1> DEFINE store == StoreOf(c)
           n == Plus(Owned, store)
           m == Plus(n, store)
           l == NewLocal("Value", store)
<1>1. store \in CountedValue /\ Alive(heap, store) /\ Good(heap, Owned) /\ heap \in Heaps
  BY StoreIsAlive, OwnersAreHeld, GoodIsTyped
<1>2. heap' = Inc(Inc(heap, store), store) /\ PushLocal(l)
  BY DEF PyStore, StoreOf
<1>3. lost' \in [Counted -> 0..MaxLost] /\ \A v \in Counted : LostMore(v) = OneIf(store = v)
  BY PyLosesOnce DEF Again, OneIf
<1>4. NewIsTyped(l) /\ l.value = store
  BY <1>1, NewLocalIsTyped DEF Steady
<1> HIDE DEF store, l
<1>5. Good(Inc(heap, store), n) /\ Alive(Inc(heap, store), store)
  BY <1>1, IncGood, StillAlive DEF Steady
<1>6. \A v \in Counted : n[v] = Owned[v] + OneIf(store = v)
  BY <1>1, GoodIsTyped, PlusIs
<1> HIDE DEF n
<1>7. Good(heap', m)
  BY <1>1, <1>2, <1>5, IncGood DEF Steady
<1>8. \A v \in Counted : m[v] = n[v] + OneIf(store = v)
  BY <1>5, GoodIsTyped, PlusIs
<1> HIDE DEF m
<1>9. PushGives(l, m)
  BY <1>3, <1>4, <1>6, <1>8, OwnersAreHeld DEF PushGives, OneIf
<1> QED
  BY <1>2, <1>3, <1>4, <1>7, <1>9, PushKeeps DEF NewIsTyped

(* The slot takes a over while the old store has another count: nothing    *)
(* ends, and a stays in the slot.                                          *)
LEMMA PyPutGood ==
  ASSUME Steady, NEW c \in PlainObjects, NEW a \in CountedArrays, heap.counts[c] # 0, heap.counts[a] = 0,
         StoreOf(c) # a
  PROVE  LET put == Dec(PutEntry(Inc(MadeValue(Inc(heap, StoreOf(c)), a), a), <<c, "store">>, a), a)
         IN  Good(put, Plus(Owned, StoreOf(c))) /\ Alive(put, a)
<1> DEFINE store == StoreOf(c)
           slot  == <<c, "store">>
           found == Inc(heap, store)
           n     == Plus(Owned, store)
           h     == MadeValue(found, a)
           m     == Plus(n, a)
           k     == Inc(h, a)
           g     == [k EXCEPT !.entries[slot] = a]
           done  == Dec(g, store)
           put   == Dec(done, a)
<1>1. /\ store \in CountedValue /\ Alive(heap, store) /\ store # a /\ slot \in Fields /\ slot[1] = c
      /\ c \in Counted /\ a \in Counted /\ a \in CountedValue /\ Good(heap, Owned) /\ heap \in Heaps
      /\ ChainsEnd(heap) /\ CountsConstants /\ a # Nothing
  BY StoreIsAlive, OwnersAreHeld, GoodIsTyped DEF Steady, CountsConstants, CountedValue, CountsInv
<1>2. \A u \in Counted : heap.counts[u] \in Nat
  BY <1>1 DEF Heaps
<1> HIDE DEF store, slot
<1>3. Good(found, n) /\ found \in Heaps /\ n \in [Counted -> Nat]
  BY <1>1, IncGood, GoodIsTyped
<1>4. /\ found.entries = heap.entries /\ found.counts[a] = 0
      /\ \A u \in Counted : found.counts[u] \in Nat /\ heap.counts[u] <= found.counts[u]
      /\ store # Nothing => found.counts[store] > 1
  <2>1. /\ found.entries = heap.entries
        /\ \A u \in Counted : heap.counts[u] <= found.counts[u]
        /\ \A u \in Counted : u # store => found.counts[u] = heap.counts[u]
    BY <1>1, IncIs
  <2>2. \A u \in Counted : found.counts[u] \in Nat
    BY <1>3 DEF Heaps
  <2>3. store # Nothing => found.counts[store] = heap.counts[store] + 1 /\ heap.counts[store] \in Nat
                           /\ heap.counts[store] > 0
    BY <1>1, <1>2 DEF Inc, Heaps, CountedValue, Alive
  <2> HIDE DEF found
  <2>4. found.counts[a] = 0
    BY <1>1, <2>1
  <2>5. store # Nothing => found.counts[store] > 1
    BY <2>3
  <2> QED
    BY <2>1, <2>2, <2>4, <2>5
<1> HIDE DEF found, n
<1>5. Good(h, m) /\ h \in Heaps /\ m \in [Counted -> Nat] /\ m[a] > 0
  BY <1>1, <1>3, <1>4, MadeGood, GoodIsTyped, PlusIs
<1>6. /\ h.entries = heap.entries /\ h.counts[a] = 1
      /\ \A u \in Counted : u # a => h.counts[u] = found.counts[u]
  BY <1>1, <1>3, <1>4 DEF MadeValue, Heaps
<1> HIDE DEF h, m
<1>7. Good(k, Plus(m, a)) /\ k \in Heaps /\ k.entries = heap.entries
      /\ \A u \in Counted : h.counts[u] <= k.counts[u] /\ k.counts[u] \in Nat /\ h.counts[u] \in Nat
  <2>1. Alive(h, a)
    BY <1>6 DEF Alive
  <2>2. Good(k, Plus(m, a)) /\ k \in Heaps
    BY <1>1, <1>5, <2>1, IncGood, GoodIsTyped
  <2>3. k.entries = h.entries /\ \A u \in Counted : h.counts[u] <= k.counts[u]
    BY <1>1, <1>5, IncIs
  <2>4. \A u \in Counted : k.counts[u] \in Nat /\ h.counts[u] \in Nat
    BY <1>5, <2>2 DEF Heaps
  <2> QED
    BY <1>6, <2>2, <2>3, <2>4
<1>8. done = PutEntry(k, slot, a)
  BY <1>7 DEF PutEntry, StoreOf, store, slot
<1>9. \A u \in Counted : heap.counts[u] <= k.counts[u]
  <2> SUFFICES ASSUME NEW u \in Counted PROVE heap.counts[u] <= k.counts[u]
    OBVIOUS
  <2>1. CASE u = a
    BY <1>7, <2>1
  <2>2. CASE u # a
    <3>1. h.counts[u] = found.counts[u] /\ heap.counts[u] <= found.counts[u]
      BY <1>4, <1>6, <2>2
    <3>2. h.counts[u] <= k.counts[u] /\ k.counts[u] \in Nat /\ h.counts[u] \in Nat
      BY <1>7
    <3> QED
      BY <1>2, <3>1, <3>2
  <2> QED
    BY <2>1, <2>2
<1>10. store # Nothing => k.counts[store] > 1
  <2> SUFFICES ASSUME store # Nothing PROVE k.counts[store] > 1
    OBVIOUS
  <2>1. store \in Counted /\ store # a
    BY <1>1 DEF CountedValue
  <2>2. h.counts[store] = found.counts[store] /\ found.counts[store] > 1 /\ found.counts[store] \in Nat
    BY <1>4, <1>6, <2>1
  <2>3. h.counts[store] <= k.counts[store] /\ k.counts[store] \in Nat
    BY <1>7, <2>1
  <2> QED
    BY <2>2, <2>3
<1> HIDE DEF k
<1> DEFINE p == Plus(Minus(Plus(m, a), a), store)
<1>11. Plus(m, a)[a] > 0
  BY <1>1, <1>5, PlusIs
<1>12. Good(g, p) /\ g.counts = k.counts
  <2>1. k.entries[slot] = store
    BY <1>7 DEF StoreOf, store, slot
  <2> HIDE DEF g
  <2> QED
    BY <1>1, <1>7, <1>11, <2>1, EntryGood DEF g
<1>13. g.entries = [heap.entries EXCEPT ![slot] = a] /\ g.entries[slot] = a
       /\ \A s \in Fields : s # slot => g.entries[s] = heap.entries[s]
  BY <1>1, <1>7 DEF Heaps
<1> HIDE DEF g, p
<1>14. ChainsEnd(g)
  <2> SUFFICES ASSUME NEW s \in Fields, s[1] # Root, g.counts[s[1]] = 0
               PROVE  g.entries[s] = Nothing
    BY DEF ChainsEnd
  <2>1. s[1] \in Counted
    BY <1>1, FieldsOfObjects
  <2>2. heap.counts[s[1]] = 0
    BY <1>2, <1>7, <1>9, <1>12, <2>1
  <2>3. s # slot
    BY <1>1, <2>2
  <2>4. heap.entries[s] = Nothing
    BY <1>1, <2>2 DEF ChainsEnd
  <2> QED
    BY <1>13, <2>3, <2>4
<1>15. done.entries = g.entries /\ ChainsEnd(done)
  BY <1>1, <1>10, <1>12, <1>14, DecIs
<1>16. Good(done, m)
  <2>1. Good(PutEntry(k, slot, a), Minus(Plus(m, a), a))
    BY <1>1, <1>7, <1>11, PutGood
  <2> QED
    BY <1>1, <1>5, <1>8, <2>1, MinusOfPlus
<1> HIDE DEF done
<1>17. done.counts[a] > 1
  <2>1. InSlots(done.entries, a) > 0 /\ InSlots(done.entries, a) \in Nat
    BY <1>1, <1>13, <1>15, SlotsAreCounted
  <2>2. done.counts[a] = InSlots(done.entries, a) + m[a] /\ m[a] \in Nat
    BY <1>1, <1>16, GoodIsAlive
  <2> QED
    BY <1>5, <2>1, <2>2
<1>18. put.entries = done.entries
  BY <1>1, <1>15, <1>16, <1>17, DecIs
<1>19. Good(put, n)
  <2>1. Good(put, Minus(m, a))
    BY <1>1, <1>5, <1>16, DecGood
  <2> QED
    BY <1>1, <1>3, <2>1, MinusOfPlus DEF m
<1> HIDE DEF put
<1>20. Alive(put, a)
  <2>1. put.entries[slot] = a
    BY <1>13, <1>15, <1>18
  <2> QED
    BY <1>1, <1>19, <2>1, GoodIsAlive
<1>21. Good(put, n) /\ Alive(put, a)
  BY <1>19, <1>20
<1> QED
  BY <1>8, <1>21 DEF put, k, h, found, n, store, slot

LEMMA PyMadeInv ==
  ASSUME Steady, Room, NEW c \in PlainObjects, NEW a \in CountedArrays, PyStore(c, a), PyLoses(c, a),
         ~Unused(c), StoreOf(c) \notin CountedArrays, UNCHANGED <<holder, natives, global, kept>>
  PROVE  CountsKept
<1> DEFINE store == StoreOf(c)
           put == Dec(PutEntry(Inc(MadeValue(Inc(heap, store), a), a), <<c, "store">>, a), a)
           n == Plus(Owned, store)
           m == Plus(n, a)
           q == Plus(m, a)
           l == NewLocal("Value", a)
<1>1. /\ store \in CountedValue /\ a \in Counted /\ a \in CountedValue /\ store # a /\ CountsConstants
      /\ Owned \in [Counted -> Nat]
  BY StoreIsAlive, OwnersAreHeld, GoodIsTyped DEF Steady, CountsConstants, CountedValue
<1>2. heap' = Inc(Inc(put, a), a) /\ PushLocal(l) /\ heap.counts[a] = 0 /\ heap.counts[c] # 0
  BY DEF PyStore, StoreOf, Unused
<1>3. lost' \in [Counted -> 0..MaxLost]
      /\ \A v \in Counted : LostMore(v) = OneIf(store = v) + OneIf(a = v)
  BY <1>1, PyLosesOnce DEF Again, OneIf, CountsConstants
<1>4. NewIsTyped(l) /\ l.value = a
  BY <1>1, NewLocalIsTyped DEF Steady
<1>5. Good(put, n) /\ Alive(put, a)
  BY <1>1, <1>2, PyPutGood
<1> HIDE DEF store, put, l
<1>6. n \in [Counted -> Nat] /\ \A v \in Counted : n[v] = Owned[v] + OneIf(store = v)
  BY <1>1, PlusIs
<1> HIDE DEF n
<1>7. Good(Inc(put, a), m) /\ Alive(Inc(put, a), a)
  BY <1>1, <1>5, IncGood, StillAlive, GoodIsTyped
<1>8. m \in [Counted -> Nat] /\ \A v \in Counted : m[v] = n[v] + OneIf(a = v)
  BY <1>6, PlusIs
<1> HIDE DEF m
<1>9. Good(heap', q)
  BY <1>1, <1>2, <1>7, IncGood
<1>10. \A v \in Counted : q[v] = m[v] + OneIf(a = v)
  BY <1>8, PlusIs
<1> HIDE DEF q
<1>11. PushGives(l, q)
  <2> SUFFICES ASSUME NEW v \in Counted
               PROVE  q[v] = Owned[v] + OneIf(l.value = v) + LostMore(v)
    BY DEF PushGives
  <2>1. Owned[v] \in Nat /\ OneIf(a = v) \in Nat /\ OneIf(store = v) \in Nat
    BY <1>1 DEF OneIf
  <2> QED
    BY <1>3, <1>4, <1>6, <1>8, <1>10, <2>1
<1> QED
  BY <1>2, <1>3, <1>4, <1>9, <1>11, PushKeeps DEF NewIsTyped

LEMMA GetInternalStoreInv ==
  ASSUME Steady, Room, NEW c \in PlainObjects, NEW a \in CountedArrays, GetInternalStore(c, a)
  PROVE  CountsKept
<1>1. CASE backend = "QuickJs"
  BY <1>1, QjsStoreInv DEF GetInternalStore, OthersStay
<1>2. CASE backend # "QuickJs"
  BY <1>2, PyFoundInv, PyMadeInv DEF GetInternalStore
<1> QED
  BY <1>1, <1>2

-----------------------------------------------------------------------------

LEMMA CountsInitInv ==
  ASSUME CountsConstants, backend \in {"QuickJs", "Python"}, CountsInit PROVE CountsInv
<1>1. CountsTyped
  BY DEF CountsInit, CountsTyped, CountsConstants, NoHolder, CountedValue
<1>2. NoResultYet /\ PointersAreOwn /\ ChainsEnd(heap)
  BY DEF CountsInit, NoResultYet, PointersAreOwn, ChainsEnd
<1>3. heap \in Heaps /\ ~heap.wild
  BY DEF CountsInit, Heaps, CountedValue
<1>4. ASSUME NEW v \in Counted
      PROVE  /\ InSlots(heap.entries, v) = 0 /\ heap.counts[v] = 0
             /\ Owned[v] = 0
  <2>1. v # Nothing
    BY DEF CountsConstants
  <2>2. {s \in Fields : heap.entries[s] = v} = {}
    BY <2>1 DEF CountsInit
  <2>3. InSlots(heap.entries, v) = 0
    BY <2>2, FS_EmptySet DEF InSlots
  <2>4. Len(locals) = 0 /\ Len(natives) = 0
    BY DEF CountsInit
  <2>5. \A f : CountIn(0, f, v) = 0
    BY FS_EmptySet DEF CountIn
  <2>6. LocalsOf(locals, v) = 0 /\ ArgumentsOf(natives, v) = 0 /\ ResultsOf(natives, v) = 0
    BY <2>4, <2>5 DEF LocalsOf, ArgumentsOf, ResultsOf
  <2>7. OneIf(global = v) = 0 /\ OneIf(kept = v) = 0 /\ OneIf(Lent = v) = 0 /\ lost[v] = 0
    BY <2>1 DEF CountsInit, OneIf, Lent, NoHolder
  <2>8. Owned[v] = 0
    BY <2>6, <2>7, OwnedIs
  <2> QED
    BY <2>3, <2>8 DEF CountsInit
<1>5. Owned \in [Counted -> Nat]
  <2>1. Owned = [v \in Counted |-> Owned[v]]
    BY DEF Owned, OwnedBy
  <2> QED
    BY <1>4, <2>1
<1>6. Good(heap, Owned)
  BY <1>3, <1>4, <1>5 DEF Good
<1> QED
  BY <1>1, <1>2, <1>6 DEF CountsInv

LEMMA RunInv == ASSUME Steady, ~Returning, CountsRun PROVE CountsKept
<1>1. CASE Room /\ \/ \E v \in Counted \ CountedBytes : New(v)
                   \/ \E v \in CountedBytes : NewByteBuffer(v)
  <2>1. CountedBytes \subseteq Counted
    BY DEF Steady, CountsConstants
  <2> QED
    BY <1>1, <2>1, NewInv, NewByteBufferInv
<1>2. CASE Room /\ \E i \in Own : CopyLocal(i) \/ MoveLocal(i) \/ AsValue(i) \/ As(i, "Bytes")
  BY <1>2, OwnIsIndex, CopyLocalInv, MoveLocalInv, AsInv DEF AsValue
<1>3. CASE Room /\ (GlobalGet \/ Argument)
  BY <1>3, GlobalGetInv, ArgumentInv
<1>4. CASE Room /\ \E slot \in Containers : GetEntry(slot)
  BY <1>4, ContainersAreFields, GetInv
<1>5. CASE Room /\ \E a \in CountedArrays, i \in Own : locals[i].value # a /\ NewArray(a, i)
  BY <1>5, OwnIsIndex, NewArrayInv
<1>6. CASE Room /\ \/ \E c \in PlainObjects : GetScriptObject(c)
                   \/ \E c \in PlainObjects, a \in CountedArrays : GetInternalStore(c, a)
  BY <1>6, GetScriptObjectInv, GetInternalStoreInv
<1>7. CASE Room /\ \E i \in Own, stores \in BOOLEAN : CallScript(i, stores, <<Root, "x">>)
  <2>1. <<Root, "x">> \in Fields
    BY DEF Fields
  <2> QED
    BY <1>7, <2>1, OwnIsIndex, CallScriptInv
<1>8. CASE \E i, j \in Own : CopyAssign(i, j) \/ MoveAssign(i, j) \/ Swap(i, j)
  BY <1>8, OwnIsIndex, CopyAssignInv, MoveAssignInv, SwapInv
<1>9. CASE \E i \in Own : \/ Reset(i) \/ FillTypeAndSize(i) \/ ToStringHolder(i) \/ GlobalAssign(i)
                          \/ \E slot \in Containers : SetEntry(slot, i)
                          \/ Return(i)
  BY <1>9, OwnIsIndex, ContainersAreFields,
     ResetInv, FillTypeAndSizeInv, ToStringHolderInv, GlobalAssignInv, SetInv, ReturnInv
<1>10. CASE GlobalReset \/ NextLoop
  BY <1>10, GlobalResetInv, NextLoopInv
<1>11. CASE \E slot \in Containers : RemoveSlot(slot) \/ CallNative(slot)
  BY <1>11, ContainersAreFields, RemoveSlotInv, CallNativeInv
<1>12. CASE \E c \in PlainObjects : ConstructFromCpp(c)
  BY <1>12, ConstructFromCppInv
<1>13. CASE \E slot \in Fields, v \in {heap.entries[s] : s \in Fields} \cup {Nothing} :
              ScriptSets(slot, v)
  BY <1>13, ScriptAssignsInv
<1> QED
  BY <1>1, <1>2, <1>3, <1>4, <1>5, <1>6, <1>7, <1>8, <1>9, <1>10, <1>11, <1>12, <1>13 DEF CountsRun

LEMMA CountsNextInv ==
  ASSUME CountsConstants, CountsInv, [CountsNext]_countVars PROVE CountsInv'
<1>1. CASE CountsNext
  <2>1. Steady /\ ChainsEnd(heap')
    BY <1>1 DEF CountsNext, Steady
  <2>2. CountsKept
    BY <1>1, <2>1, RunInv, EndLocalInv, EndStringHolderInv, LeaveFrameInv DEF CountsNext
  <2> QED
    BY <2>1, <2>2 DEF CountsKept, CountsInv
<1>2. CASE UNCHANGED countVars
  BY <1>2 DEF countVars, CountsInv, CountsTyped, NoResultYet, PointersAreOwn, Owned, OwnedBy, Lent
<1> QED
  BY <1>1, <1>2

LEMMA CountsInvAgrees == ASSUME CountsConstants, CountsInv PROVE CountsAgree
<1>1. ASSUME NEW v \in Counted PROVE heap.counts[v] = Owners(v) + lost[v]
  <2> DEFINE inLocals == Cardinality({i \in 1..Len(locals) : locals[i].value = v})
             slots == Cardinality({s \in Fields : heap.entries[s] = v})
             arguments == Cardinality({d \in 1..Len(natives) : natives[d].argument = v})
             results == Cardinality({d \in 1..Len(natives) : natives[d].result = v})
  <2>1. LocalsOf(locals, v) = inLocals
    <3>1. {i \in 1..Len(locals) : [j \in 1..Len(locals) |-> locals[j].value][i] = v}
            = {i \in 1..Len(locals) : locals[i].value = v}
      OBVIOUS
    <3> QED
      BY <3>1 DEF LocalsOf, CountIn
  <2>2. ArgumentsOf(natives, v) = arguments
    <3>1. {d \in 1..Len(natives) : [e \in 1..Len(natives) |-> natives[e].argument][d] = v}
            = {d \in 1..Len(natives) : natives[d].argument = v}
      OBVIOUS
    <3> QED
      BY <3>1 DEF ArgumentsOf, CountIn
  <2>3. ResultsOf(natives, v) = results
    <3>1. {d \in 1..Len(natives) : [e \in 1..Len(natives) |-> natives[e].result][d] = v}
            = {d \in 1..Len(natives) : natives[d].result = v}
      OBVIOUS
    <3> QED
      BY <3>1 DEF ResultsOf, CountIn
  <2>4. InSlots(heap.entries, v) = slots /\ slots \in Nat
    BY SlotsAreCounted DEF InSlots
  <2>5. heap.counts[v] = InSlots(heap.entries, v) + Owned[v]
    BY GoodIsAlive DEF CountsInv
  <2>6. Owned[v] = LocalsOf(locals, v) + ArgumentsOf(natives, v) + ResultsOf(natives, v)
                   + OneIf(global = v) + OneIf(kept = v) + OneIf(Lent = v) + lost[v]
    BY OwnedIs
  <2>7. /\ LocalsOf(locals, v) \in Nat /\ ArgumentsOf(natives, v) \in Nat
        /\ ResultsOf(natives, v) \in Nat /\ lost[v] \in Nat
    BY OwnersAreTyped
  <2>8. (IF backend = "QuickJs" /\ holder.value = v THEN 1 ELSE 0) = OneIf(Lent = v)
    BY DEF OneIf, Lent, CountsConstants
  <2>9. /\ (IF global = v THEN 1 ELSE 0) = OneIf(global = v)
        /\ (IF kept = v THEN 1 ELSE 0) = OneIf(kept = v)
        /\ OneIf(global = v) \in Nat /\ OneIf(kept = v) \in Nat /\ OneIf(Lent = v) \in Nat
    BY DEF OneIf
  <2>10. Owners(v) = inLocals + slots + arguments + results
                     + OneIf(global = v) + OneIf(kept = v) + OneIf(Lent = v)
    BY <2>8, <2>9 DEF Owners
  <2> DEFINE r == inLocals + arguments + results
                  + OneIf(global = v) + OneIf(kept = v) + OneIf(Lent = v)
  <2>11. inLocals \in Nat /\ arguments \in Nat /\ results \in Nat /\ slots \in Nat
    BY <2>1, <2>2, <2>3, <2>4, <2>7
  <2>12. r \in Nat
    BY <2>9, <2>11
  <2>13. Owned[v] = r + lost[v]
    BY <2>1, <2>2, <2>3, <2>6
  <2>14. Owners(v) = r + slots
    BY <2>9, <2>10, <2>11
  <2>15. heap.counts[v] = slots + Owned[v]
    BY <2>4, <2>5
  <2> HIDE DEF inLocals, slots, arguments, results, r
  <2> QED
    BY <2>7, <2>11, <2>12, <2>13, <2>14, <2>15
<1>2. ~heap.wild /\ PointersAreOwn
  BY DEF CountsInv, Good
<1> QED
  BY <1>1, <1>2 DEF CountsAgree, CountsAreOwned, FreedIsUnused

(* In QuickJs and Python every count of a value belongs to one Local,      *)
(* Global, slot, argument, result or StringHolder, or to one of the two    *)
(* known losses; nothing that was freed is used, and the address that a    *)
(* Local<ByteBuffer> remembers is in its own buffer: whatever C++ code and *)
(* scripts do with Locals, for any values, Locals and depth of calls.      *)
THEOREM CountsAlwaysAgree == CountsSpec => []CountsAgree
<1> USE CountsAssumption
<1>1. backend \in {"QuickJs", "Python"} /\ CountsInit => CountsInv
  BY CountsInitInv
<1>2. CountsInv /\ [CountsNext]_countVars => CountsInv'
  BY CountsNextInv
<1>3. CountsInv => CountsAgree
  BY CountsInvAgrees
<1> QED
  BY <1>1, <1>2, <1>3, PTL DEF CountsSpec

(* The state of LocalCounts stays within its types and bounds.             *)
THEOREM CountsAreTyped == CountsSpec => []CountsTypeOK
<1> USE CountsAssumption
<1>1. backend \in {"QuickJs", "Python"} /\ CountsInit => CountsInv
  BY CountsInitInv
<1>2. CountsInv /\ [CountsNext]_countVars => CountsInv'
  BY CountsNextInv
<1>3. CountsInv => CountsTypeOK
  BY DEF CountsInv, CountsTyped, Good, Heaps, CountsTypeOK
<1> QED
  BY <1>1, <1>2, <1>3, PTL DEF CountsSpec
=============================================================================
