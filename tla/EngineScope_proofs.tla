------------------------- MODULE EngineScope_proofs -------------------------
(***************************************************************************)
(* Nested scopes and exits keep every engine exclusive and every lock      *)
(* balanced, for any threads, engines, isolates and depth.                 *)
(***************************************************************************)
EXTENDS EngineScope, SequenceTheorems, TLAPS

(* The locks that t has.                                                   *)
HeldBy(t) == {l \in Locks : held[t][l] > 0}

(* o leads from the locks S to R: nothing is locked twice, nothing is      *)
(* unlocked that is not locked, and where the previous engine is given up  *)
(* first nothing is locked on top of something else.                       *)
Does(S, o, R) ==
  \/ o.op = "lock" /\ o.lock \notin S /\ R = S \cup {o.lock} /\ (Recursive => S = {})
  \/ o.op = "unlock" /\ o.lock \in S /\ R = S \ {o.lock}

(* The same for the programs of constructors and destructors, which have   *)
(* two operations at most.                                                 *)
Leads(S, ops, R) ==
  \/ ops = << >> /\ S = R
  \/ Len(ops) = 1 /\ Does(S, ops[1], R)
  \/ Len(ops) = 2 /\ \E M \in SUBSET Locks : Does(S, ops[1], M) /\ Does(M, ops[2], R)

(* H says which locks are held inside each scope of a stack s: that of the *)
(* scope's engine; outside V8 no other; not that of an engine that is      *)
(* exited. Destructors lead from each to the one outside it.               *)
Fits(s, H) ==
  /\ H \in [0..Len(s) -> SUBSET Locks]
  /\ H[0] = {}
  /\ \A i \in 1..Len(s) :
       /\ s[i].engine # NoEngine => LockOf(s[i].engine) \in H[i]
       /\ backend # "V8" => H[i] = {s[i].engine} \ {NoEngine}
       /\ Leads(H[i], s[i].onLeave, H[i - 1])
       /\ i > 1 /\ s[i].engine = NoEngine /\ s[i - 1].engine # NoEngine =>
            LockOf(s[i - 1].engine) \notin H[i]

(* What t has left to do leads to what its innermost scope is to hold.     *)
Balanced(t) ==
  \E H \in [0..Len(scopes[t]) -> SUBSET Locks] :
    Fits(scopes[t], H) /\ Leads(HeldBy(t), todo[t], H[Len(scopes[t])])

HeldOnce == \A t \in Threads, l \in Locks : held[t][l] \in 0..1

Exclusive ==
  \A t, u \in Threads, l \in Locks : held[t][l] > 0 /\ held[u][l] > 0 => t = u

ScopeInv == TypeOK /\ HeldOnce /\ Exclusive /\ \A t \in Threads : Balanced(t)

-----------------------------------------------------------------------------

LEMMA LockIsLock == ASSUME NEW e \in Engines PROVE LockOf(e) \in Locks
  BY EngineScopeAssumption DEF LockOf, Locks

LEMMA ScopeInit == Init => ScopeInv
<1> SUFFICES ASSUME Init PROVE ScopeInv
  OBVIOUS
<1>1. TypeOK
  BY EngineScopeAssumption DEF Init, TypeOK, Scope, Op, Locks
<1>2. HeldOnce /\ Exclusive
  BY DEF Init, HeldOnce, Exclusive
<1>3. ASSUME NEW t \in Threads PROVE Balanced(t)
  <2> DEFINE H == [i \in 0..0 |-> {}]
  <2>1. Len(scopes[t]) = 0 /\ todo[t] = << >> /\ HeldBy(t) = {}
    BY <1>3 DEF Init, HeldBy
  <2>2. H \in [0..Len(scopes[t]) -> SUBSET Locks] /\ H[0] = {}
    BY <2>1
  <2>3. Fits(scopes[t], H)
    BY <2>1, <2>2 DEF Fits
  <2>4. Leads(HeldBy(t), todo[t], H[Len(scopes[t])])
    BY <2>1, <2>2 DEF Leads
  <2> QED BY <2>2, <2>3, <2>4 DEF Balanced
<1> QED BY <1>1, <1>2, <1>3 DEF ScopeInv

-----------------------------------------------------------------------------
(* Stacks                                                                  *)

(* A scope that is pushed onto a stack that fits.                          *)
LEMMA PushFits ==
  ASSUME NEW s \in Seq(Scope), NEW H, NEW R \in SUBSET Locks, NEW scope \in Scope,
         Fits(s, H),
         scope.engine # NoEngine => LockOf(scope.engine) \in R,
         backend # "V8" => R = {scope.engine} \ {NoEngine},
         Leads(R, scope.onLeave, H[Len(s)]),
         Len(s) > 0 /\ scope.engine = NoEngine /\ s[Len(s)].engine # NoEngine =>
           LockOf(s[Len(s)].engine) \notin R
  PROVE  \E G \in [0..Len(Append(s, scope)) -> SUBSET Locks] :
           Fits(Append(s, scope), G) /\ G[Len(Append(s, scope))] = R
<1> DEFINE n == Len(s)
           a == Append(s, scope)
           G == [i \in 0..(n + 1) |-> IF i = n + 1 THEN R ELSE H[i]]
<1>1. n \in Nat /\ a \in Seq(Scope) /\ Len(a) = n + 1 /\ a[n + 1] = scope
      /\ \A i \in 1..n : a[i] = s[i]
  OBVIOUS
<1>2. H \in [0..n -> SUBSET Locks]
  BY DEF Fits
<1>3. G \in [0..Len(a) -> SUBSET Locks]
  BY <1>1, <1>2
<1>4. G[n + 1] = R /\ \A i \in 0..n : G[i] = H[i]
  BY <1>1
<1>5. G[0] = {}
  BY <1>1, <1>4 DEF Fits
<1>6. ASSUME NEW i \in 1..(n + 1)
      PROVE  /\ a[i].engine # NoEngine => LockOf(a[i].engine) \in G[i]
             /\ backend # "V8" => G[i] = {a[i].engine} \ {NoEngine}
             /\ Leads(G[i], a[i].onLeave, G[i - 1])
             /\ i > 1 /\ a[i].engine = NoEngine /\ a[i - 1].engine # NoEngine =>
                  LockOf(a[i - 1].engine) \notin G[i]
  <2>1. CASE i = n + 1
    <3>1. G[i] = R /\ G[i - 1] = H[n] /\ a[i] = scope
      BY <2>1, <1>1, <1>4
    <3>2. i > 1 => a[i - 1] = s[n] /\ n > 0
      BY <2>1, <1>1
    <3> QED BY <3>1, <3>2
  <2>2. CASE i # n + 1
    <3>1. i \in 1..n /\ i - 1 \in 0..n /\ i \in 0..n
      BY <2>2, <1>1
    <3>2. G[i] = H[i] /\ G[i - 1] = H[i - 1] /\ a[i] = s[i]
      BY <3>1, <1>1, <1>4
    <3>3. i > 1 => a[i - 1] = s[i - 1]
      BY <3>1, <1>1
    <3>4. /\ s[i].engine # NoEngine => LockOf(s[i].engine) \in H[i]
          /\ backend # "V8" => H[i] = {s[i].engine} \ {NoEngine}
          /\ Leads(H[i], s[i].onLeave, H[i - 1])
          /\ i > 1 /\ s[i].engine = NoEngine /\ s[i - 1].engine # NoEngine =>
               LockOf(s[i - 1].engine) \notin H[i]
      BY <3>1 DEF Fits
    <3> HIDE DEF a, G
    <3> QED BY <3>2, <3>3, <3>4
  <2> QED BY <2>1, <2>2
<1>7. Fits(a, G)
  <2> HIDE DEF a, G
  <2> QED BY <1>1, <1>3, <1>5, <1>6 DEF Fits
<1> QED BY <1>1, <1>3, <1>4, <1>7

(* The stack without its innermost scope.                                  *)
LEMMA PopFits ==
  ASSUME NEW s \in Seq(Scope), s # << >>, NEW H, Fits(s, H)
  PROVE  \E G \in [0..Len(SubSeq(s, 1, Len(s) - 1)) -> SUBSET Locks] :
           /\ Fits(SubSeq(s, 1, Len(s) - 1), G)
           /\ G[Len(SubSeq(s, 1, Len(s) - 1))] = H[Len(s) - 1]
<1> DEFINE n == Len(s) - 1
           a == SubSeq(s, 1, n)
           G == [i \in 0..n |-> H[i]]
<1>1. n \in Nat /\ Len(s) = n + 1 /\ Len(a) = n /\ \A i \in 1..n : a[i] = s[i]
  <2>1. Len(s) \in Nat \ {0}
    BY EmptySeq
  <2>2. \A i \in 1..n : s[i] \in Scope
    BY <2>1, ElementOfSeq
  <2>3. /\ Len(a) = IF 1 <= n THEN n - 1 + 1 ELSE 0
        /\ \A i \in 1..n - 1 + 1 : a[i] = s[1 + i - 1]
    BY <2>1, <2>2, SubSeqProperties
  <2>4. n \in Nat /\ Len(s) = n + 1
    BY <2>1
  <2> HIDE DEF a, n
  <2>5. Len(a) = n
    BY <2>3, <2>4
  <2>6. ASSUME NEW i \in 1..n PROVE a[i] = s[i]
    <3>1. i \in 1..n - 1 + 1 /\ 1 + i - 1 = i
      BY <2>4
    <3> QED BY <2>3, <3>1
  <2> QED BY <2>4, <2>5, <2>6
<1>2. H \in [0..(n + 1) -> SUBSET Locks] /\ H[0] = {}
  BY <1>1 DEF Fits
<1>3. G \in [0..n -> SUBSET Locks] /\ G[0] = {} /\ \A i \in 0..n : G[i] = H[i]
  BY <1>1, <1>2
<1>4. ASSUME NEW i \in 1..n
      PROVE  /\ a[i].engine # NoEngine => LockOf(a[i].engine) \in G[i]
             /\ backend # "V8" => G[i] = {a[i].engine} \ {NoEngine}
             /\ Leads(G[i], a[i].onLeave, G[i - 1])
             /\ i > 1 /\ a[i].engine = NoEngine /\ a[i - 1].engine # NoEngine =>
                  LockOf(a[i - 1].engine) \notin G[i]
  <2>1. i \in 1..Len(s) /\ i - 1 \in 0..n /\ i \in 0..n
    BY <1>1
  <2>2. G[i] = H[i] /\ G[i - 1] = H[i - 1] /\ a[i] = s[i]
    BY <2>1, <1>1, <1>3
  <2>3. i > 1 => a[i - 1] = s[i - 1]
    BY <2>1, <1>1
  <2>4. /\ s[i].engine # NoEngine => LockOf(s[i].engine) \in H[i]
        /\ backend # "V8" => H[i] = {s[i].engine} \ {NoEngine}
        /\ Leads(H[i], s[i].onLeave, H[i - 1])
        /\ i > 1 /\ s[i].engine = NoEngine /\ s[i - 1].engine # NoEngine =>
             LockOf(s[i - 1].engine) \notin H[i]
    BY <2>1 DEF Fits
  <2> HIDE DEF a, G
  <2> QED BY <2>2, <2>3, <2>4
<1>5. Fits(a, G)
  <2> HIDE DEF a, G
  <2> QED BY <1>1, <1>3, <1>4 DEF Fits
<1> QED BY <1>1, <1>3, <1>5

-----------------------------------------------------------------------------
(* Programs of lock operations                                             *)

LEMMA NothingToDo == \A S, R : Leads(S, << >>, R) <=> S = R
  BY DEF Leads

LEMMA OneToDo ==
  ASSUME NEW S, NEW R, NEW o, Does(S, o, R)
  PROVE  Leads(S, <<o>>, R)
  BY DEF Leads

LEMMA TwoToDo ==
  ASSUME NEW S, NEW M \in SUBSET Locks, NEW R, NEW o, NEW p, Does(S, o, M), Does(M, p, R)
  PROVE  Leads(S, <<o, p>>, R)
<1>1. Len(<<o, p>>) = 2 /\ <<o, p>>[1] = o /\ <<o, p>>[2] = p
  OBVIOUS
<1> QED BY <1>1 DEF Leads

(* Doing the first operation of a program leads to where the others start. *)
LEMMA FirstIsDone ==
  ASSUME NEW S, NEW R \in SUBSET Locks, NEW ops \in Seq(Op), ops # << >>, Leads(S, ops, R)
  PROVE  \E M \in SUBSET Locks : Does(S, Head(ops), M) /\ Leads(M, Tail(ops), R)
<1>1. Head(ops) = ops[1] /\ Len(Tail(ops)) = Len(ops) - 1
  BY HeadTailProperties
<1>2. CASE Len(ops) = 1
  <2>1. Tail(ops) \in Seq(Op) /\ Len(Tail(ops)) = 0
    BY <1>1, <1>2, HeadTailProperties
  <2>2. Tail(ops) = << >>
    BY <2>1, EmptySeq
  <2>3. Does(S, ops[1], R)
    BY <1>2 DEF Leads
  <2> QED BY <1>1, <2>2, <2>3, NothingToDo
<1>3. CASE Len(ops) = 2
  <2>1. PICK M \in SUBSET Locks : Does(S, ops[1], M) /\ Does(M, ops[2], R)
    BY <1>3 DEF Leads
  <2>2. Len(Tail(ops)) = 1 /\ Tail(ops)[1] = ops[2]
    BY <1>1, <1>3, HeadTailProperties
  <2> QED BY <1>1, <2>1, <2>2 DEF Leads
<1> QED BY <1>2, <1>3 DEF Leads

-----------------------------------------------------------------------------
(* Steps                                                                   *)

LEMMA BalancedNext ==
  ASSUME NEW t \in Threads, backend' = backend,
         NEW H \in [0..Len(scopes'[t]) -> SUBSET Locks],
         Fits(scopes'[t], H),
         Leads({l \in Locks : held'[t][l] > 0}, todo'[t], H[Len(scopes'[t])])
  PROVE  Balanced(t)'
<1>1. H \in [0..Len(scopes'[t]) -> SUBSET Locks] /\ H[0] = {}
  BY DEF Fits
<1>2. ASSUME NEW i \in 1..Len(scopes'[t])
      PROVE  /\ scopes'[t][i].engine # NoEngine => LockOf(scopes[t][i].engine)' \in H[i]
             /\ backend' # "V8" => H[i] = {scopes'[t][i].engine} \ {NoEngine}
             /\ Leads(H[i], scopes[t][i].onLeave, H[i - 1])'
             /\ i > 1 /\ scopes'[t][i].engine = NoEngine /\ scopes'[t][i - 1].engine # NoEngine
                  => LockOf(scopes[t][i - 1].engine)' \notin H[i]
  <2>1. /\ scopes'[t][i].engine # NoEngine => LockOf(scopes'[t][i].engine) \in H[i]
        /\ backend # "V8" => H[i] = {scopes'[t][i].engine} \ {NoEngine}
        /\ Leads(H[i], scopes'[t][i].onLeave, H[i - 1])
        /\ i > 1 /\ scopes'[t][i].engine = NoEngine /\ scopes'[t][i - 1].engine # NoEngine
             => LockOf(scopes'[t][i - 1].engine) \notin H[i]
    BY DEF Fits
  <2>2. Leads(H[i], scopes[t][i].onLeave, H[i - 1])'
    BY <2>1 DEF Leads, Does, Recursive
  <2> QED BY <2>1, <2>2 DEF LockOf
<1>3. Fits(scopes[t], H)'
  BY <1>1, <1>2 DEF Fits, Locks
<1>4. Leads(HeldBy(t), todo[t], H[Len(scopes[t])])'
  BY DEF Leads, Does, Recursive, HeldBy
<1> QED BY <1>3, <1>4 DEF Balanced, Locks

LEMMA Untouched ==
  ASSUME NEW t \in Threads, Balanced(t), backend' = backend,
         scopes'[t] = scopes[t], todo'[t] = todo[t], held'[t] = held[t]
  PROVE  Balanced(t)'
<1>1. PICK H \in [0..Len(scopes[t]) -> SUBSET Locks] :
        Fits(scopes[t], H) /\ Leads(HeldBy(t), todo[t], H[Len(scopes[t])])
  BY DEF Balanced
<1> QED BY <1>1, BalancedNext DEF HeldBy

(* What a thread has whose constructors and destructors are done.          *)
LEMMA InUserCode ==
  ASSUME TypeOK, NEW t \in Threads, Balanced(t), Settled(t)
  PROVE  /\ CurrentEngine(t) \in Engines \cup {NoEngine}
         /\ CurrentEngine(t) # NoEngine => LockOf(CurrentEngine(t)) \in HeldBy(t)
         /\ backend # "V8" => HeldBy(t) = {CurrentEngine(t)} \ {NoEngine}
<1> DEFINE s == scopes[t]
<1>1. s \in Seq(Scope) /\ todo[t] = << >>
  BY DEF TypeOK, Settled
<1>2. PICK H \in [0..Len(s) -> SUBSET Locks] : Fits(s, H) /\ Leads(HeldBy(t), todo[t], H[Len(s)])
  BY DEF Balanced
<1>3. HeldBy(t) = H[Len(s)]
  BY <1>1, <1>2, NothingToDo
<1>4. CASE s = << >>
  BY <1>2, <1>3, <1>4 DEF CurrentEngine, Fits
<1>5. CASE s # << >>
  <2>1. Len(s) \in 1..Len(s) /\ s[Len(s)] \in Scope
    BY <1>1, <1>5, EmptySeq, ElementOfSeq
  <2>2. CurrentEngine(t) = s[Len(s)].engine
    BY <1>5 DEF CurrentEngine
  <2> HIDE DEF s
  <2> QED BY <1>2, <1>3, <2>1, <2>2 DEF Fits, Scope
<1> QED BY <1>4, <1>5

LEMMA PushBalances ==
  ASSUME TypeOK, NEW t \in Threads, Balanced(t), Settled(t),
         NEW engine \in Engines \cup {NoEngine}, NEW steps, NEW onLeave \in Seq(Op),
         NEW R \in SUBSET Locks,
         Push(t, engine, steps, onLeave),
         Leads(HeldBy(t), steps, R),
         Leads(R, onLeave, HeldBy(t)),
         engine # NoEngine => LockOf(engine) \in R,
         backend # "V8" => R = {engine} \ {NoEngine},
         engine = NoEngine /\ CurrentEngine(t) # NoEngine => LockOf(CurrentEngine(t)) \notin R
  PROVE  Balanced(t)'
<1> DEFINE s == scopes[t]
           scope == [engine |-> engine, onLeave |-> onLeave]
<1>1. s \in Seq(Scope) /\ todo[t] = << >> /\ scope \in Scope
  BY DEF TypeOK, Settled, Scope
<1>2. PICK H \in [0..Len(s) -> SUBSET Locks] : Fits(s, H) /\ Leads(HeldBy(t), todo[t], H[Len(s)])
  BY DEF Balanced
<1>3. HeldBy(t) = H[Len(s)]
  BY <1>1, <1>2, NothingToDo
<1>4. Len(s) > 0 => CurrentEngine(t) = s[Len(s)].engine
  BY <1>1, EmptySeq DEF CurrentEngine
<1>5. scope.engine = engine /\ scope.onLeave = onLeave
  OBVIOUS
<1>6. /\ scopes'[t] = Append(s, scope)
      /\ {l \in Locks : held'[t][l] > 0} = HeldBy(t)
      /\ todo'[t] = steps
      /\ backend' = backend
  BY DEF Push, HeldBy, TypeOK
<1> HIDE DEF s, scope
<1>7. PICK G \in [0..Len(Append(s, scope)) -> SUBSET Locks] :
        Fits(Append(s, scope), G) /\ G[Len(Append(s, scope))] = R
  BY <1>1, <1>2, <1>3, <1>4, <1>5, PushFits
<1> QED BY <1>6, <1>7, BalancedNext

LEMMA EnterBalances ==
  ASSUME TypeOK, NEW t \in Threads, Balanced(t), NEW e \in Engines, Enter(t, e)
  PROVE  Balanced(t)'
<1> DEFINE prev == CurrentEngine(t)
           S == HeldBy(t)
<1>1. /\ Settled(t) /\ S \in SUBSET Locks /\ e # NoEngine /\ LockOf(e) \in Locks
      /\ backend \in {"Lua", "QuickJs", "JavaScriptCore", "V8"}
  BY LockIsLock, EngineScopeAssumption DEF Enter, MayPush, HeldBy, TypeOK
<1>2. /\ prev \in Engines \cup {NoEngine}
      /\ prev # NoEngine => LockOf(prev) \in S
      /\ backend # "V8" => S = {prev} \ {NoEngine}
  BY <1>1, InUserCode
<1>3. prev # NoEngine => LockOf(prev) \in Locks
  BY <1>2, LockIsLock
<1>4. backend # "V8" => LockOf(e) = e /\ LockOf(prev) = prev
  BY DEF LockOf
<1>5. << >> \in Seq(Op) /\ LockOp(e) \in Op /\ UnlockOp(e) \in Op
      /\ (prev # NoEngine => LockOp(prev) \in Op /\ UnlockOp(prev) \in Op)
  BY <1>1, <1>3 DEF Op, LockOp, UnlockOp
<1>6. /\ LockOp(e).op = "lock" /\ LockOp(e).lock = LockOf(e)
      /\ UnlockOp(e).op = "unlock" /\ UnlockOp(e).lock = LockOf(e)
      /\ LockOp(prev).op = "lock" /\ LockOp(prev).lock = LockOf(prev)
      /\ UnlockOp(prev).op = "unlock" /\ UnlockOp(prev).lock = LockOf(prev)
  BY DEF LockOp, UnlockOp
<1>7. CASE e = prev
  <2>1. Push(t, e, << >>, << >>)
    BY <1>7 DEF Enter
  <2> QED BY <1>1, <1>2, <1>5, <1>7, <2>1, NothingToDo, PushBalances
<1>8. CASE e # prev
  <2> DEFINE steps == EnterSteps(t, e, prev)
             onLeave == LeaveSteps(t, e, prev)
  <2>1. Push(t, e, steps, onLeave)
    BY <1>8 DEF Enter
  <2>2. SUFFICES ASSUME TRUE
                 PROVE  \E R \in SUBSET Locks :
                          /\ Leads(S, steps, R) /\ Leads(R, onLeave, S)
                          /\ LockOf(e) \in R
                          /\ backend # "V8" => R = {e} \ {NoEngine}
                          /\ onLeave \in Seq(Op)
    <3> HIDE DEF steps, onLeave
    <3> QED BY <1>1, <2>1, PushBalances
  <2>3. CASE backend = "V8" /\ LockOf(e) \in S
    <3>0. LockedByV8(t, e)
      BY <2>3 DEF LockedByV8, HeldBy
    <3>1. steps = << >> /\ onLeave = << >>
      BY <2>3, <3>0 DEF EnterSteps, LeaveSteps
    <3> QED BY <1>1, <1>5, <2>3, <3>1, NothingToDo
  <2>4. CASE backend = "V8" /\ LockOf(e) \notin S
    <3>0. ~LockedByV8(t, e)
      BY <1>1, <2>4 DEF LockedByV8, HeldBy
    <3>1. steps = <<LockOp(e)>> /\ onLeave = <<UnlockOp(e)>>
      BY <2>4, <3>0 DEF EnterSteps, LeaveSteps
    <3>2. /\ Does(S, LockOp(e), S \cup {LockOf(e)})
          /\ Does(S \cup {LockOf(e)}, UnlockOp(e), S)
      BY <1>6, <2>4 DEF Does, Recursive
    <3> QED BY <1>1, <1>5, <2>4, <3>1, <3>2, OneToDo
  <2>5. CASE backend # "V8" /\ prev = NoEngine
    <3>1. steps = <<LockOp(e)>> /\ onLeave = <<UnlockOp(e)>>
      BY <2>5 DEF EnterSteps, LeaveSteps
    <3>2. Does(S, LockOp(e), {e}) /\ Does({e}, UnlockOp(e), S)
      BY <1>2, <1>4, <1>6, <2>5 DEF Does
    <3> QED BY <1>1, <1>4, <1>5, <2>5, <3>1, <3>2, OneToDo
  <2>6. CASE backend = "Lua" /\ prev # NoEngine
    <3>1. /\ steps = <<LockOp(e), UnlockOp(prev)>>
          /\ onLeave = <<LockOp(prev), UnlockOp(e)>>
      BY <2>6 DEF EnterSteps, LeaveSteps
    <3>2. /\ Does(S, LockOp(e), {prev, e}) /\ Does({prev, e}, UnlockOp(prev), {e})
          /\ Does({e}, LockOp(prev), {prev, e}) /\ Does({prev, e}, UnlockOp(e), S)
      BY <1>2, <1>4, <1>6, <1>8, <2>6 DEF Does, Recursive
    <3>3. {prev, e} \in SUBSET Locks /\ {e} \in SUBSET Locks
      BY <1>1, <1>3, <1>4, <2>6
    <3>4. Leads(S, steps, {e}) /\ Leads({e}, onLeave, S)
      BY <3>1, <3>2, <3>3, TwoToDo
    <3>5. onLeave \in Seq(Op)
      BY <1>5, <2>6, <3>1
    <3> QED BY <1>1, <1>4, <2>6, <3>3, <3>4, <3>5
  <2>7. CASE backend \in {"QuickJs", "JavaScriptCore"} /\ prev # NoEngine
    <3>1. /\ steps = <<UnlockOp(prev), LockOp(e)>>
          /\ onLeave = <<UnlockOp(e), LockOp(prev)>>
      BY <2>7 DEF EnterSteps, LeaveSteps
    <3>2. /\ Does(S, UnlockOp(prev), {}) /\ Does({}, LockOp(e), {e})
          /\ Does({e}, UnlockOp(e), {}) /\ Does({}, LockOp(prev), S)
      BY <1>2, <1>4, <1>6, <1>8, <2>7 DEF Does
    <3>3. {} \in SUBSET Locks /\ {e} \in SUBSET Locks
      BY <1>1, <1>4, <2>7
    <3>4. Leads(S, steps, {e}) /\ Leads({e}, onLeave, S)
      BY <3>1, <3>2, <3>3, TwoToDo
    <3>5. onLeave \in Seq(Op)
      BY <1>5, <2>7, <3>1
    <3> QED BY <1>1, <1>4, <2>7, <3>3, <3>4, <3>5
  <2> QED BY <1>1, <2>3, <2>4, <2>5, <2>6, <2>7
<1> QED BY <1>7, <1>8

LEMMA ExitBalances ==
  ASSUME TypeOK, NEW t \in Threads, Balanced(t), Exit(t)
  PROVE  Balanced(t)'
<1> DEFINE left == CurrentEngine(t)
           S == HeldBy(t)
           R == S \ {LockOf(left)}
<1>1. Settled(t) /\ S \in SUBSET Locks
  BY DEF Exit, MayPush, HeldBy
<1>2. /\ left \in Engines \cup {NoEngine}
      /\ left # NoEngine => LockOf(left) \in S
      /\ backend # "V8" => S = {left} \ {NoEngine}
  BY <1>1, InUserCode
<1>3. CASE left = NoEngine
  <2>1. Push(t, NoEngine, << >>, << >>)
    BY <1>3 DEF Exit
  <2>2. << >> \in Seq(Op)
    OBVIOUS
  <2> QED BY <1>1, <1>2, <1>3, <2>1, <2>2, NothingToDo, PushBalances
<1>4. CASE left # NoEngine
  <2>1. Push(t, NoEngine, <<UnlockOp(left)>>, <<LockOp(left)>>)
    BY <1>4 DEF Exit, ExitSteps
  <2>2. backend # "V8" => R = {}
    BY <1>2, <1>4 DEF LockOf
  <2>3. Does(S, UnlockOp(left), R)
    BY <1>2, <1>4 DEF Does, UnlockOp
  <2>4. Does(R, LockOp(left), S)
    BY <1>2, <1>4, <2>2 DEF Does, LockOp, Recursive
  <2>5. R \in SUBSET Locks
    BY <1>1
  <2>6. LockOp(left) \in Op
    BY <1>2, <1>4, LockIsLock DEF Op, LockOp
  <2>7. <<LockOp(left)>> \in Seq(Op)
    BY <2>6
  <2> HIDE DEF R
  <2>8. LockOf(left) \notin R
    BY DEF R
  <2> QED BY ZenonT(30), <1>1, <2>1, <2>2, <2>3, <2>4, <2>5, <2>7, <2>8, OneToDo, PushBalances
<1> QED BY <1>3, <1>4

LEMMA LeaveBalances ==
  ASSUME TypeOK, NEW t \in Threads, Balanced(t), Leave(t)
  PROVE  Balanced(t)'
<1> DEFINE s == scopes[t]
           a == SubSeq(s, 1, Len(s) - 1)
<1>1. s \in Seq(Scope) /\ s # << >> /\ todo[t] = << >>
  BY DEF TypeOK, Leave, Settled
<1>2. PICK H \in [0..Len(s) -> SUBSET Locks] : Fits(s, H) /\ Leads(HeldBy(t), todo[t], H[Len(s)])
  BY DEF Balanced
<1>3. HeldBy(t) = H[Len(s)]
  BY <1>1, <1>2, NothingToDo
<1>4. Len(s) \in 1..Len(s)
  BY <1>1, EmptySeq
<1>5. /\ scopes'[t] = a
      /\ {l \in Locks : held'[t][l] > 0} = HeldBy(t)
      /\ todo'[t] = s[Len(s)].onLeave
      /\ backend' = backend
  BY DEF Leave, HeldBy, TypeOK
<1> HIDE DEF s
<1>6. Leads(HeldBy(t), s[Len(s)].onLeave, H[Len(s) - 1])
  BY <1>2, <1>3, <1>4 DEF Fits
<1>7. PICK G \in [0..Len(a) -> SUBSET Locks] : Fits(a, G) /\ G[Len(a)] = H[Len(s) - 1]
  BY <1>1, <1>2, PopFits
<1> HIDE DEF a
<1> QED BY <1>5, <1>6, <1>7, BalancedNext

(* The operation that t is about to do, and what it is about to have.      *)
LEMMA NextOperation ==
  ASSUME ScopeInv, NEW t \in Threads, ~Settled(t)
  PROVE  /\ todo[t] \in Seq(Op) /\ Head(todo[t]) \in Op /\ Tail(todo[t]) \in Seq(Op)
         /\ Head(todo[t]).lock \in Locks
         /\ \E M \in SUBSET Locks, H \in [0..Len(scopes[t]) -> SUBSET Locks] :
              /\ Does(HeldBy(t), Head(todo[t]), M)
              /\ Fits(scopes[t], H)
              /\ Leads(M, Tail(todo[t]), H[Len(scopes[t])])
<1>1. todo[t] \in Seq(Op) /\ todo[t] # << >> /\ scopes[t] \in Seq(Scope)
  BY DEF ScopeInv, TypeOK, Settled
<1>2. Head(todo[t]) \in Op /\ Tail(todo[t]) \in Seq(Op)
  BY <1>1, HeadTailProperties
<1>3. Head(todo[t]).lock \in Locks
  BY <1>2 DEF Op
<1>4. PICK H \in [0..Len(scopes[t]) -> SUBSET Locks] :
        Fits(scopes[t], H) /\ Leads(HeldBy(t), todo[t], H[Len(scopes[t])])
  BY DEF ScopeInv, Balanced
<1>5. H[Len(scopes[t])] \in SUBSET Locks
  BY <1>1, LenProperties
<1>6. \E M \in SUBSET Locks :
        Does(HeldBy(t), Head(todo[t]), M) /\ Leads(M, Tail(todo[t]), H[Len(scopes[t])])
  BY <1>1, <1>4, <1>5, FirstIsDone
<1> QED BY <1>1, <1>2, <1>3, <1>4, <1>6

LEMMA AcquireKeeps ==
  ASSUME ScopeInv, NEW t \in Threads, Acquire(t)
  PROVE  ScopeInv'
<1> DEFINE l == Head(todo[t]).lock
<1>1. /\ Tail(todo[t]) \in Seq(Op) /\ l \in Locks
      /\ Head(todo[t]).op = "lock" /\ Available(t, l)
      /\ held' = [held EXCEPT ![t][l] = @ + 1]
      /\ todo' = [todo EXCEPT ![t] = Tail(@)]
      /\ backend' = backend /\ scopes' = scopes
  BY NextOperation DEF Acquire
<1>2. TypeOK /\ HeldOnce /\ Exclusive
  BY DEF ScopeInv
<1>3. PICK M \in SUBSET Locks, H \in [0..Len(scopes[t]) -> SUBSET Locks] :
        /\ Does(HeldBy(t), Head(todo[t]), M)
        /\ Fits(scopes[t], H)
        /\ Leads(M, Tail(todo[t]), H[Len(scopes[t])])
  BY NextOperation DEF Acquire
<1>4. l \notin HeldBy(t) /\ M = HeldBy(t) \cup {l}
  BY <1>1, <1>3 DEF Does
<1>5. held[t][l] = 0
  BY <1>1, <1>2, <1>4 DEF HeldBy, HeldOnce
<1>6. \A u \in Threads : held[u][l] = 0
  BY <1>1, <1>2, <1>5 DEF Available, HeldOnce
<1> HIDE DEF l
<1>7. \A u \in Threads, k \in Locks :
        held'[u][k] = IF u = t /\ k = l THEN 1 ELSE held[u][k]
  BY <1>1, <1>2, <1>5 DEF TypeOK
<1>8. TypeOK'
  <2>1. held' \in [Threads -> [Locks -> Nat]]
    BY <1>1, <1>2, <1>5 DEF TypeOK
  <2>2. todo' \in [Threads -> Seq(Op)]
    BY <1>1, <1>2 DEF TypeOK
  <2> QED BY <1>1, <1>2, <2>1, <2>2 DEF TypeOK, Scope, Op, Locks
<1>9. HeldOnce'
  BY <1>2, <1>7 DEF HeldOnce, Locks
<1>10. Exclusive'
  BY <1>2, <1>6, <1>7 DEF Exclusive, Locks
<1>11. ASSUME NEW u \in Threads PROVE Balanced(u)'
  <2>1. CASE u = t
    <3>1. {k \in Locks : held'[t][k] > 0} = M
      BY <1>1, <1>4, <1>7 DEF HeldBy
    <3>2. todo'[t] = Tail(todo[t])
      BY <1>1, <1>2 DEF TypeOK
    <3> QED BY <1>1, <1>3, <2>1, <3>1, <3>2, BalancedNext
  <2>2. CASE u # t
    <3>1. held'[u] = held[u] /\ todo'[u] = todo[u]
      BY <1>1, <1>2, <2>2 DEF TypeOK
    <3> QED BY <1>1, <3>1, Untouched DEF ScopeInv
  <2> QED BY <2>1, <2>2
<1> QED BY <1>8, <1>9, <1>10, <1>11 DEF ScopeInv

LEMMA ReleaseKeeps ==
  ASSUME ScopeInv, NEW t \in Threads, Release(t)
  PROVE  ScopeInv'
<1> DEFINE l == Head(todo[t]).lock
<1>1. /\ Tail(todo[t]) \in Seq(Op) /\ l \in Locks
      /\ Head(todo[t]).op = "unlock"
      /\ held' = [held EXCEPT ![t][l] = @ - 1]
      /\ todo' = [todo EXCEPT ![t] = Tail(@)]
      /\ backend' = backend /\ scopes' = scopes
  BY NextOperation DEF Release
<1>2. TypeOK /\ HeldOnce /\ Exclusive
  BY DEF ScopeInv
<1>3. PICK M \in SUBSET Locks, H \in [0..Len(scopes[t]) -> SUBSET Locks] :
        /\ Does(HeldBy(t), Head(todo[t]), M)
        /\ Fits(scopes[t], H)
        /\ Leads(M, Tail(todo[t]), H[Len(scopes[t])])
  BY NextOperation DEF Release
<1>4. l \in HeldBy(t) /\ M = HeldBy(t) \ {l}
  BY <1>1, <1>3 DEF Does
<1>5. held[t][l] = 1
  BY <1>1, <1>2, <1>4 DEF HeldBy, HeldOnce
<1> HIDE DEF l
<1>6. \A u \in Threads, k \in Locks :
        held'[u][k] = IF u = t /\ k = l THEN 0 ELSE held[u][k]
  BY <1>1, <1>2, <1>5 DEF TypeOK
<1>7. held' \in [Threads -> [Locks -> Nat]]
  BY <1>1, <1>2, <1>5 DEF TypeOK
<1>8. TypeOK'
  BY <1>1, <1>2, <1>7 DEF TypeOK, Scope, Op, Locks
<1>9. HeldOnce'
  BY <1>2, <1>6 DEF HeldOnce, Locks
<1>10. Exclusive'
  BY <1>2, <1>6 DEF Exclusive, Locks
<1>11. ASSUME NEW u \in Threads PROVE Balanced(u)'
  <2>1. CASE u = t
    <3>1. {k \in Locks : held'[t][k] > 0} = M
      BY <1>1, <1>4, <1>6 DEF HeldBy
    <3>2. todo'[t] = Tail(todo[t])
      BY <1>1, <1>2 DEF TypeOK
    <3> QED BY <1>1, <1>3, <2>1, <3>1, <3>2, BalancedNext
  <2>2. CASE u # t
    <3>1. held'[u] = held[u] /\ todo'[u] = todo[u]
      BY <1>1, <1>2, <2>2 DEF TypeOK
    <3> QED BY <1>1, <3>1, Untouched DEF ScopeInv
  <2> QED BY <2>1, <2>2
<1> QED BY <1>8, <1>9, <1>10, <1>11 DEF ScopeInv

(* Constructors and destructors only plan what is to be locked.            *)
LEMMA PlanKeeps ==
  ASSUME ScopeInv, NEW t \in Threads, Balanced(t)', TypeOK',
         backend' = backend, held' = held,
         \A u \in Threads \ {t} : scopes'[u] = scopes[u] /\ todo'[u] = todo[u]
  PROVE  ScopeInv'
<1>1. HeldOnce' /\ Exclusive'
  BY DEF ScopeInv, HeldOnce, Exclusive, Locks
<1>2. ASSUME NEW u \in Threads \ {t} PROVE Balanced(u)'
  BY Untouched DEF ScopeInv
<1> QED BY <1>1, <1>2 DEF ScopeInv

LEMMA PushKeepsTypes ==
  ASSUME TypeOK, NEW t \in Threads, MayPush(t), NEW engine \in Engines \cup {NoEngine},
         NEW steps \in Seq(Op), NEW onLeave \in Seq(Op), Push(t, engine, steps, onLeave)
  PROVE  /\ TypeOK'
         /\ backend' = backend /\ held' = held
         /\ \A u \in Threads \ {t} : scopes'[u] = scopes[u] /\ todo'[u] = todo[u]
<1> DEFINE scope == [engine |-> engine, onLeave |-> onLeave]
           a == Append(scopes[t], scope)
<1>1. scope \in Scope /\ scopes[t] \in Seq(Scope)
  BY DEF Scope, TypeOK
<1>2. a \in Seq(Scope) /\ Len(a) = Len(scopes[t]) + 1
  BY <1>1, AppendProperties
<1>3. Len(a) <= MaxDepth
  BY <1>1, <1>2, LenProperties, EngineScopeAssumption DEF MayPush
<1>4. scopes' = [scopes EXCEPT ![t] = a] /\ todo' = [todo EXCEPT ![t] = steps]
      /\ backend' = backend /\ held' = held
  BY DEF Push
<1> HIDE DEF a
<1>5. TypeOK'
  BY <1>2, <1>3, <1>4 DEF TypeOK, Scope, Op, Locks
<1> QED BY <1>4, <1>5 DEF TypeOK

LEMMA StepsAreOps ==
  ASSUME TypeOK, NEW t \in Threads, NEW e \in Engines, NEW prev \in Engines \cup {NoEngine}
  PROVE  EnterSteps(t, e, prev) \in Seq(Op) /\ LeaveSteps(t, e, prev) \in Seq(Op)
<1>1. LockOp(e) \in Op /\ UnlockOp(e) \in Op
  BY LockIsLock DEF Op, LockOp, UnlockOp
<1>2. prev # NoEngine => LockOp(prev) \in Op /\ UnlockOp(prev) \in Op
  BY LockIsLock DEF Op, LockOp, UnlockOp
<1> QED BY <1>1, <1>2 DEF EnterSteps, LeaveSteps

LEMMA CurrentIsEngine ==
  ASSUME TypeOK, NEW t \in Threads
  PROVE  CurrentEngine(t) \in Engines \cup {NoEngine}
<1>1. scopes[t] \in Seq(Scope)
  BY DEF TypeOK
<1>2. CASE scopes[t] # << >>
  <2>1. scopes[t][Len(scopes[t])] \in Scope
    BY <1>1, <1>2, EmptySeq, ElementOfSeq
  <2> QED BY <1>2, <2>1 DEF CurrentEngine, Scope
<1> QED BY <1>2 DEF CurrentEngine

LEMMA EnterKeeps ==
  ASSUME ScopeInv, NEW t \in Threads, NEW e \in Engines, Enter(t, e)
  PROVE  ScopeInv'
<1>1. TypeOK /\ Balanced(t) /\ MayPush(t) /\ << >> \in Seq(Op)
  BY DEF ScopeInv, Enter
<1>2. \E steps \in Seq(Op), onLeave \in Seq(Op) : Push(t, e, steps, onLeave)
  BY <1>1, StepsAreOps, CurrentIsEngine DEF Enter
<1>3. Balanced(t)'
  BY <1>1, EnterBalances
<1> QED BY <1>1, <1>2, <1>3, PushKeepsTypes, PlanKeeps

LEMMA ExitKeeps ==
  ASSUME ScopeInv, NEW t \in Threads, Exit(t)
  PROVE  ScopeInv'
<1>1. TypeOK /\ Balanced(t) /\ MayPush(t) /\ << >> \in Seq(Op)
  BY DEF ScopeInv, Exit
<1>2. CurrentEngine(t) # NoEngine =>
        LockOp(CurrentEngine(t)) \in Op /\ UnlockOp(CurrentEngine(t)) \in Op
  BY <1>1, CurrentIsEngine, LockIsLock DEF Op, LockOp, UnlockOp
<1>3. \E steps \in Seq(Op), onLeave \in Seq(Op) : Push(t, NoEngine, steps, onLeave)
  <2>1. CASE CurrentEngine(t) = NoEngine
    BY <1>1, <2>1 DEF Exit
  <2>2. CASE CurrentEngine(t) # NoEngine
    <3>1. /\ <<UnlockOp(CurrentEngine(t))>> \in Seq(Op)
          /\ <<LockOp(CurrentEngine(t))>> \in Seq(Op)
      BY <1>2, <2>2
    <3>2. Push(t, NoEngine, <<UnlockOp(CurrentEngine(t))>>, <<LockOp(CurrentEngine(t))>>)
      BY <2>2 DEF Exit, ExitSteps
    <3> QED BY <3>1, <3>2
  <2> QED BY <2>1, <2>2
<1>4. Balanced(t)'
  BY <1>1, ExitBalances
<1> QED BY <1>1, <1>3, <1>4, PushKeepsTypes, PlanKeeps

LEMMA LeaveKeeps ==
  ASSUME ScopeInv, NEW t \in Threads, Leave(t)
  PROVE  ScopeInv'
<1> DEFINE s == scopes[t]
           a == SubSeq(s, 1, Len(s) - 1)
<1>1. TypeOK /\ Balanced(t) /\ s \in Seq(Scope) /\ s # << >> /\ Len(s) <= MaxDepth
  BY DEF ScopeInv, TypeOK, Leave
<1>2. Len(s) \in Nat \ {0}
  BY <1>1, EmptySeq
<1>3. s[Len(s)] \in Scope /\ \A i \in 1..Len(s) - 1 : s[i] \in Scope
  BY <1>1, <1>2, ElementOfSeq
<1>4. s[Len(s)].onLeave \in Seq(Op)
  BY <1>3 DEF Scope
<1>5. a \in Seq(Scope) /\ Len(a) = IF 1 <= Len(s) - 1 THEN Len(s) - 1 - 1 + 1 ELSE 0
  BY <1>2, <1>3, SubSeqProperties
<1>6. Len(a) <= MaxDepth
  BY <1>1, <1>2, <1>5, EngineScopeAssumption
<1>7. scopes' = [scopes EXCEPT ![t] = a] /\ todo' = [todo EXCEPT ![t] = s[Len(s)].onLeave]
      /\ backend' = backend /\ held' = held
  BY <1>1 DEF Leave, TypeOK
<1> HIDE DEF a, s
<1>8. TypeOK'
  BY <1>1, <1>4, <1>5, <1>6, <1>7 DEF TypeOK, Scope, Op, Locks
<1>9. \A u \in Threads \ {t} : scopes'[u] = scopes[u] /\ todo'[u] = todo[u]
  BY <1>1, <1>7 DEF TypeOK
<1>10. Balanced(t)'
  BY <1>1, LeaveBalances
<1> QED BY <1>7, <1>8, <1>9, <1>10, PlanKeeps

LEMMA ScopeInvKept == ScopeInv /\ [Next]_vars => ScopeInv'
<1> SUFFICES ASSUME ScopeInv, [Next]_vars PROVE ScopeInv'
  OBVIOUS
<1>1. CASE UNCHANGED vars
  <2>1. TypeOK' /\ HeldOnce' /\ Exclusive'
    BY <1>1 DEF ScopeInv, vars, TypeOK, HeldOnce, Exclusive, Scope, Op, Locks
  <2>2. ASSUME NEW u \in Threads PROVE Balanced(u)'
    BY <1>1, Untouched DEF ScopeInv, vars
  <2> QED BY <2>1, <2>2 DEF ScopeInv
<1> QED BY <1>1, EnterKeeps, ExitKeeps, LeaveKeeps, AcquireKeeps, ReleaseKeeps DEF Next

LEMMA ScopesKeepInvariant == Spec => []ScopeInv
  BY ScopeInit, ScopeInvKept, PTL DEF Spec

-----------------------------------------------------------------------------
(* What the invariant implies                                              *)

(* The state of scopes and locks is well-formed: a lock that is given back *)
(* was held.                                                               *)
THEOREM ScopesAreTyped == Spec => []TypeOK
<1>1. ScopeInv => TypeOK
  BY DEF ScopeInv
<1> QED BY <1>1, ScopesKeepInvariant, PTL

(* A thread in an engine holds its lock and no other thread does: two      *)
(* threads are never in one engine, in any of the four backends.           *)
THEOREM EnginesAreExclusive == Spec => []CurrentEngineIsLocked
<1>1. ScopeInv => CurrentEngineIsLocked
  <2> SUFFICES ASSUME ScopeInv, NEW t \in Threads, Settled(t), CurrentEngine(t) # NoEngine
               PROVE  /\ held[t][LockOf(CurrentEngine(t))] > 0
                      /\ \A u \in Threads \ {t} : held[u][LockOf(CurrentEngine(t))] = 0
    BY DEF CurrentEngineIsLocked
  <2>1. LockOf(CurrentEngine(t)) \in HeldBy(t)
    BY InUserCode DEF ScopeInv
  <2> QED BY <2>1 DEF HeldBy, ScopeInv, Exclusive, HeldOnce
<1> QED BY <1>1, ScopesKeepInvariant, PTL

(* A thread that has left its scopes holds nothing, and nobody ever locks  *)
(* a lock twice.                                                           *)
THEOREM LocksAreGivenBack == Spec => []LocksBalanced
<1>1. ScopeInv => LocksBalanced
  <2> SUFFICES ASSUME ScopeInv, NEW t \in Threads, NEW l \in Locks
               PROVE  /\ held[t][l] \in 0..1
                      /\ Settled(t) /\ scopes[t] = << >> => held[t][l] = 0
    BY DEF LocksBalanced
  <2>1. held[t][l] \in 0..1
    BY DEF ScopeInv, HeldOnce
  <2>2. ASSUME Settled(t), scopes[t] = << >> PROVE held[t][l] = 0
    <3>1. PICK H : Fits(scopes[t], H) /\ Leads(HeldBy(t), todo[t], H[Len(scopes[t])])
      BY DEF ScopeInv, Balanced
    <3>2. HeldBy(t) = {}
      BY <2>2, <3>1, NothingToDo DEF Settled, Fits
    <3> QED BY <2>1, <3>2 DEF HeldBy
  <2> QED BY <2>1, <2>2
<1> QED BY <1>1, ScopesKeepInvariant, PTL

(* A thread that has exited an engine does not hold that engine's lock.    *)
THEOREM ExitsLetOthersIn == Spec => []ExitFreesTheEngine
<1>1. ScopeInv => ExitFreesTheEngine
  <2> SUFFICES ASSUME ScopeInv, NEW t \in Threads, Settled(t), Len(scopes[t]) > 1,
                      CurrentEngine(t) = NoEngine,
                      scopes[t][Len(scopes[t]) - 1].engine # NoEngine
               PROVE  held[t][LockOf(scopes[t][Len(scopes[t]) - 1].engine)] = 0
    BY DEF ExitFreesTheEngine
  <2> DEFINE s == scopes[t]
             left == s[Len(s) - 1].engine
  <2>1. s \in Seq(Scope) /\ Len(s) \in Nat
    BY LenProperties DEF ScopeInv, TypeOK
  <2>2. PICK H : Fits(s, H) /\ Leads(HeldBy(t), todo[t], H[Len(s)])
    BY DEF ScopeInv, Balanced
  <2>3. HeldBy(t) = H[Len(s)]
    BY <2>2, NothingToDo DEF Settled
  <2>4. s[Len(s)].engine = NoEngine
    BY <2>1 DEF CurrentEngine
  <2>5. Len(s) \in 1..Len(s) /\ Len(s) - 1 \in 1..Len(s)
    BY <2>1
  <2>6. LockOf(left) \notin H[Len(s)]
    BY <2>2, <2>4, <2>5 DEF Fits
  <2>7. left \in Engines
    <3>1. s[Len(s) - 1] \in Scope
      BY <2>1, <2>5, ElementOfSeq
    <3> QED BY <3>1 DEF Scope
  <2>8. LockOf(left) \in Locks
    BY <2>7, LockIsLock
  <2> QED BY <2>3, <2>6, <2>8 DEF HeldBy, ScopeInv, HeldOnce
<1> QED BY <1>1, ScopesKeepInvariant, PTL

(* In QuickJs and JavaScriptCore a thread that waits for an engine has     *)
(* none, as Scope.h says, so threads that switch engines never wait for    *)
(* each other.                                                             *)
THEOREM RecursiveLocksExitFirst == Spec => []ExitsPreviousFirst
<1>1. ScopeInv => ExitsPreviousFirst
  <2> SUFFICES ASSUME ScopeInv, Recursive, NEW t \in Threads, WaitsFor(t) # {}, NEW l \in Locks
               PROVE  held[t][l] = 0
    BY DEF ExitsPreviousFirst, WaitsWithNothing
  <2>1. ~Settled(t) /\ Head(todo[t]).op # "unlock"
    BY DEF WaitsFor
  <2>2. PICK M : Does(HeldBy(t), Head(todo[t]), M)
    BY <2>1, NextOperation
  <2>3. HeldBy(t) = {}
    BY <2>1, <2>2 DEF Does
  <2> QED BY <2>3 DEF HeldBy, ScopeInv, HeldOnce
<1> QED BY <1>1, ScopesKeepInvariant, PTL
=============================================================================
