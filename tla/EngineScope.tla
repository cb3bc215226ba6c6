---------------------------- MODULE EngineScope ----------------------------
(***************************************************************************)
(* script::EngineScope and script::ExitEngineScope: the per-thread stack   *)
(* of scopes, and the lock protocol each backend's EngineScopeImpl and     *)
(* ExitEngineScopeImpl run under it. Entering and leaving a scope is a     *)
(* short program of lock and unlock operations, one step each, because two *)
(* threads meet between them.                                              *)
(***************************************************************************)
EXTENDS Integers, Sequences, FiniteSets

CONSTANTS
  Threads,
  Engines,
  NoEngine,   \* a null engine pointer
  Backends,   \* the backends the library may be built with
  IsolateOf,  \* V8 engines that share an isolate have one IsolateOf
  MaxDepth    \* bound: scopes on one thread's stack

ASSUME EngineScopeAssumption ==
  /\ NoEngine \notin Engines
  /\ Backends \subseteq {"Lua", "QuickJs", "JavaScriptCore", "V8"}
  /\ IsolateOf \in [Engines -> Engines]
  /\ MaxDepth \in Nat

VARIABLES
  backend,  \* the backend: settled when the library is built
  scopes,   \* the EngineScopes on each thread's stack, current_ last
  todo,     \* the lock operations a thread has left to do
  held      \* how often each thread holds each lock

vars == <<backend, scopes, todo, held>>

(* A lock bears the name of an engine: the engine's own lock_,             *)
(* runtimeLock_ or virtualMachineLock_, or what v8::Locker locks, which is *)
(* the isolate.                                                            *)
Locks == Engines
LockOf(e) == IF backend = "V8" THEN IsolateOf[e] ELSE e

Op == [op : {"lock", "unlock"}, lock : Locks]
LockOp(e)   == [op |-> "lock", lock |-> LockOf(e)]
UnlockOp(e) == [op |-> "unlock", lock |-> LockOf(e)]

(* engine is the scope's engine_; onLeave are the lock operations its      *)
(* destructor runs.                                                        *)
Scope == [engine : Engines \cup {NoEngine}, onLeave : Seq(Op)]

TypeOK ==
  /\ backend \in Backends
  /\ scopes \in [Threads -> Seq(Scope)]
  /\ \A t \in Threads : Len(scopes[t]) <= MaxDepth
  /\ todo \in [Threads -> Seq(Op)]
  /\ held \in [Threads -> [Locks -> Nat]]

Init ==
  /\ backend \in Backends
  /\ scopes = [t \in Threads |-> << >>]
  /\ todo = [t \in Threads |-> << >>]
  /\ held = [t \in Threads |-> [l \in Locks |-> 0]]

-----------------------------------------------------------------------------

(* EngineScope::currentEngine: that of the innermost scope.                *)
CurrentEngine(t) ==
  IF scopes[t] = << >> THEN NoEngine ELSE scopes[t][Len(scopes[t])].engine

(* t runs user code: no constructor or destructor of a scope is under way. *)
Settled(t) == todo[t] = << >>

(* v8::Locker does nothing on an isolate its thread has locked already.    *)
LockedByV8(t, e) == held[t][LockOf(e)] > 0

(* Mutant: the previous engine stays locked.                               *)
EnterStepsKeeping(t, e, prev) == <<LockOp(e)>>

(* EngineScopeImpl's constructor: enter e when the thread is in prev. Lua  *)
(* takes the new lock first, QuickJs and JavaScriptCore give the old one   *)
(* up first, V8 ignores prev.                                              *)
EnterSteps(t, e, prev) ==
  IF backend = "V8" THEN IF LockedByV8(t, e) THEN << >> ELSE <<LockOp(e)>>
  ELSE IF prev = NoEngine THEN <<LockOp(e)>>
  ELSE IF backend = "Lua" THEN <<LockOp(e), UnlockOp(prev)>>
  ELSE <<UnlockOp(prev), LockOp(e)>>

(* Mutant: the previous engine is not locked again.                        *)
LeaveStepsForgetful(t, e, prev) == <<UnlockOp(e)>>

(* EngineScopeImpl's destructor. Lua's body runs before the members are    *)
(* destroyed: it takes the old lock back while it has the new one.         *)
LeaveSteps(t, e, prev) ==
  IF backend = "V8" THEN IF LockedByV8(t, e) THEN << >> ELSE <<UnlockOp(e)>>
  ELSE IF prev = NoEngine THEN <<UnlockOp(e)>>
  ELSE IF backend = "Lua" THEN <<LockOp(prev), UnlockOp(e)>>
  ELSE <<UnlockOp(e), LockOp(prev)>>

Push(t, engine, steps, onLeave) ==
  /\ scopes' = [scopes EXCEPT ![t] = Append(@, [engine |-> engine, onLeave |-> onLeave])]
  /\ todo' = [todo EXCEPT ![t] = steps]
  /\ UNCHANGED <<backend, held>>

MayPush(t) == Settled(t) /\ Len(scopes[t]) < MaxDepth

(* EngineScope(engine): only a scope of another engine needs to enter it.  *)
Enter(t, e) ==
  /\ MayPush(t)
  /\ LET prev == CurrentEngine(t)
     IN  IF e = prev
         THEN Push(t, e, << >>, << >>)
         ELSE Push(t, e, EnterSteps(t, e, prev), LeaveSteps(t, e, prev))

(* Mutant: ExitEngineScope makes the null engine current, no more.         *)
ExitStepsNone(e) == << >>

(* ExitEngineScopeImpl's constructor; its destructor locks again.          *)
ExitSteps(e) == <<UnlockOp(e)>>

(* ExitEngineScope: unlock the current engine, if there is one, and enter  *)
(* the null engine.                                                        *)
Exit(t) ==
  /\ MayPush(t)
  /\ LET current == CurrentEngine(t)
     IN  IF current = NoEngine
         THEN Push(t, NoEngine, << >>, << >>)
         ELSE Push(t, NoEngine, ExitSteps(current), <<LockOp(current)>>)

(* The destructor of the innermost scope.                                  *)
Leave(t) ==
  /\ Settled(t)
  /\ scopes[t] # << >>
  /\ todo' = [todo EXCEPT ![t] = scopes[t][Len(scopes[t])].onLeave]
  /\ scopes' = [scopes EXCEPT ![t] = SubSeq(@, 1, Len(@) - 1)]
  /\ UNCHANGED <<backend, held>>

-----------------------------------------------------------------------------
(* The mutexes. Those of QuickJs and JavaScriptCore are recursive.         *)

Recursive == backend \in {"QuickJs", "JavaScriptCore"}

Available(t, l) ==
  \A u \in Threads : held[u][l] > 0 => Recursive /\ u = t

Acquire(t) ==
  /\ ~Settled(t)
  /\ Head(todo[t]).op = "lock"
  /\ Available(t, Head(todo[t]).lock)
  /\ held' = [held EXCEPT ![t][Head(todo[t]).lock] = @ + 1]
  /\ todo' = [todo EXCEPT ![t] = Tail(@)]
  /\ UNCHANGED <<backend, scopes>>

Release(t) ==
  /\ ~Settled(t)
  /\ Head(todo[t]).op = "unlock"
  /\ held' = [held EXCEPT ![t][Head(todo[t]).lock] = @ - 1]
  /\ todo' = [todo EXCEPT ![t] = Tail(@)]
  /\ UNCHANGED <<backend, scopes>>

Next ==
  \E t \in Threads :
    \/ \E e \in Engines : Enter(t, e)
    \/ Exit(t)
    \/ Leave(t)
    \/ Acquire(t)
    \/ Release(t)

Spec == Init /\ [][Next]_vars

-----------------------------------------------------------------------------
(* Safety                                                                  *)

(* A thread that runs user code in an engine holds that engine's lock, and *)
(* nobody else does: no two threads are ever in one engine, however scopes *)
(* and exits are nested on either of them.                                 *)
CurrentEngineIsLocked ==
  \A t \in Threads :
    Settled(t) /\ CurrentEngine(t) # NoEngine =>
      /\ held[t][LockOf(CurrentEngine(t))] > 0
      /\ \A u \in Threads \ {t} : held[u][LockOf(CurrentEngine(t))] = 0

(* Lock operations are balanced: a thread that has left all its scopes     *)
(* holds nothing, and no lock is ever held twice.                          *)
LocksBalanced ==
  \A t \in Threads, l \in Locks :
    /\ held[t][l] \in 0..1
    /\ Settled(t) /\ scopes[t] = << >> => held[t][l] = 0

(* ExitEngineScope lets the others in: inside it, the thread does not hold *)
(* the lock of the engine it has left.                                     *)
ExitFreesTheEngine ==
  \A t \in Threads :
    Settled(t) /\ Len(scopes[t]) > 1 /\ CurrentEngine(t) = NoEngine
      => LET left == scopes[t][Len(scopes[t]) - 1].engine
         IN  left # NoEngine => held[t][LockOf(left)] = 0

(* "When enter is nested it would firstly exit previous, then enter to new *)
(* engine" (Scope.h:33-34): a thread that waits for an engine has none, so *)
(* that no two threads wait for each other.                                *)
WaitsFor(t) ==
  IF Settled(t) \/ Head(todo[t]).op = "unlock" THEN {} ELSE {Head(todo[t]).lock}

WaitsWithNothing ==
  \A t \in Threads : WaitsFor(t) # {} => \A l \in Locks : held[t][l] = 0

(* QuickJs and JavaScriptCore do as Scope.h says.                          *)
ExitsPreviousFirst == Recursive => WaitsWithNothing
=============================================================================
