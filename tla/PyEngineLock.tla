---------------------------- MODULE PyEngineLock ----------------------------
(***************************************************************************)
(* The Python backend's EngineScope, ExitEngineScope, and the creation and *)
(* destruction of a PyEngine, which is a sub-interpreter. One recursive    *)
(* mutex and one count stand for all engines; the count says who takes and *)
(* gives up the interpreter lock; a thread state of the right interpreter  *)
(* has to be the one that is loaded. All of it happens under the mutex, so *)
(* a constructor or destructor of a scope is one step.                     *)
(***************************************************************************)
EXTENDS Backend

CONSTANTS
  PyThreads,
  PyDepth       \* bound: scopes on one thread's stack

ASSUME PyAssumption ==
  /\ NoThread \notin PyThreads
  /\ PyDepth \in Nat

VARIABLES
  py,         \* the mutex, the count, the interpreter lock, thread states
  pyScopes,   \* the EngineScopes and ExitEngineScopes on a thread's stack
  pyLife      \* of each engine

pyVars == <<py, pyScopes, pyLife>>

(* A PyThreadState: of an engine's interpreter, or of the main interpreter *)
(* (NoEngine), made for a thread.                                          *)
ThreadState == [interp : Engines \cup {NoEngine}, thread : PyThreads]
State(e, t) == [interp |-> e, thread |-> t]
NoState == [interp |-> NoEngine, thread |-> NoThread]   \* a null pointer

PyScope == [engine : Engines \cup {NoEngine},   \* EngineScope::engine_
            impl   : {"none", "enter", "exit"}, \* engineScopeImpl_, or that of an exit
            of     : Engines \cup {NoEngine},   \* the engine it locks
            saved  : ThreadState \cup {NoState}]

PyTypeOK ==
  /\ py \in [owner   : PyThreads \cup {NoThread},          \* of engineLocker
             depth   : Int,                                \* its recursion
             count   : Int,                                \* allPyEnginesEnterCount
             gil     : PyThreads \cup {NoThread},
             current : ThreadState \cup {NoState},         \* loaded
             main    : [PyThreads -> ThreadState \cup {NoState}], \* mainThreadStateInTLS_
             live    : SUBSET ThreadState]                 \* made and not freed
  /\ pyScopes \in [PyThreads -> Seq(PyScope)]
  /\ pyLife \in [Engines -> {"unborn", "running", "destroyed"}]

PyInit ==
  /\ py = [owner |-> NoThread, depth |-> 0, count |-> 0, gil |-> NoThread,
           current |-> NoState, main |-> [t \in PyThreads |-> NoState], live |-> {}]
  /\ pyScopes = [t \in PyThreads |-> << >>]
  /\ pyLife = [e \in Engines |-> "unborn"]

-----------------------------------------------------------------------------
(* EngineLockerHelper. engineLocker.lock() is the guard of the actions.    *)

MayLock(t) == py.owner \in {t, NoThread}
Lock(s, t) == [s EXCEPT !.owner = t, !.depth = @ + 1]
Unlock(s)  == [s EXCEPT !.depth = @ - 1, !.owner = IF s.depth = 1 THEN NoThread ELSE @]

(* PyEval_RestoreThread and PyEval_SaveThread.                             *)
RestoreThread(s, t, state) == [s EXCEPT !.gil = t, !.current = state]
SaveThread(s, t) ==
  [s EXCEPT !.gil = NoThread, !.current = NoState, !.main[t] = s.current]

(* A thread's first scope makes a state of the main interpreter for it.    *)
MainState(s, t) == IF s.main[t] = NoState THEN State(NoEngine, t) ELSE s.main[t]

waitToEnterEngine(s, t) ==
  LET state  == MainState(s, t)
      loaded == IF s.count > 0 THEN s
                ELSE RestoreThread([s EXCEPT !.main[t] = state,
                                             !.live = IF s.main[t] = NoState THEN @ \cup {state} ELSE @],
                                   t, state)
  IN  [Lock(loaded, t) EXCEPT !.count = @ + 1]

(* Mutant: the interpreter lock is given up by every exit.                 *)
finishExitAlways(s, t) == Unlock(SaveThread([s EXCEPT !.count = @ - 1], t))

finishExitEngine(s, t) ==
  LET less == [s EXCEPT !.count = @ - 1]
  IN  Unlock(IF less.count = 0 THEN SaveThread(less, t) ELSE less)

startDestroyEngine(s, t) ==
  Lock(IF s.count = 0 THEN RestoreThread(s, t, s.main[t]) ELSE s, t)

endDestroyEngine(s, t) == Unlock(IF s.count = 0 THEN SaveThread(s, t) ELSE s)

Load(s, state) == [s EXCEPT !.current = state]   \* PyThreadState_Swap

-----------------------------------------------------------------------------

PyCurrent(t) ==
  IF pyScopes[t] = << >> THEN NoEngine ELSE pyScopes[t][Len(pyScopes[t])].engine
PyPush(t, engine, impl, of, saved) ==
  pyScopes' = [pyScopes EXCEPT ![t] =
                 Append(@, [engine |-> engine, impl |-> impl, of |-> of, saved |-> saved])]

(* The first engine makes the main interpreter. Py_NewInterpreter leaves   *)
(* the new state loaded, so that the last exit saves it as the main one.   *)
(* Bound: an engine is not made inside the scope of another.               *)
PyCreate(t, e) ==
  /\ pyLife[e] = "unborn"
  /\ pyScopes[t] = << >>
  /\ MayLock(t)
  /\ LET entered == waitToEnterEngine(py, t)
         made    == [Load(entered, State(e, t)) EXCEPT !.live = @ \cup {State(e, t)}]
     IN  py' = finishExitEngine(made, t)
  /\ pyLife' = [pyLife EXCEPT ![e] = "running"]
  /\ UNCHANGED pyScopes

(* Mutant: entering does not remember the state that was loaded.           *)
EngineScopeForgetful(t, e) ==
  LET entered == waitToEnterEngine(py, t)
  IN  /\ py' = [Load(entered, State(e, t)) EXCEPT !.live = @ \cup {State(e, t)}]
      /\ PyPush(t, e, "enter", e, entered.main[t])

(* EngineScopeImpl's constructor: subThreadStateInTLS_ of this thread is   *)
(* made when the thread enters for the first time.                         *)
EngineScopeImpl(t, e) ==
  LET entered == waitToEnterEngine(py, t)
  IN  /\ py' = [Load(entered, State(e, t)) EXCEPT !.live = @ \cup {State(e, t)}]
      /\ PyPush(t, e, "enter", e, entered.current)

PyEnter(t, e) ==
  /\ Len(pyScopes[t]) < PyDepth
  /\ pyLife[e] = "running"
  /\ IF e = PyCurrent(t)
     THEN PyPush(t, e, "none", NoEngine, NoState) /\ UNCHANGED py
     ELSE MayLock(t) /\ EngineScopeImpl(t, e)
  /\ UNCHANGED pyLife

(* ExitEngineScopeImpl's constructor.                                      *)
PyExit(t) ==
  /\ Len(pyScopes[t]) < PyDepth
  /\ LET e == PyCurrent(t)
     IN  IF e = NoEngine
         THEN PyPush(t, NoEngine, "none", NoEngine, NoState) /\ UNCHANGED py
         ELSE /\ py' = finishExitEngine(Load(py, py.main[t]), t)
              /\ PyPush(t, NoEngine, "exit", e, py.current)
  /\ UNCHANGED pyLife

(* The destructors of both.                                                *)
PyLeave(t) ==
  /\ pyScopes[t] # << >>
  /\ LET scope == pyScopes[t][Len(pyScopes[t])]
     IN  CASE scope.impl = "none"  -> UNCHANGED py
           [] scope.impl = "enter" -> py' = finishExitEngine(Load(py, scope.saved), t)
           [] scope.impl = "exit"  ->
                MayLock(t) /\ py' = Load(waitToEnterEngine(py, t), scope.saved)
  /\ pyScopes' = [pyScopes EXCEPT ![t] = SubSeq(@, 1, Len(@) - 1)]
  /\ UNCHANGED pyLife

(* Mutant: the thread state is not switched back.                          *)
EndInterpreterLoaded(s, t, e) ==
  [Load(s, State(e, t)) EXCEPT !.live = {state \in @ : state.interp # e}]

EndInterpreter(s, t, e) ==
  Load([s EXCEPT !.live = {state \in @ : state.interp # e}], s.current)

(* The interpreter is ended with all its thread states. Only a thread that *)
(* has entered the engine may destroy it, and only while no thread is in   *)
(* it: destroy() does not check. Excluded: an engine that a thread has made*)
(* last, whose thread state the thread would keep, freed, as its main one. *)
PyDestroy(t, e) ==
  /\ pyLife[e] = "running"
  /\ State(e, t) \in py.live
  /\ \A u \in PyThreads : \A i \in 1..Len(pyScopes[u]) : e \notin {pyScopes[u][i].engine, pyScopes[u][i].of}
  /\ \A u \in PyThreads : py.main[u].interp # e
  /\ MayLock(t)
  /\ py' = endDestroyEngine(EndInterpreter(startDestroyEngine(py, t), t, e), t)
  /\ pyLife' = [pyLife EXCEPT ![e] = "destroyed"]
  /\ UNCHANGED pyScopes

PyNext ==
  \E t \in PyThreads :
    \/ \E e \in Engines : PyCreate(t, e) \/ PyEnter(t, e) \/ PyDestroy(t, e)
    \/ PyExit(t)
    \/ PyLeave(t)

-----------------------------------------------------------------------------

(* What runs in a scope runs in the interpreter of its engine, with the    *)
(* thread state that was made for the thread, whatever other threads and   *)
(* engines did while it was nested, exited or waiting.                     *)
ScopeHasItsState ==
  \A t \in PyThreads :
    PyCurrent(t) # NoEngine => py.gil = t /\ py.current = State(PyCurrent(t), t)

(* "GIL is need to be unlocked" after all engines are exited (PyHelper.h:  *)
(* 73): the count, the depth of the mutex and the scopes of its owner, the *)
(* ones it has exited taken off, are the same number; the interpreter lock *)
(* and the mutex have one owner, and a thread with no scope has neither.   *)
OpenScopes(t) ==
  Cardinality({i \in 1..Len(pyScopes[t]) : pyScopes[t][i].impl = "enter"})
    - Cardinality({i \in 1..Len(pyScopes[t]) : pyScopes[t][i].impl = "exit"})

EntersAreCounted ==
  /\ \A t \in PyThreads : OpenScopes(t) = IF py.owner = t THEN py.count ELSE 0
  /\ py.depth = py.count
  /\ py.gil = py.owner
  /\ py.owner = NoThread <=> py.count = 0

(* A thread state that is loaded, or will be by the end of a scope or by   *)
(* the next engine to be entered, has not been freed with its interpreter. *)
NoFreedState ==
  /\ py.current \in py.live \cup {NoState}
  /\ \A t \in PyThreads :
       /\ py.main[t] \in py.live \cup {NoState}
       /\ \A i \in 1..Len(pyScopes[t]) : pyScopes[t][i].saved \in py.live \cup {NoState}

(* Together: scopes, exits and engines that come and go in any order leave*)
(* every thread with a thread state it can run with.                       *)
PyStatesSurvive == ScopeHasItsState /\ EntersAreCounted /\ NoFreedState
=============================================================================
