------------------------------ MODULE QjsTick ------------------------------
(***************************************************************************)
(* How a QuickJs engine runs the jobs that scripts leave behind (promises):*)
(* triggerTick posts one message to the engine's queue, a thread that      *)
(* loops the queue enters the engine and executes the jobs. Scopes of the  *)
(* engine nest, are left for an ExitEngineScope, and are opened by several *)
(* threads; the lock is runtimeLock_.                                      *)
(***************************************************************************)
EXTENDS Backend

CONSTANTS
  QjsThreads,
  QjsLoopers,     \* the threads that go on calling loopQueue
  QjsDepth,       \* bound: frames on one thread's stack
  QjsMaxJobs      \* bound: jobs that scripts make

ASSUME QjsAssumption ==
  /\ NoThread \notin QjsThreads
  /\ QjsLoopers \subseteq QjsThreads
  /\ QjsDepth \in Nat
  /\ QjsMaxJobs \in Nat

VARIABLES
  qjs,        \* the engine
  qjsMade,    \* jobs that scripts have made
  qjsFrames   \* scopes of the engine and ticks on each thread's stack

qjsVars == <<qjs, qjsMade, qjsFrames>>

(* impl is the frame's EngineScopeImpl or ExitEngineScopeImpl, if it has   *)
(* one, and tick how far the tick that opened the scope is.                *)
QjsFrame == [impl : {"enter", "exit", "none"}, tick : {"no", "taken", "running", "done"}]

QjsTypeOK ==
  /\ qjs \in [jobs      : Nat,                         \* in the runtime
              scheduled : BOOLEAN,                     \* tickScheduled_
              posted    : Nat,                         \* ticks in the queue
              lock      : QjsThreads \cup {NoThread},
              destroyed : BOOLEAN]
  /\ qjsMade \in 0..QjsMaxJobs
  /\ qjsFrames \in [QjsThreads -> Seq(QjsFrame)]

QjsInit ==
  /\ qjs = [jobs |-> 0, scheduled |-> FALSE, posted |-> 0, lock |-> NoThread,
            destroyed |-> FALSE]
  /\ qjsMade = 0
  /\ qjsFrames = [t \in QjsThreads |-> << >>]

-----------------------------------------------------------------------------

QjsTop(t) == qjsFrames[t][Len(qjsFrames[t])]
HasTop(t, tick) == qjsFrames[t] # << >> /\ QjsTop(t).tick = tick

(* EngineScope::currentEngine() is the engine. A tick that is taken has    *)
(* not opened its scope.                                                   *)
Inside(t) ==
  \E i \in 1..Len(qjsFrames[t]) :
    /\ qjsFrames[t][i].tick # "taken" /\ qjsFrames[t][i].impl # "exit"
    /\ \A j \in i + 1..Len(qjsFrames[t]) : qjsFrames[t][j].tick = "taken"

(* t runs user code: its own, or what a job calls.                         *)
InUserCode(t) == ~HasTop(t, "taken") /\ ~HasTop(t, "done")

PushFrame(t, impl, tick) ==
  qjsFrames' = [qjsFrames EXCEPT ![t] = Append(@, [impl |-> impl, tick |-> tick])]
MayPushFrame(t) == InUserCode(t) /\ Len(qjsFrames[t]) < QjsDepth /\ ~qjs.destroyed

(* Mutant: a tick is posted whether or not there is one.                   *)
triggerTickAlways(s) ==
  IF s.jobs > 0 THEN [s EXCEPT !.scheduled = TRUE, !.posted = @ + 1] ELSE s

triggerTick(s) ==
  IF s.jobs > 0 /\ ~s.scheduled THEN [s EXCEPT !.scheduled = TRUE, !.posted = @ + 1] ELSE s

(* EngineScopeImpl's constructor.                                          *)
EnterQjs(t) ==
  /\ MayPushFrame(t)
  /\ IF Inside(t)
     THEN PushFrame(t, "none", "no") /\ UNCHANGED qjs
     ELSE /\ qjs.lock = NoThread
          /\ qjs' = [qjs EXCEPT !.lock = t]
          /\ PushFrame(t, "enter", "no")
  /\ UNCHANGED qjsMade

(* Mutant: the lock is kept.                                               *)
ExitQjsLocked(t) ==
  /\ MayPushFrame(t)
  /\ Inside(t)
  /\ PushFrame(t, "exit", "no")
  /\ UNCHANGED <<qjs, qjsMade>>

(* ExitEngineScopeImpl's constructor.                                      *)
ExitQjs(t) ==
  /\ MayPushFrame(t)
  /\ Inside(t)
  /\ qjs' = [qjs EXCEPT !.lock = NoThread]
  /\ PushFrame(t, "exit", "no")
  /\ UNCHANGED qjsMade

(* Mutant: the end of a scope triggers no tick.                            *)
ScopeEndsQuietly(t, frame) ==
  CASE frame.impl = "enter" -> qjs' = [qjs EXCEPT !.lock = NoThread]
    [] frame.impl = "exit"  -> qjs.lock = NoThread /\ qjs' = [qjs EXCEPT !.lock = t]
    [] frame.impl = "none"  -> UNCHANGED qjs

(* The destructors: only that of a scope that has entered the engine       *)
(* triggers a tick.                                                        *)
ScopeEnds(t, frame) ==
  CASE frame.impl = "enter" -> qjs' = [triggerTick(qjs) EXCEPT !.lock = NoThread]
    [] frame.impl = "exit"  -> qjs.lock = NoThread /\ qjs' = [qjs EXCEPT !.lock = t]
    [] frame.impl = "none"  -> UNCHANGED qjs

LeaveQjs(t) ==
  /\ HasTop(t, "no") \/ HasTop(t, "done")
  /\ ScopeEnds(t, QjsTop(t))
  /\ qjsFrames' = [qjsFrames EXCEPT ![t] = SubSeq(@, 1, Len(@) - 1)]
  /\ UNCHANGED qjsMade

(* eval, loadFile, a call of a function or a constructor: the script may   *)
(* make a job. One that throws leaves before triggerTick.                  *)
RunScript(t, made, throws) ==
  /\ InUserCode(t)
  /\ Inside(t)
  /\ qjsMade + made <= QjsMaxJobs
  /\ LET after == [qjs EXCEPT !.jobs = @ + made]
     IN  qjs' = IF throws THEN after ELSE triggerTick(after)
  /\ qjsMade' = qjsMade + made
  /\ UNCHANGED qjsFrames

-----------------------------------------------------------------------------
(* The tick, in whatever thread calls loopQueue.                           *)

TakeTick(t) ==
  /\ InUserCode(t)
  /\ qjs.posted > 0
  /\ qjs' = [qjs EXCEPT !.posted = @ - 1]
  /\ PushFrame(t, "none", "taken")
  /\ UNCHANGED qjsMade

EnterTick(t) ==
  /\ HasTop(t, "taken")
  /\ IF Inside(t)
     THEN UNCHANGED qjs
     ELSE qjs.lock = NoThread /\ qjs' = [qjs EXCEPT !.lock = t]
  /\ qjsFrames' = [qjsFrames EXCEPT ![t][Len(qjsFrames[t])] =
                     [impl |-> IF Inside(t) THEN "none" ELSE "enter", tick |-> "running"]]
  /\ UNCHANGED qjsMade

TickEnds(t) == qjsFrames' = [qjsFrames EXCEPT ![t][Len(qjsFrames[t])].tick = "done"]

(* Mutant: nobody looks whether there is a job.                            *)
ExecuteJobBlindly(t, throws) ==
  /\ HasTop(t, "running")
  /\ qjs' = [qjs EXCEPT !.jobs = @ - 1, !.scheduled = @ /\ ~throws]
  /\ IF throws THEN TickEnds(t) ELSE UNCHANGED qjsFrames
  /\ UNCHANGED qjsMade

(* JS_ExecutePendingJob. A job that throws ends the loop.                  *)
ExecuteJob(t, throws) ==
  /\ HasTop(t, "running")
  /\ qjs.jobs > 0
  /\ qjs' = [qjs EXCEPT !.jobs = @ - 1, !.scheduled = @ /\ ~throws]
  /\ IF throws THEN TickEnds(t) ELSE UNCHANGED qjsFrames
  /\ UNCHANGED qjsMade

(* Mutant: the flag is not reset.                                          *)
EndTickScheduled(t) ==
  /\ HasTop(t, "running")
  /\ qjs.jobs = 0
  /\ TickEnds(t)
  /\ UNCHANGED <<qjs, qjsMade>>

EndTick(t) ==
  /\ HasTop(t, "running")
  /\ qjs.jobs = 0
  /\ qjs' = [qjs EXCEPT !.scheduled = FALSE]
  /\ TickEnds(t)
  /\ UNCHANGED qjsMade

(* destroy(), which locks nothing: no thread may be in the engine or hold  *)
(* a tick. removeMessageByTag takes the ticks from the queue.              *)
DestroyQjs ==
  /\ \A t \in QjsThreads : qjsFrames[t] = << >>
  /\ ~qjs.destroyed
  /\ qjs' = [qjs EXCEPT !.destroyed = TRUE, !.posted = 0, !.jobs = 0]
  /\ UNCHANGED <<qjsMade, qjsFrames>>

RunTick(t) ==
  \/ EnterTick(t)
  \/ \E throws \in BOOLEAN : ExecuteJob(t, throws)
  \/ EndTick(t)
  \/ HasTop(t, "done") /\ LeaveQjs(t)

QjsNext ==
  \/ DestroyQjs
  \/ \E t \in QjsThreads :
       \/ EnterQjs(t) \/ ExitQjs(t) \/ LeaveQjs(t)
       \/ \E made \in 0..1, throws \in BOOLEAN : RunScript(t, made, throws)
       \/ TakeTick(t)
       \/ RunTick(t)

(* A looper comes back to loopQueue, whatever else it does in between; a   *)
(* tick that is taken goes on, whoever else wants the engine meanwhile.    *)
QjsFairness ==
  /\ \A t \in QjsLoopers : SF_qjsVars(qjsFrames[t] = << >> /\ TakeTick(t))
  /\ \A t \in QjsThreads : SF_qjsVars(RunTick(t))

-----------------------------------------------------------------------------

(* The flag and the message are one: there is a tick in the queue or under *)
(* way exactly while the flag is set, and never a second one, although     *)
(* three places set, reset and look at the flag.                           *)
TicksUnderWay ==
  Cardinality({at \in QjsThreads \X (1..QjsDepth + 1) :
                 /\ at[2] <= Len(qjsFrames[at[1]])
                 /\ qjsFrames[at[1]][at[2]].tick \in {"taken", "running"}})

OneTick == ~qjs.destroyed => qjs.posted + TicksUnderWay = IF qjs.scheduled THEN 1 ELSE 0

(* Jobs are never forgotten: if none is scheduled to run them, a thread    *)
(* has a scope that it has entered, whose end will trigger the tick. That  *)
(* covers scripts and jobs that throw, and scopes that have been exited.   *)
JobsHaveTick ==
  qjs.jobs > 0 /\ ~qjs.scheduled =>
    \E t \in QjsThreads : \E i \in 1..Len(qjsFrames[t]) : qjsFrames[t][i].impl = "enter"

(* Who is inside the engine has its lock.                                  *)
InsideHoldsLock == \A t \in QjsThreads : qjs.lock = t <=> Inside(t)

(* Together: as long as there are jobs, one tick comes or will be posted,  *)
(* and it runs them under the lock.                                        *)
TicksAreDue == OneTick /\ JobsHaveTick /\ InsideHoldsLock

(* The jobs of an engine run, if the threads leave their scopes now and    *)
(* then and one of them loops the queue.                                   *)
NoScopeOpen == \A t \in QjsThreads : \A i \in 1..Len(qjsFrames[t]) : qjsFrames[t][i].tick # "no"
JobsRun == []<>NoScopeOpen => (qjs.jobs > 0 ~> qjs.jobs = 0)
=============================================================================
