----------------------------- MODULE ThreadPool -----------------------------
(***************************************************************************)
(* script::utils::ThreadPool: worker threads that run the loop of one      *)
(* MessageQueue until it is shut down, and joinWorkers, which waits for    *)
(* them to end. A step is a step of MessageQueue or of the pool's own      *)
(* code; the queue belongs to the pool, so only the pool's calls reach it. *)
(***************************************************************************)
EXTENDS MessageQueue

CONSTANTS
  Workers,   \* the threads of workers_, a subset of Threads
  NoClient   \* nobody: threadMutex_ is free

Clients == Threads \ Workers

(* Workers call nothing but loopQueue, clients never loop, and a handler   *)
(* must not throw: the exception would leave the std::thread.              *)
ASSUME ThreadPoolAssumption ==
  /\ Workers \subseteq Threads
  /\ NoClient \notin Threads
  /\ \A w \in Workers : Calls[w] = {"loopAndWait"}
  /\ \A c \in Clients :
       Calls[c] \subseteq {"post", "remove", "shutdown", "shutdownNow",
                           "awaitTermination"}
  /\ HandlerCalls \subseteq {"post", "remove", "shutdown", "shutdownNow"}

VARIABLES
  started,       \* workers that have made their first loopQueue call
  ended,         \* workers whose thread function has returned
  joined,        \* workers that have been joined: no longer joinable
  threadMutex_,  \* the client that holds threadMutex_, if any
  joining        \* what each client has left of an awaiting call

poolVars == <<started, ended, joined, threadMutex_, joining>>
allVars == <<vars, poolVars>>

PoolTypeOK ==
  /\ started \subseteq Workers
  /\ ended \subseteq started
  /\ joined \subseteq ended
  /\ threadMutex_ \in Clients \cup {NoClient}
  /\ joining \in [Clients -> {"no", "queue", "lock", "join"}]

PoolInit ==
  /\ Init
  /\ started = {}
  /\ ended = {}
  /\ joined = {}
  /\ threadMutex_ = NoClient
  /\ joining = [c \in Clients |-> "no"]

(* while (queue_->loopQueue() != kShutDown) {}                             *)
WorkerLoops(w) ==
  /\ w \notin ended
  /\ w \in started => returned[w] # "kShutDown"
  /\ LoopQueue(w)
  /\ started' = started \cup {w}
  /\ UNCHANGED <<ended, joined, threadMutex_, joining>>

WorkerEnds(w) ==
  /\ w \in started \ ended
  /\ pc[w] = "outside"
  /\ returned[w] = "kShutDown"
  /\ ended' = ended \cup {w}
  /\ UNCHANGED <<vars, started, joined, threadMutex_, joining>>

(* A call of the pool that goes to the queue and has nothing to await.     *)
ClientCalls(c) ==
  /\ joining[c] = "no"
  /\ \/ \E m \in Messages, d \in Delays : PostMessage(c, m, d)
     \/ \E S \in SUBSET ToSet(queue) : RemoveMessageIf(c, S)
     \/ ShutdownNow(c, FALSE)
     \/ Shutdown(c, FALSE)
  /\ UNCHANGED poolVars

(* shutdown(true), shutdownNow(true), awaitTermination and the destructor: *)
(* first the queue's own awaitTermination, then joinWorkers.               *)
ClientAwaits(c) ==
  /\ joining[c] = "no"
  /\ ShutdownNow(c, TRUE) \/ Shutdown(c, TRUE) \/ AwaitTermination(c)
  /\ joining' = [joining EXCEPT ![c] = "queue"]
  /\ UNCHANGED <<started, ended, joined, threadMutex_>>

(* Mutant: no join after the queue's awaitTermination.                     *)
QueueAwaitedOnly(c) ==
  /\ joining[c] = "queue"
  /\ AwaitReturn(c)
  /\ joining' = [joining EXCEPT ![c] = "no"]
  /\ UNCHANGED <<started, ended, joined, threadMutex_>>

QueueAwaited(c) ==
  /\ joining[c] = "queue"
  /\ AwaitReturn(c)
  /\ joining' = [joining EXCEPT ![c] = "lock"]
  /\ UNCHANGED <<started, ended, joined, threadMutex_>>

JoinWorkers(c) ==
  /\ joining[c] = "lock"
  /\ threadMutex_ = NoClient
  /\ threadMutex_' = c
  /\ joining' = [joining EXCEPT ![c] = "join"]
  /\ UNCHANGED <<vars, started, ended, joined>>

(* Mutant: the worker is detached instead of joined.                       *)
DetachWorker(c, w) ==
  /\ joining[c] = "join"
  /\ w \notin joined
  /\ joined' = joined \cup {w}
  /\ UNCHANGED <<vars, started, ended, threadMutex_, joining>>

(* w->join() of the next joinable worker returns.                          *)
JoinWorker(c, w) ==
  /\ joining[c] = "join"
  /\ w \in ended \ joined
  /\ joined' = joined \cup {w}
  /\ UNCHANGED <<vars, started, ended, threadMutex_, joining>>

(* Mutant: threadMutex_ is not released.                                   *)
JoinReturnLocked(c) ==
  /\ joining[c] = "join"
  /\ joined = Workers
  /\ joining' = [joining EXCEPT ![c] = "no"]
  /\ UNCHANGED <<vars, started, ended, joined, threadMutex_>>

JoinReturn(c) ==
  /\ joining[c] = "join"
  /\ joined = Workers
  /\ threadMutex_' = NoClient
  /\ joining' = [joining EXCEPT ![c] = "no"]
  /\ UNCHANGED <<vars, started, ended, joined>>

(* The steps inside the queue's code, and what handlers call.              *)
InsideQueue(t) ==
  /\ \/ Continue(t) /\ (t \in Clients /\ pc[t] = "awaitQuit" => workerCount_ # 0)
     \/ EndHandler(t)
     \/ SpuriousWakeup(t)
     \/ pc[t] = "handler" /\ Call(t)
  /\ UNCHANGED poolVars

PoolStep(t) ==
  \/ InsideQueue(t)
  \/ t \in Workers /\ (WorkerLoops(t) \/ WorkerEnds(t))
  \/ t \in Clients /\ (ClientCalls(t) \/ ClientAwaits(t) \/ QueueAwaited(t)
                       \/ JoinWorkers(t) \/ (\E w \in Workers : JoinWorker(t, w))
                       \/ JoinReturn(t))

PoolTick == Tick /\ UNCHANGED poolVars

PoolNext == (\E t \in Threads : PoolStep(t)) \/ PoolTick

PoolSpec == PoolInit /\ [][PoolNext]_allVars

(* Workers run until they end, joins that can return do, time passes, and  *)
(* a handler makes a finite number of calls before it returns. Clients     *)
(* need not call anything.                                                 *)
ByItself(t) ==
  \/ Continue(t) /\ InsideQueue(t)
  \/ t \in Workers /\ (WorkerLoops(t) \/ WorkerEnds(t))
  \/ t \in Clients /\ (QueueAwaited(t) \/ JoinWorkers(t)
                       \/ (\E w \in Workers : JoinWorker(t, w)) \/ JoinReturn(t))

FairPoolSpec ==
  /\ PoolSpec
  /\ \A t \in Threads : WF_allVars(ByItself(t))
  /\ \A w \in Workers : SF_allVars(EndHandler(w) /\ UNCHANGED poolVars)
  /\ WF_allVars(PoolTick)

-----------------------------------------------------------------------------
(* Properties                                                              *)

(* When a pool call that awaits returns, the workers have left the queue's *)
(* code altogether, the last notify_all of ~LoopQueueGuard included, so    *)
(* that the pool and its queue may be destroyed (ThreadPool.cc:38). The    *)
(* queue's own awaitTermination does not give that.                        *)
AwaitedWorkersAreGone ==
  [][\A c \in Clients :
       joining[c] # "no" /\ joining'[c] = "no"
         => \A w \in Workers : w \in ended /\ pc[w] = "outside"]_allVars

(* A worker ends only when it has seen the queue closed: nothing that was  *)
(* queued then is left behind, and nothing is in a handler of its own. The *)
(* last one to end leaves no message that runs.                            *)
EndedPoolIsIdle ==
  ended = Workers =>
    /\ workerCount_ = 0
    /\ \A m \in Messages : status[m] \notin {"running", "leaked"}
    /\ shutdown_ = "kNow" => queue = << >>

(* Together, with the types.                                               *)
PoolEndsClean == AwaitedWorkersAreGone /\ [](PoolTypeOK /\ EndedPoolIsIdle)

(* After any shutdown call the workers end, those that had not called      *)
(* loopQueue yet included.                                                 *)
ShutdownEndsPool == asked # {} ~> ended = Workers

(* After any shutdown call, a call that awaits the workers returns, unless *)
(* other clients go on for ever taking threadMutex_ before it does.        *)
AwaitingCallsReturn ==
  \A c \in Clients :
    \/ joining[c] # "no" /\ asked # {} ~> joining[c] = "no"
    \/ []<>(threadMutex_ \in Clients \ {c}) /\ []<>(threadMutex_ = NoClient)
=============================================================================
