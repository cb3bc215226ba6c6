---------------------------- MODULE MessageQueue ----------------------------
(***************************************************************************)
(* script::utils::MessageQueue: a bounded queue of delayed messages shared *)
(* by threads that post to it, run its loop, remove messages from it and   *)
(* shut it down.                                                           *)
(*                                                                         *)
(* queueMutex_ is held inside the steps below and never between them, so a *)
(* critical section is one action and the mutex itself is not a variable.  *)
(* What happens outside it, the notify_all calls above all, is a step of   *)
(* its own. A thread asleep on a condition variable has a pc of its own; a *)
(* notification sends it back to the pc that takes the mutex again.        *)
(*                                                                         *)
(* A message is posted at most once here: its name stands for one use of a *)
(* pooled Message object (MemoryPool models the recycling).                *)
(***************************************************************************)
EXTENDS MessageOrder

CONSTANTS
  Threads,            \* threads that use the queue
  Messages,           \* messages that may be posted
  NoMessage,          \* no message: a null Message*
  Priority,           \* Message::priority of each message
  Delays,             \* the delays postMessage is called with
  MaxMessageInQueue,  \* maxMessageInQueue_
  MaxTime,            \* bound: the clock stops here and nothing is due later
  MaxNest,            \* bound: loopQueue calls on one thread's stack
  Calls,              \* the calls each thread makes outside a handler
  HandlerCalls        \* the calls message handlers make

CallNames ==
  { "post", "loopAndWait", "loopOnce", "remove", "interrupt", "shutdown",
    "shutdownNow", "awaitTermination", "throw" }

ASSUME MessageQueueAssumption ==
  /\ IsFiniteSet(Threads)
  /\ NoMessage \notin Messages
  /\ Priority \in [Messages -> Int]
  /\ Delays \subseteq Nat
  /\ MaxMessageInQueue \in Nat \ {0}
  /\ MaxTime \in Nat
  /\ MaxNest \in Nat \ {0}
  /\ Calls \in [Threads -> SUBSET (CallNames \ {"throw"})]
  \* handlers may do "nearly everything (except awaitTermination)",
  \* MessageQueue.h:124
  /\ HandlerCalls \subseteq CallNames \ {"awaitTermination"}

NoDeadline == -1
Unlimited  == -1   \* onceMessageCount of kLoopAndWait, (size_t) -1

VARIABLES
  queue,          \* queue_, front first
  due,            \* dueTime of each message
  shutdown_,      \* shutdown_
  interrupt_,     \* interrupt_
  workerCount_,   \* workerCount_
  runningQueue_,  \* the threads whose thread-local map holds this queue
  now,            \* the steady clock
  pc,             \* where each thread is in the queue's code
  loops,          \* the loopQueue calls on each thread's stack, innermost last
  posting,        \* the message a thread is posting
  deadline,       \* when the wait_for of a sleeping looper times out
  mustAwait,      \* threads whose shutdown call awaits the termination
  returned,       \* what a thread's last loopQueue returned
  status,         \* who has each message (history)
  asked           \* the shutdown calls made so far (history)

sharedVars == <<queue, due, shutdown_, interrupt_, workerCount_>>
threadVars == <<runningQueue_, pc, loops, posting, deadline, mustAwait, returned>>
historyVars == <<status, asked>>
vars == <<sharedVars, threadVars, historyVars, now>>

LoopTypes   == {"kLoopAndWait", "kLoopOnce"}
ReturnTypes == {"kRunOnce", "kInterrupt", "kShutDown", "exception"}
Asleep      == {"sleepNotEmpty", "sleepNotFull", "sleepQuit"}
PCs ==
  Asleep \cup
  { "outside",                      \* in no call of the queue
    "post", "postNotify",           \* in postMessage
    "count", "await", "popped",     \* in loopQueue
    "handler",                      \* in a handlerProc that loopQueue runs
    "quit", "quitNotify",           \* in ~LoopQueueGuard
    "removeNotify",                 \* in removeMessageIf
    "wakePosters", "wakeLoopers",   \* in shutdown, shutdownNow or interrupt
    "awaitQuit" }                   \* in awaitTermination

(* Where a message is. It is released, back in the pool, in the last four  *)
(* but "leaked".                                                           *)
Statuses ==
  { "fresh",      \* not posted yet
    "posting",    \* in a postMessage call
    "queued",     \* in the deque
    "running",    \* in a handler
    "done",       \* handled
    "refused",    \* postMessage has returned 0
    "dropped",    \* removed, or cleared by shutdownNow
    "leaked" }    \* its handler has thrown

Frame == [type : LoopTypes, left : Nat \cup {Unlimited}, msg : Messages \cup {NoMessage}]

TypeOK ==
  /\ queue \in Seq(Messages)
  /\ due \in [Messages -> Nat]
  /\ shutdown_ \in {"kNone", "kNow", "kAwaitQueue"}
  /\ interrupt_ \in BOOLEAN
  /\ workerCount_ \in Int
  /\ runningQueue_ \subseteq Threads
  /\ now \in 0..MaxTime
  /\ pc \in [Threads -> PCs]
  /\ loops \in [Threads -> Seq(Frame)]
  /\ posting \in [Threads -> Messages \cup {NoMessage}]
  /\ deadline \in [Threads -> Nat \cup {NoDeadline}]
  /\ mustAwait \subseteq Threads
  /\ returned \in [Threads -> ReturnTypes]
  /\ status \in [Messages -> Statuses]
  /\ asked \subseteq {"shutdown", "shutdownNow"}

Init ==
  /\ queue = << >>
  /\ due = [m \in Messages |-> 0]
  /\ shutdown_ = "kNone"
  /\ interrupt_ = FALSE
  /\ workerCount_ = 0
  /\ runningQueue_ = {}
  /\ now = 0
  /\ pc = [t \in Threads |-> "outside"]
  /\ loops = [t \in Threads |-> << >>]
  /\ posting = [t \in Threads |-> NoMessage]
  /\ deadline = [t \in Threads |-> NoDeadline]
  /\ mustAwait = {}
  /\ returned = [t \in Threads |-> "kRunOnce"]
  /\ status = [m \in Messages |-> "fresh"]
  /\ asked = {}

-----------------------------------------------------------------------------
(* Calls, returns, and condition variables                                 *)

(* t is at a point where it makes the call c: in its own code, or in a     *)
(* handler that the innermost loopQueue on its stack is running.           *)
MayCall(t, c) ==
  \/ pc[t] = "outside" /\ c \in Calls[t]
  \/ pc[t] = "handler" /\ c \in HandlerCalls

(* Where a call made by t returns to.                                      *)
Caller(t) == IF loops[t] = << >> THEN "outside" ELSE "handler"

Goto(t, label) == pc' = [pc EXCEPT ![t] = label]

(* notify_all: every sleeper takes the mutex again; t goes on at `label`.  *)
NotifyAll(sleep, recheck, t, label) ==
  pc' = [u \in Threads |-> IF u = t THEN label
                           ELSE IF pc[u] = sleep THEN recheck ELSE pc[u]]

NotifyNotFull(t, label) == NotifyAll("sleepNotFull", "post", t, label)

(* Mutant: wake the loopers only when the deque has just become non-empty. *)
NotifyNotEmptyOnFirst(t, label) ==
  IF Len(queue) = 1
  THEN /\ NotifyAll("sleepNotEmpty", "await", t, label)
       /\ deadline' = [u \in Threads |-> NoDeadline]
  ELSE Goto(t, label) /\ UNCHANGED deadline

NotifyNotEmpty(t, label) ==
  /\ NotifyAll("sleepNotEmpty", "await", t, label)
  /\ deadline' = [u \in Threads |-> NoDeadline]

NotifyWorkerQuit(t, label) == NotifyAll("sleepQuit", "awaitQuit", t, label)

Top(t) == loops[t][Len(loops[t])]

IsQueueFull == Len(queue) >= MaxMessageInQueue

HasDueMessageLocked == queue # << >> /\ due[Head(queue)] <= now

-----------------------------------------------------------------------------
(* Posting                                                                 *)

(* postMessage up to the lock: the due time is fixed here, however long    *)
(* the poster then waits for room.                                         *)
PostMessage(t, m, delay) ==
  /\ MayCall(t, "post")
  /\ status[m] = "fresh"
  /\ now + delay <= MaxTime
  /\ due' = [due EXCEPT ![m] = now + delay]
  /\ status' = [status EXCEPT ![m] = "posting"]
  /\ posting' = [posting EXCEPT ![t] = m]
  /\ Goto(t, "post")
  /\ UNCHANGED <<queue, shutdown_, interrupt_, workerCount_, runningQueue_, now,
                 loops, deadline, mustAwait, returned, asked>>

(* isCallerNestedInsideLoop: the calling thread's map holds this queue.    *)
IsCallerNestedInsideLoop(t) == t \in runningQueue_

(* Mutant: a looper waits for room like everybody else.                    *)
EverybodyAwaitsRoom(t) == IsQueueFull

(* awaitNotFullLocked: only a caller the map takes for a looper gets past  *)
(* a full queue; the others sleep until there is room, shut down or not.   *)
MustAwaitNotFull(t) == IsQueueFull /\ ~IsCallerNestedInsideLoop(t)

PostSleep(t) ==
  /\ pc[t] = "post"
  /\ MustAwaitNotFull(t)
  /\ Goto(t, "sleepNotFull")
  /\ UNCHANGED <<sharedVars, runningQueue_, loops, posting, deadline, mustAwait,
                 returned, historyVars, now>>

(* Mutant: a draining queue refuses messages already.                      *)
RefusesOnceAsked == shutdown_ # "kNone"

RefusesMessages == shutdown_ = "kNow"

(* The queue is shut down: the message is released and postMessage         *)
(* returns 0.                                                              *)
PostRefused(t) ==
  /\ pc[t] = "post"
  /\ ~MustAwaitNotFull(t)
  /\ RefusesMessages
  /\ status' = [status EXCEPT ![posting[t]] = "refused"]
  /\ posting' = [posting EXCEPT ![t] = NoMessage]
  /\ Goto(t, Caller(t))
  /\ UNCHANGED <<sharedVars, runningQueue_, loops, deadline, mustAwait, returned,
                 asked, now>>

PostInsert(t) ==
  /\ pc[t] = "post"
  /\ ~MustAwaitNotFull(t)
  /\ ~RefusesMessages
  /\ queue' = Insert(queue, due, Priority, posting[t])
  /\ status' = [status EXCEPT ![posting[t]] = "queued"]
  /\ posting' = [posting EXCEPT ![t] = NoMessage]
  /\ Goto(t, "postNotify")
  /\ UNCHANGED <<due, shutdown_, interrupt_, workerCount_, runningQueue_, loops,
                 deadline, mustAwait, returned, asked, now>>

PostNotify(t) ==
  /\ pc[t] = "postNotify"
  /\ NotifyNotEmpty(t, Caller(t))
  /\ UNCHANGED <<sharedVars, runningQueue_, loops, posting, mustAwait, returned,
                 historyVars, now>>

-----------------------------------------------------------------------------
(* Looping                                                                 *)

(* Mutant: only the outermost loopQueue of a thread is counted.            *)
CountOutermost(t) == IF loops[t] = << >> THEN workerCount_ + 1 ELSE workerCount_

WorkersEntered(t) == workerCount_ + 1

(* LoopQueueGuard's constructor, then the first step of the loop.          *)
Enter(t, type, first) ==
  /\ Len(loops[t]) < MaxNest
  /\ runningQueue_' = runningQueue_ \cup {t}
  /\ workerCount_' = WorkersEntered(t)
  /\ loops' = [loops EXCEPT ![t] = Append(@, [type |-> type, left |-> Unlimited,
                                              msg |-> NoMessage])]
  /\ Goto(t, first)
  /\ UNCHANGED <<queue, due, shutdown_, interrupt_, posting, deadline, mustAwait,
                 returned, historyVars, now>>

LoopQueue(t) == MayCall(t, "loopAndWait") /\ Enter(t, "kLoopAndWait", "await")

LoopQueueOnce(t) == MayCall(t, "loopOnce") /\ Enter(t, "kLoopOnce", "count")

(* dueMessageCount: the messages before the first that is not due.         *)
DueMessageCount ==
  ScanForward(queue, 1, LAMBDA m : due[m] > now) - 1

LoopCount(t) ==
  /\ pc[t] = "count"
  /\ loops' = [loops EXCEPT ![t][Len(loops[t])].left = DueMessageCount]
  /\ Goto(t, "await")
  /\ UNCHANGED <<sharedVars, runningQueue_, posting, deadline, mustAwait, returned,
                 historyVars, now>>

(* loopQueue is about to return `type`.                                    *)
Quit(t, type) ==
  /\ returned' = [returned EXCEPT ![t] = type]
  /\ Goto(t, "quit")
  /\ UNCHANGED <<queue, due, workerCount_, runningQueue_, loops, posting, deadline,
                 mustAwait, historyVars, now>>

(* checkQuitLoopNowLocked, one disjunct per return.                        *)
AwaitQuitNow(t) ==
  /\ pc[t] = "await"
  /\ \/ /\ shutdown_ = "kNow"
        /\ Quit(t, "kShutDown")
        /\ UNCHANGED <<shutdown_, interrupt_>>
     \/ /\ shutdown_ # "kNow"
        /\ interrupt_
        /\ interrupt_' = FALSE
        /\ Quit(t, "kInterrupt")
        /\ UNCHANGED shutdown_
     \/ /\ shutdown_ # "kNow"
        /\ ~interrupt_
        /\ Top(t).type = "kLoopOnce" /\ Top(t).left = 0
        /\ Quit(t, "kRunOnce")
        /\ UNCHANGED <<shutdown_, interrupt_>>

(* None of the conditions of checkQuitLoopNowLocked holds.                 *)
GoesOn(t) ==
  /\ pc[t] = "await"
  /\ shutdown_ # "kNow"
  /\ ~interrupt_
  /\ ~(Top(t).type = "kLoopOnce" /\ Top(t).left = 0)

(* Mutant: messages that are not due yet do not hold a shutdown up.        *)
DrainedOfDue == shutdown_ = "kAwaitQueue" /\ ~HasDueMessageLocked

(* Mutant: the last looper closes the queue, the others wait.              *)
DrainedByLast == shutdown_ = "kAwaitQueue" /\ queue = << >> /\ workerCount_ = 1

Drained == shutdown_ = "kAwaitQueue" /\ queue = << >>

(* checkQuitLoopWhenNoDueMessageLocked. A drained queue turns kAwaitQueue  *)
(* into kNow.                                                              *)
QuitsWhenNoDue(t) == Top(t).type = "kLoopOnce" \/ Drained

AwaitQuitNoDue(t) ==
  /\ GoesOn(t)
  /\ ~HasDueMessageLocked
  /\ UNCHANGED interrupt_
  /\ \/ /\ Top(t).type = "kLoopOnce"
        /\ Quit(t, "kRunOnce")
        /\ UNCHANGED shutdown_
     \/ /\ Top(t).type = "kLoopAndWait"
        /\ Drained
        /\ shutdown_' = "kNow"
        /\ Quit(t, "kShutDown")

(* Mutant: no time limit.                                                  *)
SleepUntilNotified == NoDeadline

SleepUntil == IF queue = << >> THEN NoDeadline ELSE due[Head(queue)]

(* Wait for a message, or until the first one is due.                      *)
AwaitSleep(t) ==
  /\ GoesOn(t)
  /\ ~HasDueMessageLocked
  /\ ~QuitsWhenNoDue(t)
  /\ deadline' = [deadline EXCEPT ![t] = SleepUntil]
  /\ Goto(t, "sleepNotEmpty")
  /\ UNCHANGED <<sharedVars, runningQueue_, loops, posting, mustAwait, returned,
                 historyVars, now>>

AwaitPop(t) ==
  /\ GoesOn(t)
  /\ HasDueMessageLocked
  /\ queue' = Tail(queue)
  /\ status' = [status EXCEPT ![Head(queue)] = "running"]
  /\ loops' = [loops EXCEPT ![t][Len(loops[t])].msg = Head(queue)]
  /\ Goto(t, "popped")
  /\ UNCHANGED <<due, shutdown_, interrupt_, workerCount_, runningQueue_, posting,
                 deadline, mustAwait, returned, asked, now>>

(* Mutant: the pop notifies nobody.                                        *)
StartHandlerQuietly(t) ==
  /\ pc[t] = "popped"
  /\ Goto(t, "handler")
  /\ UNCHANGED <<sharedVars, runningQueue_, loops, posting, deadline, mustAwait,
                 returned, historyVars, now>>

(* queueNotFullCondition_.notify_all, then processMessage calls handle().  *)
StartHandler(t) ==
  /\ pc[t] = "popped"
  /\ NotifyNotFull(t, "handler")
  /\ UNCHANGED <<sharedVars, runningQueue_, loops, posting, deadline, mustAwait,
                 returned, historyVars, now>>

(* Mutant: the count of messages left is a signed number.                  *)
SignedCountdown(n) == n - 1

Countdown(n) == IF n = Unlimited THEN n ELSE n - 1

(* The handler returns; the message is cleaned up and back in the pool.    *)
EndHandler(t) ==
  /\ pc[t] = "handler"
  /\ status' = [status EXCEPT ![Top(t).msg] = "done"]
  /\ loops' = [loops EXCEPT ![t][Len(loops[t])] =
                 [Top(t) EXCEPT !.msg = NoMessage, !.left = Countdown(Top(t).left)]]
  /\ Goto(t, "await")
  /\ UNCHANGED <<sharedVars, runningQueue_, posting, deadline, mustAwait, returned,
                 asked, now>>

(* The handler throws out of loopQueue: nothing releases its message.      *)
ThrowHandler(t) ==
  /\ pc[t] = "handler"
  /\ "throw" \in HandlerCalls
  /\ status' = [status EXCEPT ![Top(t).msg] = "leaked"]
  /\ returned' = [returned EXCEPT ![t] = "exception"]
  /\ Goto(t, "quit")
  /\ UNCHANGED <<sharedVars, runningQueue_, loops, posting, deadline, mustAwait,
                 asked, now>>

(* ~LoopQueueGuard up to the unlock. It decrements the nest count in a     *)
(* copy of the thread's map, so that the map keeps the queue.              *)
LoopQuit(t) ==
  /\ pc[t] = "quit"
  /\ workerCount_' = workerCount_ - 1
  /\ loops' = [loops EXCEPT ![t] = Front(@)]
  /\ Goto(t, "quitNotify")
  /\ UNCHANGED <<queue, due, shutdown_, interrupt_, runningQueue_, posting, deadline,
                 mustAwait, returned, historyVars, now>>

(* The rest of ~LoopQueueGuard; loopQueue has returned after it.           *)
QuitNotify(t) ==
  /\ pc[t] = "quitNotify"
  /\ NotifyWorkerQuit(t, Caller(t))
  /\ UNCHANGED <<sharedVars, runningQueue_, loops, posting, deadline, mustAwait,
                 returned, historyVars, now>>

-----------------------------------------------------------------------------
(* Removing, interrupting, shutting down                                   *)

(* Mutant: the message is released and stays in the deque.                 *)
ErasedNothing(S) == queue

Erased(S) == Erase(queue, S)

(* removeMessageIf with a predicate that picks the messages in S: one for  *)
(* kRemove, any number for kRemoveAndContinue.                             *)
RemoveMessageIf(t, S) ==
  /\ MayCall(t, "remove")
  /\ S # {}
  /\ queue' = Erased(S)
  /\ status' = [m \in Messages |-> IF m \in S THEN "dropped" ELSE status[m]]
  /\ Goto(t, "removeNotify")
  /\ UNCHANGED <<due, shutdown_, interrupt_, workerCount_, runningQueue_, loops,
                 posting, deadline, mustAwait, returned, asked, now>>

RemoveNotify(t) ==
  /\ pc[t] = "removeNotify"
  /\ NotifyNotFull(t, Caller(t))
  /\ UNCHANGED <<sharedVars, runningQueue_, loops, posting, deadline, mustAwait,
                 returned, historyVars, now>>

Interrupt(t) ==
  /\ MayCall(t, "interrupt")
  /\ interrupt_' = TRUE
  /\ Goto(t, "wakeLoopers")
  /\ UNCHANGED <<queue, due, shutdown_, workerCount_, runningQueue_, loops, posting,
                 deadline, mustAwait, returned, historyVars, now>>

(* Both shutdown calls take an awaitTermination flag, which a handler must *)
(* leave unset.                                                            *)
AskShutdown(t, call, type, await) ==
  /\ MayCall(t, call)
  /\ await => pc[t] = "outside"
  /\ shutdown_' = type
  /\ asked' = asked \cup {call}
  /\ mustAwait' = IF await THEN mustAwait \cup {t} ELSE mustAwait
  /\ Goto(t, "wakePosters")
  /\ UNCHANGED <<due, interrupt_, workerCount_, runningQueue_, loops, posting,
                 deadline, returned, now>>

ShutdownNow(t, await) ==
  /\ AskShutdown(t, "shutdownNow", "kNow", await)
  /\ queue' = << >>
  /\ status' = [m \in Messages |-> IF status[m] = "queued" THEN "dropped"
                                   ELSE status[m]]

Shutdown(t, await) ==
  /\ AskShutdown(t, "shutdown", "kAwaitQueue", await)
  /\ UNCHANGED <<queue, status>>

WakePosters(t) ==
  /\ pc[t] = "wakePosters"
  /\ NotifyNotFull(t, "wakeLoopers")
  /\ UNCHANGED <<sharedVars, runningQueue_, loops, posting, deadline, mustAwait,
                 returned, historyVars, now>>

WakeLoopers(t) ==
  /\ pc[t] = "wakeLoopers"
  /\ NotifyNotEmpty(t, IF t \in mustAwait THEN "awaitQuit" ELSE Caller(t))
  /\ mustAwait' = mustAwait \ {t}
  /\ UNCHANGED <<sharedVars, runningQueue_, loops, posting, returned, historyVars,
                 now>>

AwaitTermination(t) ==
  /\ pc[t] = "outside" /\ MayCall(t, "awaitTermination")
  /\ Goto(t, "awaitQuit")
  /\ UNCHANGED <<sharedVars, runningQueue_, loops, posting, deadline, mustAwait,
                 returned, historyVars, now>>

(* workerQuitCondition_.wait(lk, workerCount_ == 0), one check of it.      *)
AwaitReturn(t) ==
  /\ pc[t] = "awaitQuit"
  /\ workerCount_ = 0
  /\ Goto(t, Caller(t))
  /\ UNCHANGED <<sharedVars, runningQueue_, loops, posting, deadline, mustAwait,
                 returned, historyVars, now>>

AwaitQuitSleep(t) ==
  /\ pc[t] = "awaitQuit"
  /\ workerCount_ # 0
  /\ Goto(t, "sleepQuit")
  /\ UNCHANGED <<sharedVars, runningQueue_, loops, posting, deadline, mustAwait,
                 returned, historyVars, now>>

-----------------------------------------------------------------------------
(* Time and wake-ups without a notification                                *)

Tick ==
  /\ now < MaxTime
  /\ now' = now + 1
  /\ UNCHANGED <<sharedVars, threadVars, historyVars>>

(* Back to the check that precedes the wait.                               *)
WakeAlone(t) ==
  /\ Goto(t, CASE pc[t] = "sleepNotEmpty" -> "await"
               [] pc[t] = "sleepNotFull"  -> "post"
               [] pc[t] = "sleepQuit"     -> "awaitQuit")
  /\ deadline' = [deadline EXCEPT ![t] = NoDeadline]
  /\ UNCHANGED <<sharedVars, runningQueue_, loops, posting, mustAwait, returned,
                 historyVars, now>>

(* wait_for times out.                                                     *)
WaitTimeout(t) ==
  /\ pc[t] = "sleepNotEmpty"
  /\ deadline[t] # NoDeadline /\ deadline[t] <= now
  /\ WakeAlone(t)

(* std::condition_variable may wake a thread for no reason.                *)
SpuriousWakeup(t) == pc[t] \in Asleep /\ WakeAlone(t)

-----------------------------------------------------------------------------

(* What t does by itself once it is inside a call of the queue.            *)
Continue(t) ==
  \/ PostSleep(t) \/ PostRefused(t) \/ PostInsert(t) \/ PostNotify(t)
  \/ LoopCount(t) \/ AwaitQuitNow(t) \/ AwaitQuitNoDue(t) \/ AwaitSleep(t)
  \/ AwaitPop(t) \/ StartHandler(t) \/ LoopQuit(t) \/ QuitNotify(t)
  \/ RemoveNotify(t) \/ WakePosters(t) \/ WakeLoopers(t)
  \/ AwaitReturn(t) \/ AwaitQuitSleep(t) \/ WaitTimeout(t)

Call(t) ==
  \/ \E m \in Messages, d \in Delays : PostMessage(t, m, d)
  \/ LoopQueue(t) \/ LoopQueueOnce(t)
  \/ \E S \in SUBSET ToSet(queue) : RemoveMessageIf(t, S)
  \/ Interrupt(t)
  \/ \E await \in BOOLEAN : ShutdownNow(t, await) \/ Shutdown(t, await)
  \/ AwaitTermination(t)

Next ==
  \/ \E t \in Threads : Continue(t) \/ Call(t) \/ EndHandler(t) \/ ThrowHandler(t)
                        \/ SpuriousWakeup(t)
  \/ Tick

Spec == Init /\ [][Next]_vars

-----------------------------------------------------------------------------
(* Safety                                                                  *)

(* The loopQueue calls on the stacks: the i-th of thread t is <<t, i>>.     *)
LoopCalls == {c \in Threads \X (1..MaxNest) : c[2] \in DOMAIN loops[c[1]]}

(* Every message has exactly one owner. A message in the deque is there    *)
(* once and has status "queued"; one that is being posted is in the hands  *)
(* of one poster; one that runs is in one frame of one stack. So nothing   *)
(* is handled twice, released twice, or released while it is handled       *)
(* (releaseMessage, MessageQueue.cc:133-136, has four callers).            *)
Running(m) ==
  { c \in LoopCalls : loops[c[1]][c[2]].msg = m /\ status[m] # "leaked" }

OneOwner ==
  /\ IsInjective(queue)
  /\ \A m \in Messages :
       /\ status[m] = "queued" <=> m \in ToSet(queue)
       /\ Cardinality({t \in Threads : posting[t] = m})
            = IF status[m] = "posting" THEN 1 ELSE 0
       /\ Cardinality(Running(m)) = IF status[m] = "running" THEN 1 ELSE 0

(* The deque is sorted by due time and then priority, whatever the order   *)
(* in which concurrent posters get the mutex (their due times are fixed    *)
(* before they wait for it), MessageQueue.h:95-101.                        *)
QueueSorted == Sorted(queue, due, Priority)

(* workerCount_ is the number of loopQueue calls that have entered and not *)
(* left their guard, the nested ones included. awaitTermination is only as *)
(* right as this count.                                                    *)
WorkerCountExact == workerCount_ = Cardinality(LoopCalls)

(* Once the queue is shut down for good it is empty and stays empty: the   *)
(* deque is cleared, drained before kAwaitQueue turns into kNow, and no    *)
(* post that was waiting for room gets in (MessageQueue.cc:235-240).       *)
ShutDownQueueIsEmpty == shutdown_ = "kNow" => queue = << >>

(* A thread that is inside loopQueue never sleeps on a full queue: it is   *)
(* the one that has to make room (MessageQueue.cc:215-220).                *)
LooperNeverAwaitsRoom ==
  \A t \in Threads : pc[t] = "sleepNotFull" => loops[t] = << >>

(* No wake-up is lost. A thread that sleeps although what it waits for is  *)
(* there is about to be notified: some thread has changed the state and    *)
(* not yet made the notify_all that follows the unlock.                    *)
NotifiesNotEmpty == {"postNotify", "wakePosters", "wakeLoopers"}
NotifiesNotFull  == {"popped", "removeNotify", "wakePosters"}

LooperHasWork(t) ==
  \/ interrupt_
  \/ deadline[t] = NoDeadline /\ (queue # << >> \/ shutdown_ # "kNone")
  \/ deadline[t] # NoDeadline /\ queue # << >> /\ due[Head(queue)] < deadline[t]

NoLooperForgotten ==
  \A t \in Threads :
    pc[t] = "sleepNotEmpty" /\ LooperHasWork(t)
      => \E u \in Threads : pc[u] \in NotifiesNotEmpty

NoPosterForgotten ==
  \A t \in Threads :
    pc[t] = "sleepNotFull" /\ ~IsQueueFull
      => \E u \in Threads : pc[u] \in NotifiesNotFull

NoAwaiterForgotten ==
  \A t \in Threads :
    pc[t] = "sleepQuit" /\ workerCount_ = 0
      => \E u \in Threads : pc[u] = "quitNotify"

NoLostWakeup == NoLooperForgotten /\ NoPosterForgotten /\ NoAwaiterForgotten

-----------------------------------------------------------------------------
(* What the comments say and the code does not                             *)

(* "@param maxMessageInQueue if call postXXX when queue is full, will      *)
(* block" (MessageQueue.h:280), the exception being a call "already inside *)
(* loopQueue call" (MessageQueue.cc:216).                                  *)
PostBlocksOutsideLoops ==
  [][Len(queue') > Len(queue) /\ IsQueueFull
       => \E t \in Threads : pc[t] = "post" /\ pc'[t] # "post" /\ loops[t] # << >>]_vars

(* shutdownNow(true): "when this method returns the loopQueue() call is    *)
(* guaranteed to be returned first" (MessageQueue.h:295-296).              *)
InLoopQueue(t) == loops[t] # << >> \/ pc[t] = "quitNotify"

AwaitedLoopsHaveReturned ==
  [][\A t \in Threads :
       pc[t] = "awaitQuit" /\ pc'[t] = "outside"
         => \A u \in Threads : ~InLoopQueue(u)]_vars

-----------------------------------------------------------------------------
(* Liveness                                                                *)

(* Threads inside the queue keep running, handlers return, time passes.    *)
(* No thread has to make another call, and no wake-up comes by itself.     *)
Fairness ==
  /\ \A t \in Threads : WF_vars(Continue(t))
  /\ \A t \in Threads : WF_vars(EndHandler(t))
  /\ WF_vars(Tick)

FairSpec == Spec /\ Fairness

(* As FairSpec, with threads that go back to the loop whenever it returns. *)
LoopingSpec == FairSpec /\ \A t \in Threads : WF_vars(LoopQueue(t))

(* Every loopQueue call comes to an end once a shutdown has been asked     *)
(* for, wherever its thread was: asleep without a deadline, asleep until a *)
(* message is due that has been removed meanwhile, running a handler, or   *)
(* about to sleep when the shutdown slips in.                              *)
LoopsEndAfterShutdown ==
  \A t \in Threads : shutdown_ # "kNone" ~> loops[t] = << >>

(* While threads keep looping, every message that is queued runs or is     *)
(* dropped by somebody, and every post that waits for room gets it.        *)
QueuedMessagesRun ==
  \A m \in Messages : status[m] = "queued" ~> status[m] # "queued"

PostersGetThrough ==
  \A t \in Threads : posting[t] # NoMessage ~> posting[t] = NoMessage

-----------------------------------------------------------------------------
(* Whatever the threads do, the users of the queue see a DelayQueue: no    *)
(* message is lost, duplicated, refused while the queue is open, accepted  *)
(* while it is closed, or run before its time or out of order.             *)
Promise == INSTANCE DelayQueue WITH mode <- shutdown_

ImplementsDelayQueue == Promise!Spec
=============================================================================
