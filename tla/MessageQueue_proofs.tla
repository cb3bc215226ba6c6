------------------------- MODULE MessageQueue_proofs -------------------------
(***************************************************************************)
(* What MessageQueue promises for any number of threads and messages, any  *)
(* capacity, any delays and any calls, and what a ThreadPool leaves behind.*)
(***************************************************************************)
EXTENDS ThreadPool, MessageOrder_proofs

-----------------------------------------------------------------------------
(* Types and control                                                       *)

InLoop == {"count", "await", "sleepNotEmpty", "popped", "handler", "quit"}

(* A thread at one of loopQueue's steps has a loopQueue on its stack, and  *)
(* one at one of postMessage's steps has a message to post.                *)
LoopersHaveLoops == \A t \in Threads : pc[t] \in InLoop => loops[t] # << >>

PostersHaveMessages ==
  \A t \in Threads : pc[t] \in {"post", "sleepNotFull"} => posting[t] \in Messages

Control == LoopersHaveLoops /\ PostersHaveMessages

Typed == TypeOK /\ Control

LEMMA FrameUpdate ==
  ASSUME NEW s \in Seq(Frame), s # << >>,
         NEW left \in Nat \cup {Unlimited}, NEW msg \in Messages \cup {NoMessage}
  PROVE  /\ [s EXCEPT ![Len(s)].left = left] \in Seq(Frame) \ {<< >>}
         /\ [s EXCEPT ![Len(s)].msg = msg] \in Seq(Frame) \ {<< >>}
         /\ [s EXCEPT ![Len(s)] = [@ EXCEPT !.msg = msg, !.left = left]] \in Seq(Frame) \ {<< >>}
<1>1. Len(s) \in 1..Len(s) /\ s[Len(s)] \in Frame
  OBVIOUS
<1>2. /\ [s[Len(s)] EXCEPT !.left = left] \in Frame
      /\ [s[Len(s)] EXCEPT !.msg = msg] \in Frame
      /\ [s[Len(s)] EXCEPT !.msg = msg, !.left = left] \in Frame
  BY <1>1 DEF Frame
<1>3. ASSUME NEW frame \in Frame
      PROVE  [s EXCEPT ![Len(s)] = frame] \in Seq(Frame) \ {<< >>}
  <2> HIDE DEF Frame
  <2>1. /\ [s EXCEPT ![Len(s)] = frame] \in Seq(Frame)
        /\ Len([s EXCEPT ![Len(s)] = frame]) = Len(s)
    BY <1>1, <1>3, ExceptSeq
  <2>2. Len(s) # 0 /\ Len(<< >>) = 0
    OBVIOUS
  <2> QED BY <2>1, <2>2
<1> QED BY <1>2, <1>3

LEMMA DueMessageCountType ==
  ASSUME queue \in Seq(Messages)
  PROVE  DueMessageCount \in Nat
<1> DEFINE n     == Len(queue)
           Stops == {i \in 1..n : due[queue[i]] > now}
           at    == CHOOSE i \in 1..(n + 1) :
                      /\ i = n + 1 \/ due[queue[i]] > now
                      /\ \A j \in 1..(i - 1) : ~(due[queue[j]] > now)
<1>1. n \in Nat /\ 1 \in 1..(n + 1)
  OBVIOUS
<1>2. \A i \in 1..n : i \in Stops <=> due[queue[i]] > now
  OBVIOUS
<1>3. DueMessageCount = at - 1
  BY DEF DueMessageCount, ScanForward
<1> HIDE DEF n, Stops
<1>4. PICK k \in 1..(n + 1) : /\ k = n + 1 \/ k \in Stops
                             /\ \A j \in 1..(k - 1) : j \notin Stops
  BY <1>1, ForwardExists
<1>5. /\ k = n + 1 \/ due[queue[k]] > now
      /\ \A j \in 1..(k - 1) : ~(due[queue[j]] > now)
  BY <1>1, <1>2, <1>4
<1>6. at \in 1..(n + 1)
  BY <1>5
<1> HIDE DEF at
<1> QED BY <1>1, <1>3, <1>6

LEMMA TypedInit == Init => Typed
<1> SUFFICES ASSUME Init
             PROVE  Typed
  OBVIOUS
<1>1. TypeOK
  <2>1. queue \in Seq(Messages) /\ loops \in [Threads -> Seq(Frame)]
    BY DEF Init
  <2>2. due \in [Messages -> Nat] /\ workerCount_ \in Int /\ now \in 0..MaxTime
    BY MessageQueueAssumption DEF Init
  <2>3. /\ posting \in [Threads -> Messages \cup {NoMessage}]
        /\ deadline \in [Threads -> Nat \cup {NoDeadline}]
        /\ returned \in [Threads -> ReturnTypes]
        /\ status \in [Messages -> Statuses]
        /\ pc \in [Threads -> PCs]
    BY DEF Init, ReturnTypes, Statuses, PCs
  <2> QED BY <2>1, <2>2, <2>3 DEF Init, TypeOK
<1>2. Control
  BY DEF Init, Control, LoopersHaveLoops, PostersHaveMessages, InLoop
<1> QED BY <1>1, <1>2 DEF Typed

LEMMA TypedNext == Typed /\ [Next]_vars => Typed'
<1> SUFFICES ASSUME Typed, [Next]_vars
             PROVE  Typed'
  OBVIOUS
<1> USE DEF Typed, TypeOK, Control, LoopersHaveLoops, PostersHaveMessages, InLoop, PCs, Asleep
<1>1. ASSUME NEW t \in Threads, Continue(t)
      PROVE  Typed'
  <2>0. Caller(t) \in {"outside", "handler"} /\ (Caller(t) = "handler" => loops[t] # << >>)
    BY DEF Caller
  <2>1. CASE PostSleep(t)
    BY <2>1 DEF PostSleep, Goto, sharedVars, historyVars
  <2>2. CASE PostRefused(t)
    BY <2>0, <2>2 DEF PostRefused, Goto, sharedVars, Statuses
  <2>3. CASE PostInsert(t)
    <3>1. Insert(queue, due, Priority, posting[t]) \in Seq(Messages)
      <4>1. /\ due \in [Messages -> Int] /\ Priority \in [Messages -> Int]
            /\ posting[t] \in Messages
        <5>1. due \in [Messages -> Int]
          OBVIOUS
        <5>2. Priority \in [Messages -> Int]
          BY MessageQueueAssumption
        <5> QED BY <2>3, <5>1, <5>2 DEF PostInsert
      <4> QED BY <4>1, InsertType
    <3> QED BY <2>3, <3>1 DEF PostInsert, Goto, Statuses
  <2>4. CASE PostNotify(t)
    BY <2>0, <2>4 DEF PostNotify, NotifyNotEmpty, NotifyAll, sharedVars, historyVars
  <2>5. CASE LoopCount(t)
    <3>1. [loops[t] EXCEPT ![Len(loops[t])].left = DueMessageCount] \in Seq(Frame) \ {<< >>}
      BY <2>5, DueMessageCountType, FrameUpdate DEF LoopCount
    <3>2. loops' = [loops EXCEPT ![t] = [@ EXCEPT ![Len(loops[t])].left = DueMessageCount]]
      BY <2>5 DEF LoopCount
    <3> QED BY <2>5, <3>1, <3>2 DEF LoopCount, Goto, sharedVars, historyVars
  <2>6. CASE AwaitQuitNow(t)
    BY <2>6 DEF AwaitQuitNow, Quit, Goto, historyVars, ReturnTypes
  <2>7. CASE AwaitQuitNoDue(t)
    BY <2>7 DEF AwaitQuitNoDue, GoesOn, Quit, Goto, historyVars, ReturnTypes
  <2>8. CASE AwaitSleep(t)
    BY <2>8 DEF AwaitSleep, GoesOn, Goto, sharedVars, historyVars, SleepUntil
  <2>9. CASE AwaitPop(t)
    <3>1. Head(queue) \in Messages /\ Tail(queue) \in Seq(Messages)
      BY <2>9 DEF AwaitPop, HasDueMessageLocked
    <3>2. [loops[t] EXCEPT ![Len(loops[t])].msg = Head(queue)] \in Seq(Frame) \ {<< >>}
      <4>1. loops[t] # << >>
        BY <2>9 DEF AwaitPop, GoesOn
      <4> HIDE DEF TypeOK
      <4>2. loops[t] \in Seq(Frame)
        BY DEF TypeOK
      <4> QED BY <3>1, <4>1, <4>2, FrameUpdate
    <3>3. loops' = [loops EXCEPT ![t] = [@ EXCEPT ![Len(loops[t])].msg = Head(queue)]]
      BY <2>9 DEF AwaitPop
    <3> QED BY <2>9, <3>1, <3>2, <3>3 DEF AwaitPop, GoesOn, Goto, Statuses
  <2>10. CASE StartHandler(t)
    BY <2>10 DEF StartHandler, NotifyNotFull, NotifyAll, sharedVars, historyVars
  <2>11. CASE LoopQuit(t)
    <3>1. Front(loops[t]) \in Seq(Frame)
      BY <2>11 DEF LoopQuit, Front
    <3> QED BY <2>11, <3>1 DEF LoopQuit, Goto, historyVars
  <2>12. CASE QuitNotify(t)
    BY <2>0, <2>12 DEF QuitNotify, NotifyWorkerQuit, NotifyAll, sharedVars, historyVars
  <2>13. CASE RemoveNotify(t)
    BY <2>0, <2>13 DEF RemoveNotify, NotifyNotFull, NotifyAll, sharedVars, historyVars
  <2>14. CASE WakePosters(t)
    BY <2>14 DEF WakePosters, NotifyNotFull, NotifyAll, sharedVars, historyVars
  <2>15. CASE WakeLoopers(t)
    BY <2>0, <2>15 DEF WakeLoopers, NotifyNotEmpty, NotifyAll, sharedVars, historyVars
  <2>16. CASE AwaitReturn(t)
    BY <2>0, <2>16 DEF AwaitReturn, Goto, sharedVars, historyVars
  <2>17. CASE AwaitQuitSleep(t)
    BY <2>17 DEF AwaitQuitSleep, Goto, sharedVars, historyVars
  <2>18. CASE WaitTimeout(t)
    BY <2>18 DEF WaitTimeout, WakeAlone, Goto, sharedVars, historyVars
  <2> QED BY <1>1, <2>1, <2>2, <2>3, <2>4, <2>5, <2>6, <2>7, <2>8, <2>9, <2>10, <2>11,
             <2>12, <2>13, <2>14, <2>15, <2>16, <2>17, <2>18 DEF Continue
<1>2. ASSUME NEW t \in Threads, Call(t)
      PROVE  Typed'
  <2>0. Caller(t) \in {"outside", "handler"} /\ (Caller(t) = "handler" => loops[t] # << >>)
    BY DEF Caller
  <2>1. CASE \E m \in Messages, d \in Delays : PostMessage(t, m, d)
    <3>1. PICK m \in Messages, d \in Delays : PostMessage(t, m, d)
      BY <2>1
    <3>2. now + d \in Nat
      BY MessageQueueAssumption
    <3> QED BY <3>1, <3>2 DEF PostMessage, Goto, Statuses
  <2>2. CASE LoopQueue(t) \/ LoopQueueOnce(t)
    <3>1. PICK type \in LoopTypes, first \in {"await", "count"} : Enter(t, type, first)
      BY <2>2 DEF LoopQueue, LoopQueueOnce, LoopTypes
    <3>2. [type |-> type, left |-> Unlimited, msg |-> NoMessage] \in Frame
      BY DEF Frame
    <3>3. Append(loops[t], [type |-> type, left |-> Unlimited, msg |-> NoMessage])
            \in Seq(Frame) \ {<< >>}
      <4>1. loops[t] \in Seq(Frame)
        OBVIOUS
      <4> HIDE DEF Typed, TypeOK
      <4>2. /\ Append(loops[t], [type |-> type, left |-> Unlimited, msg |-> NoMessage]) \in Seq(Frame)
            /\ Append(loops[t], [type |-> type, left |-> Unlimited, msg |-> NoMessage]) # << >>
        BY <3>2, <4>1, AppendProperties
      <4> QED BY <4>2
    <3> QED BY <3>1, <3>3 DEF Enter, WorkersEntered, Goto, historyVars
  <2>3. CASE \E S \in SUBSET ToSet(queue) : RemoveMessageIf(t, S)
    <3>1. PICK S \in SUBSET ToSet(queue) : RemoveMessageIf(t, S)
      BY <2>3
    <3>2. Erase(queue, S) \in Seq(Messages)
      BY EraseType
    <3> QED BY <3>1, <3>2 DEF RemoveMessageIf, Erased, Goto, Statuses
  <2>4. CASE Interrupt(t)
    BY <2>4 DEF Interrupt, Goto, historyVars
  <2>5. CASE \E await \in BOOLEAN : ShutdownNow(t, await) \/ Shutdown(t, await)
    <3>1. PICK await \in BOOLEAN : ShutdownNow(t, await) \/ Shutdown(t, await)
      BY <2>5
    <3>2. CASE ShutdownNow(t, await)
      BY <3>2 DEF ShutdownNow, AskShutdown, Goto, Statuses
    <3>3. CASE Shutdown(t, await)
      BY <3>3 DEF Shutdown, AskShutdown, Goto, Statuses
    <3> QED BY <3>1, <3>2, <3>3
  <2>6. CASE AwaitTermination(t)
    BY <2>6 DEF AwaitTermination, Goto, sharedVars, historyVars
  <2> QED BY <1>2, <2>1, <2>2, <2>3, <2>4, <2>5, <2>6 DEF Call
<1>3. ASSUME NEW t \in Threads, EndHandler(t)
      PROVE  Typed'
  <2>1. /\ loops[t] \in Seq(Frame) /\ loops[t] # << >>
        /\ Top(t) \in Frame
    BY <1>3 DEF EndHandler, Top
  <2>2. Countdown(Top(t).left) \in Nat \cup {Unlimited}
    BY <2>1 DEF Countdown, Frame, Unlimited
  <2>3. [loops[t] EXCEPT ![Len(loops[t])] =
           [Top(t) EXCEPT !.msg = NoMessage, !.left = Countdown(Top(t).left)]] \in Seq(Frame) \ {<< >>}
    BY <2>1, <2>2, FrameUpdate DEF Top
  <2>4. loops' = [loops EXCEPT ![t] = [@ EXCEPT ![Len(loops[t])] =
                    [Top(t) EXCEPT !.msg = NoMessage, !.left = Countdown(Top(t).left)]]]
    BY <1>3 DEF EndHandler
  <2>5. loops' \in [Threads -> Seq(Frame)] /\ loops'[t] # << >> /\ \A u \in Threads \ {t} : loops'[u] = loops[u]
    BY <2>3, <2>4
  <2>6. status' \in [Messages -> Statuses]
    BY <1>3 DEF EndHandler, Statuses
  <2> QED BY <1>3, <2>5, <2>6 DEF EndHandler, Goto, sharedVars
<1>4. ASSUME NEW t \in Threads, ThrowHandler(t)
      PROVE  Typed'
  BY <1>4 DEF ThrowHandler, Goto, sharedVars, Statuses, ReturnTypes
<1>5. ASSUME NEW t \in Threads, SpuriousWakeup(t)
      PROVE  Typed'
  BY <1>5 DEF SpuriousWakeup, WakeAlone, Goto, sharedVars, historyVars
<1>6. CASE Tick
  BY <1>6, MessageQueueAssumption DEF Tick, sharedVars, threadVars, historyVars
<1>7. CASE UNCHANGED vars
  BY <1>7 DEF vars, sharedVars, threadVars, historyVars
<1> QED BY <1>1, <1>2, <1>3, <1>4, <1>5, <1>6, <1>7 DEF Next

(* Every variable keeps its type.                                          *)
THEOREM TypeCorrect == Spec => []TypeOK
<1>1. Typed => TypeOK
  BY DEF Typed
<1> QED BY TypedInit, TypedNext, <1>1, PTL DEF Spec

-----------------------------------------------------------------------------
(* Room in the deque                                                       *)

(* The thread-local map of a looper holds the queue.                       *)
LoopersAreKnown == \A t \in Threads : loops[t] # << >> => t \in runningQueue_

Room ==
  /\ ShutDownQueueIsEmpty
  /\ LooperNeverAwaitsRoom
  /\ LoopersAreKnown
  /\ NoPosterForgotten

LEMMA RoomInit == Init => Room
BY DEF Init, Room, ShutDownQueueIsEmpty, LooperNeverAwaitsRoom, LoopersAreKnown,
       NoPosterForgotten

LEMMA RoomNext == Typed /\ Room /\ [Next]_vars => Room'
<1> SUFFICES ASSUME Typed, Room, [Next]_vars
             PROVE  Room'
  OBVIOUS
<1> USE DEF Room, ShutDownQueueIsEmpty, LooperNeverAwaitsRoom, LoopersAreKnown, NoPosterForgotten,
           IsQueueFull, NotifiesNotFull
<1>0. /\ pc \in [Threads -> PCs] /\ loops \in [Threads -> Seq(Frame)]
      /\ queue \in Seq(Messages) /\ due \in [Messages -> Nat]
      /\ MaxMessageInQueue \in Nat \ {0}
  BY MessageQueueAssumption DEF Typed, TypeOK
<1>1. ASSUME NEW t \in Threads, Continue(t)
      PROVE  Room'
  <2>0. Caller(t) \in {"outside", "handler"}
    BY DEF Caller
  <2>1. CASE PostSleep(t)
    BY <2>1, <1>0 DEF PostSleep, Goto, sharedVars, historyVars, MustAwaitNotFull, IsCallerNestedInsideLoop
  <2>2. CASE PostRefused(t)
    BY <2>0, <2>2, <1>0 DEF PostRefused, Goto, sharedVars
  <2>3. CASE PostInsert(t)
    <3>1. /\ queue' \in Seq(Messages) /\ Len(queue') = Len(queue) + 1
      <4>1. due \in [Messages -> Int] /\ Priority \in [Messages -> Int] /\ posting[t] \in Messages
        BY <1>0, <2>3, MessageQueueAssumption DEF PostInsert, Typed, Control, PostersHaveMessages
      <4>2. queue \in Seq(Messages) /\ queue' = Insert(queue, due, Priority, posting[t])
        BY <1>0, <2>3 DEF PostInsert
      <4> HIDE DEF Room
      <4>3. Insert(queue, due, Priority, posting[t]) \in Seq(Messages)
        BY <4>1, <4>2, InsertType
      <4>4. Len(Insert(queue, due, Priority, posting[t])) = Len(queue) + 1
        BY <4>1, <4>2, InsertLength
      <4> QED BY <4>2, <4>3, <4>4
    <3>2. IsQueueFull => IsQueueFull'
      BY <1>0, <3>1
    <3>3. ShutDownQueueIsEmpty'
      BY <2>3 DEF PostInsert, RefusesMessages
    <3>4. LooperNeverAwaitsRoom' /\ LoopersAreKnown'
      BY <1>0, <2>3 DEF PostInsert, Goto
    <3> HIDE DEF IsQueueFull
    <3>5. NoPosterForgotten'
      BY <1>0, <2>3, <3>2 DEF PostInsert, Goto
    <3> QED BY <3>3, <3>4, <3>5
  <2>4. CASE PostNotify(t)
    BY <2>0, <2>4, <1>0 DEF PostNotify, NotifyNotEmpty, NotifyAll, sharedVars, historyVars
  <2>5. CASE LoopCount(t)
    <3>1. loops[t] # << >> /\ \A u \in Threads : u # t => loops'[u] = loops[u]
      BY <1>0, <2>5 DEF LoopCount, Typed, Control, LoopersHaveLoops, InLoop
    <3> QED BY <1>0, <2>5, <3>1 DEF LoopCount, Goto, sharedVars, historyVars
  <2>6. CASE AwaitQuitNow(t)
    BY <2>6, <1>0 DEF AwaitQuitNow, Quit, Goto, historyVars
  <2>7. CASE AwaitQuitNoDue(t)
    BY <2>7, <1>0 DEF AwaitQuitNoDue, GoesOn, Quit, Goto, historyVars, Drained, QuitsWhenNoDue
  <2>8. CASE AwaitSleep(t)
    BY <2>8, <1>0 DEF AwaitSleep, GoesOn, Goto, sharedVars, historyVars
  <2>9. CASE AwaitPop(t)
    <3>1. Tail(queue) \in Seq(Messages) /\ queue # << >>
      BY <1>0, <2>9 DEF AwaitPop, HasDueMessageLocked
    <3> QED BY <1>0, <2>9, <3>1 DEF AwaitPop, GoesOn, Goto
  <2>10. CASE StartHandler(t)
    BY <2>10, <1>0 DEF StartHandler, NotifyNotFull, NotifyAll, sharedVars, historyVars
  <2>11. CASE LoopQuit(t)
    <3>1. loops[t] # << >>
      BY <2>11 DEF LoopQuit, Typed, Control, LoopersHaveLoops, InLoop
    <3> QED BY <1>0, <2>11, <3>1 DEF LoopQuit, Goto, historyVars
  <2>12. CASE QuitNotify(t)
    BY <2>0, <2>12, <1>0 DEF QuitNotify, NotifyWorkerQuit, NotifyAll, sharedVars, historyVars
  <2>13. CASE RemoveNotify(t)
    BY <2>0, <2>13, <1>0 DEF RemoveNotify, NotifyNotFull, NotifyAll, sharedVars, historyVars
  <2>14. CASE WakePosters(t)
    BY <2>14, <1>0 DEF WakePosters, NotifyNotFull, NotifyAll, sharedVars, historyVars
  <2>15. CASE WakeLoopers(t)
    BY <2>0, <2>15, <1>0 DEF WakeLoopers, NotifyNotEmpty, NotifyAll, sharedVars, historyVars
  <2>16. CASE AwaitReturn(t)
    BY <2>0, <2>16, <1>0 DEF AwaitReturn, Goto, sharedVars, historyVars
  <2>17. CASE AwaitQuitSleep(t)
    BY <2>17, <1>0 DEF AwaitQuitSleep, Goto, sharedVars, historyVars
  <2>18. CASE WaitTimeout(t)
    BY <2>18, <1>0 DEF WaitTimeout, WakeAlone, Goto, sharedVars, historyVars
  <2> QED BY <1>1, <2>1, <2>2, <2>3, <2>4, <2>5, <2>6, <2>7, <2>8, <2>9, <2>10, <2>11, <2>12,
             <2>13, <2>14, <2>15, <2>16, <2>17, <2>18 DEF Continue
<1>2. ASSUME NEW t \in Threads, Call(t)
      PROVE  Room'
  <2>1. CASE \E m \in Messages, d \in Delays : PostMessage(t, m, d)
    <3>1. PICK m \in Messages, d \in Delays : PostMessage(t, m, d)
      BY <2>1
    <3> QED BY <1>0, <3>1 DEF PostMessage, MayCall, Goto
  <2>2. CASE LoopQueue(t) \/ LoopQueueOnce(t)
    <3>1. PICK type \in LoopTypes, first \in {"await", "count"} : MayCall(t, IF type = "kLoopOnce" THEN "loopOnce" ELSE "loopAndWait") /\ Enter(t, type, first)
      BY <2>2 DEF LoopQueue, LoopQueueOnce, LoopTypes
    <3> QED BY <1>0, <3>1 DEF MayCall, Enter, Goto, historyVars
  <2>3. CASE \E S \in SUBSET ToSet(queue) : RemoveMessageIf(t, S)
    <3>1. PICK S \in SUBSET ToSet(queue) : RemoveMessageIf(t, S)
      BY <2>3
    <3>2. queue # << >>
      BY <3>1 DEF RemoveMessageIf, ToSet
    <3> QED BY <1>0, <3>1, <3>2 DEF RemoveMessageIf, MayCall, Goto
  <2>4. CASE Interrupt(t)
    BY <2>4, <1>0 DEF Interrupt, Goto, historyVars, MayCall
  <2>5. CASE \E await \in BOOLEAN : ShutdownNow(t, await)
    <3>1. PICK await \in BOOLEAN : ShutdownNow(t, await)
      BY <2>5
    <3> QED BY <1>0, <3>1 DEF ShutdownNow, AskShutdown, MayCall, Goto
  <2>6. CASE \E await \in BOOLEAN : Shutdown(t, await)
    <3>1. PICK await \in BOOLEAN : Shutdown(t, await)
      BY <2>6
    <3> QED BY <1>0, <3>1 DEF Shutdown, AskShutdown, MayCall, Goto
  <2>7. CASE AwaitTermination(t)
    BY <2>7, <1>0 DEF AwaitTermination, Goto, sharedVars, historyVars, MayCall
  <2> QED BY <1>2, <2>1, <2>2, <2>3, <2>4, <2>5, <2>6, <2>7 DEF Call
<1>3. ASSUME NEW t \in Threads, EndHandler(t)
      PROVE  Room'
  <2>1. loops'[t] # << >> => loops[t] # << >>
    BY <1>0, <1>3 DEF EndHandler, Typed, Control, LoopersHaveLoops, InLoop
  <2> QED BY <1>0, <1>3, <2>1 DEF EndHandler, Goto, sharedVars
<1>4. ASSUME NEW t \in Threads, ThrowHandler(t)
      PROVE  Room'
  BY <1>4, <1>0 DEF ThrowHandler, Goto, sharedVars
<1>5. ASSUME NEW t \in Threads, SpuriousWakeup(t)
      PROVE  Room'
  <2>1. CASE pc[t] = "sleepNotEmpty"
    BY <1>0, <1>5, <2>1 DEF SpuriousWakeup, WakeAlone, Goto, sharedVars, historyVars
  <2>2. CASE pc[t] = "sleepNotFull"
    BY <1>0, <1>5, <2>2 DEF SpuriousWakeup, WakeAlone, Goto, sharedVars, historyVars
  <2>3. CASE pc[t] = "sleepQuit"
    BY <1>0, <1>5, <2>3 DEF SpuriousWakeup, WakeAlone, Goto, sharedVars, historyVars
  <2> QED BY <1>5, <2>1, <2>2, <2>3 DEF SpuriousWakeup, Asleep
<1>6. CASE Tick
  BY <1>6, <1>0 DEF Tick, sharedVars, threadVars, historyVars
<1>7. CASE UNCHANGED vars
  BY <1>7, <1>0 DEF vars, sharedVars, threadVars, historyVars
<1> QED BY <1>1, <1>2, <1>3, <1>4, <1>5, <1>6, <1>7 DEF Next

(* A queue shut down for good is empty, for any number of posters that     *)
(* were waiting for room or had their due time fixed before.               *)
THEOREM ShutDownForGood == Spec => []ShutDownQueueIsEmpty
<1>1. Room => ShutDownQueueIsEmpty
  BY DEF Room
<1> QED BY TypedInit, TypedNext, RoomInit, RoomNext, <1>1, PTL DEF Spec

(* No looper waits for the room that it has to make itself.                *)
THEOREM LoopersGetRoom == Spec => []LooperNeverAwaitsRoom
<1>1. Room => LooperNeverAwaitsRoom
  BY DEF Room
<1> QED BY TypedInit, TypedNext, RoomInit, RoomNext, <1>1, PTL DEF Spec

-----------------------------------------------------------------------------
(* The count of loopQueue calls                                            *)

Nested == \A t \in Threads : Len(loops[t]) <= MaxNest

Counted == Nested /\ WorkerCountExact

(* The steps that change a stack of loopQueue calls or their count.        *)
LEMMA StacksChange ==
  [Next]_vars =>
    \/ UNCHANGED <<loops, workerCount_>>
    \/ \E t \in Threads : \/ LoopQueue(t) \/ LoopQueueOnce(t) \/ LoopCount(t) \/ AwaitPop(t)
                          \/ EndHandler(t) \/ LoopQuit(t)
<1> SUFFICES ASSUME [Next]_vars
             PROVE  \/ UNCHANGED <<loops, workerCount_>>
                    \/ \E t \in Threads :
                         \/ LoopQueue(t) \/ LoopQueueOnce(t) \/ LoopCount(t) \/ AwaitPop(t)
                         \/ EndHandler(t) \/ LoopQuit(t)
  OBVIOUS
<1>1. ASSUME NEW t \in Threads, Continue(t)
      PROVE  \/ UNCHANGED <<loops, workerCount_>>
             \/ LoopCount(t) \/ AwaitPop(t) \/ LoopQuit(t)
  <2>1. CASE PostSleep(t) \/ PostRefused(t) \/ PostInsert(t) \/ PostNotify(t)
    BY <2>1 DEF PostSleep, PostRefused, PostInsert, PostNotify, sharedVars
  <2>2. CASE AwaitQuitNow(t) \/ AwaitQuitNoDue(t) \/ AwaitSleep(t) \/ StartHandler(t)
    BY <2>2 DEF AwaitQuitNow, AwaitQuitNoDue, AwaitSleep, StartHandler, Quit, sharedVars
  <2>3. CASE QuitNotify(t) \/ RemoveNotify(t) \/ WakePosters(t) \/ WakeLoopers(t)
    BY <2>3 DEF QuitNotify, RemoveNotify, WakePosters, WakeLoopers, sharedVars
  <2>4. CASE AwaitReturn(t) \/ AwaitQuitSleep(t) \/ WaitTimeout(t)
    BY <2>4 DEF AwaitReturn, AwaitQuitSleep, WaitTimeout, WakeAlone, sharedVars
  <2> QED BY <1>1, <2>1, <2>2, <2>3, <2>4 DEF Continue
<1>2. ASSUME NEW t \in Threads, Call(t)
      PROVE  UNCHANGED <<loops, workerCount_>> \/ LoopQueue(t) \/ LoopQueueOnce(t)
  BY <1>2 DEF Call, PostMessage, RemoveMessageIf, Interrupt, ShutdownNow, Shutdown, AskShutdown,
              AwaitTermination, sharedVars
<1>3. ASSUME NEW t \in Threads, ThrowHandler(t) \/ SpuriousWakeup(t)
      PROVE  UNCHANGED <<loops, workerCount_>>
  BY <1>3 DEF ThrowHandler, SpuriousWakeup, WakeAlone, sharedVars
<1>4. CASE Tick \/ UNCHANGED vars
  BY <1>4 DEF Tick, vars, sharedVars, threadVars
<1> QED BY <1>1, <1>2, <1>3, <1>4 DEF Next

LEMMA FrontOfStack ==
  ASSUME NEW S, NEW s \in Seq(S), s # << >>
  PROVE  /\ Front(s) \in Seq(S)
         /\ Len(Front(s)) = Len(s) - 1
         /\ \A i \in 1..(Len(s) - 1) : Front(s)[i] = s[i]
<1>1. 1 \in Int /\ Len(s) - 1 \in Nat /\ \A i \in 1..(Len(s) - 1) : s[i] \in S /\ 1 + i - 1 = i
  OBVIOUS
<1> DEFINE f == SubSeq(s, 1, Len(s) - 1)
<1>2. f \in Seq(S) /\ Len(f) = Len(s) - 1
  <2> DEFINE n == Len(s) - 1
  <2>1. n \in Nat /\ \A i \in 1..n : s[i] \in S
    OBVIOUS
  <2>2. f = SubSeq(s, 1, n)
    OBVIOUS
  <2> HIDE DEF n, f
  <2>3. f \in Seq(S)
    BY <2>1, <2>2, SubSeqProperties
  <2>4. Len(f) = IF 1 <= n THEN n - 1 + 1 ELSE 0
    BY <2>1, <2>2, SubSeqProperties
  <2>5. Len(f) = n
    BY <2>1, <2>4
  <2> QED BY <2>3, <2>5 DEF n
<1>3. \A i \in 1..(Len(s) - 1) : f[i] = s[i]
  BY <1>1, SubSeqProperties
<1> QED BY <1>2, <1>3 DEF Front

LEMMA CallsAreFinite == ASSUME Typed PROVE IsFiniteSet(LoopCalls) /\ Cardinality(LoopCalls) \in Nat
<1>1. IsFiniteSet(1..MaxNest)
  BY MessageQueueAssumption, FS_Interval
<1>2. IsFiniteSet(Threads \X (1..MaxNest))
  BY <1>1, MessageQueueAssumption, FS_Product
<1>3. LoopCalls \in SUBSET (Threads \X (1..MaxNest))
  BY DEF LoopCalls
<1>4. IsFiniteSet(LoopCalls)
  BY <1>2, <1>3, FS_Subset
<1> QED BY <1>4, FS_CardinalityType

LEMMA CountedInit == Init => Counted
<1> SUFFICES ASSUME Init
             PROVE  Counted
  OBVIOUS
<1>1. Nested
  BY MessageQueueAssumption DEF Init, Nested
<1>2. LoopCalls = {}
  BY DEF Init, LoopCalls
<1>3. WorkerCountExact
  BY <1>2, FS_EmptySet DEF Init, WorkerCountExact
<1> QED BY <1>1, <1>3 DEF Counted

LEMMA CountedNext == Typed /\ Typed' /\ Counted /\ [Next]_vars => Counted'
<1> SUFFICES ASSUME Typed, Typed', Counted, [Next]_vars
             PROVE  Counted'
  OBVIOUS
<1>0. /\ loops \in [Threads -> Seq(Frame)] /\ loops' \in [Threads -> Seq(Frame)]
      /\ \A u \in Threads : /\ DOMAIN loops[u] = 1..Len(loops[u]) /\ Len(loops[u]) \in Nat
                            /\ DOMAIN loops'[u] = 1..Len(loops'[u]) /\ Len(loops'[u]) \in Nat
      /\ MaxNest \in Nat
  BY MessageQueueAssumption DEF Typed, TypeOK
<1>1. ASSUME workerCount_' = workerCount_,
             \A u \in Threads : Len(loops'[u]) = Len(loops[u])
      PROVE  Counted'
  <2>1. LoopCalls' = LoopCalls
    BY <1>0, <1>1 DEF LoopCalls
  <2>2. Nested'
    BY <1>1 DEF Counted, Nested
  <2> QED BY <1>1, <2>1, <2>2 DEF Counted, WorkerCountExact
<1>2. CASE UNCHANGED <<loops, workerCount_>>
  BY <1>1, <1>2
<1>3. ASSUME NEW t \in Threads, LoopCount(t) \/ AwaitPop(t) \/ EndHandler(t)
      PROVE  Counted'
  <2>1. workerCount_' = workerCount_
    BY <1>3 DEF LoopCount, AwaitPop, EndHandler, sharedVars
  <2>2. Len(loops'[t]) = Len(loops[t])
    <3>1. loops[t] # << >>
      BY <1>3 DEF LoopCount, AwaitPop, GoesOn, EndHandler, Typed, Control, LoopersHaveLoops, InLoop
    <3>2. \E frame : loops' = [loops EXCEPT ![t] = [@ EXCEPT ![Len(loops[t])] = frame]]
      BY <1>3 DEF LoopCount, AwaitPop, EndHandler
    <3>3. PICK frame : loops' = [loops EXCEPT ![t] = [@ EXCEPT ![Len(loops[t])] = frame]]
      BY <3>2
    <3>4. DOMAIN loops'[t] = DOMAIN loops[t]
      BY <1>0, <3>3
    <3> QED BY <1>0, <3>4
  <2>3. \A u \in Threads : u # t => loops'[u] = loops[u]
    BY <1>0, <1>3 DEF LoopCount, AwaitPop, EndHandler
  <2> QED BY <1>1, <2>1, <2>2, <2>3
<1>4. ASSUME NEW t \in Threads, LoopQueue(t) \/ LoopQueueOnce(t)
      PROVE  Counted'
  <2>1. PICK type, first : Enter(t, type, first)
    BY <1>4 DEF LoopQueue, LoopQueueOnce
  <2> DEFINE n == Len(loops[t]) + 1
  <2>2. /\ n \in 1..MaxNest
        /\ Len(loops'[t]) = n
        /\ \A u \in Threads : u # t => loops'[u] = loops[u]
        /\ workerCount_' = workerCount_ + 1
    BY <1>0, <2>1 DEF Enter, WorkersEntered
  <2> HIDE DEF n
  <2>3. LoopCalls' = LoopCalls \cup {<<t, n>>} /\ <<t, n>> \notin LoopCalls
    BY <1>0, <2>2 DEF LoopCalls, n
  <2>4. Cardinality(LoopCalls') = Cardinality(LoopCalls) + 1
    BY <2>3, CallsAreFinite, FS_AddElement
  <2>5. Nested'
    BY <1>0, <2>2 DEF Counted, Nested
  <2> QED BY <2>2, <2>4, <2>5 DEF Counted, WorkerCountExact
<1>5. ASSUME NEW t \in Threads, LoopQuit(t)
      PROVE  Counted'
  <2> DEFINE n == Len(loops[t])
  <2>1. loops[t] # << >>
    BY <1>5 DEF LoopQuit, Typed, Control, LoopersHaveLoops, InLoop
  <2>2. /\ n \in 1..MaxNest
        /\ Len(loops'[t]) = n - 1
        /\ \A u \in Threads : u # t => loops'[u] = loops[u]
        /\ workerCount_' = workerCount_ - 1
    <3>1. loops[t] \in Seq(Frame) /\ Len(loops[t]) <= MaxNest
      BY <1>0 DEF Counted, Nested
    <3>2. Len(Front(loops[t])) = Len(loops[t]) - 1
      BY <2>1, <3>1, FrontOfStack
    <3>3. loops'[t] = Front(loops[t])
      BY <1>0, <1>5 DEF LoopQuit
    <3> QED BY <1>0, <1>5, <2>1, <3>1, <3>2, <3>3 DEF LoopQuit
  <2> HIDE DEF n
  <2>3. LoopCalls' = LoopCalls \ {<<t, n>>} /\ <<t, n>> \in LoopCalls
    BY <1>0, <2>2 DEF LoopCalls, n
  <2>4. Cardinality(LoopCalls') = Cardinality(LoopCalls) - 1
    BY <2>3, CallsAreFinite, FS_RemoveElement
  <2>5. Nested'
    BY <1>0, <2>2 DEF Counted, Nested, n
  <2> QED BY <2>2, <2>4, <2>5 DEF Counted, WorkerCountExact
<1> QED BY <1>2, <1>3, <1>4, <1>5, StacksChange

(* awaitTermination counts right: workerCount_ is the number of loopQueue  *)
(* calls under way, for any number of threads and any nesting.             *)
THEOREM WorkersCounted == Spec => []WorkerCountExact
<1>1. Counted => WorkerCountExact
  BY DEF Counted
<1> QED BY TypedInit, TypedNext, CountedInit, CountedNext, <1>1, PTL DEF Spec

-----------------------------------------------------------------------------
(* Who has a message                                                       *)

FreeHanded == {"count", "await", "sleepNotEmpty"}

QueueOwns ==
  /\ IsInjective(queue)
  /\ \A m \in Messages : status[m] = "queued" <=> m \in ToSet(queue)

PostersOwn ==
  /\ \A t \in Threads : posting[t] # NoMessage => status[posting[t]] = "posting"
  /\ \A t, u \in Threads : posting[t] = posting[u] /\ posting[t] # NoMessage => t = u
  /\ \A m \in Messages : status[m] = "posting" => \E t \in Threads : posting[t] = m

(* The i-th frame of t's stack runs a handler, has none to run, or is      *)
(* being left by an exception.                                             *)
FrameOwns(t, i) ==
  \/ /\ i = Len(loops[t]) => pc[t] \notin FreeHanded \cup {"quit"}
     /\ loops[t][i].msg \in Messages /\ status[loops[t][i].msg] = "running"
  \/ /\ i = Len(loops[t]) /\ pc[t] \in FreeHanded \cup {"quit"}
     /\ loops[t][i].msg = NoMessage
  \/ /\ i = Len(loops[t]) /\ pc[t] = "quit"
     /\ loops[t][i].msg \in Messages /\ status[loops[t][i].msg] = "leaked"

LoopersOwn ==
  /\ \A t \in Threads : \A i \in 1..Len(loops[t]) : FrameOwns(t, i)
  /\ \A t, u \in Threads : \A i \in 1..Len(loops[t]), j \in 1..Len(loops[u]) :
       loops[t][i].msg = loops[u][j].msg /\ loops[t][i].msg # NoMessage => t = u /\ i = j
  /\ \A m \in Messages : status[m] = "running" =>
       \E t \in Threads : \E i \in 1..Len(loops[t]) : loops[t][i].msg = m

Owners == QueueOwns /\ PostersOwn /\ LoopersOwn

(* t goes on without taking a message or giving one up.                    *)
SameHands(t) ==
  \/ pc'[t] = pc[t]
  \/ pc[t] \notin FreeHanded \cup {"quit"} /\ pc'[t] \notin FreeHanded \cup {"quit"}
  \/ pc[t] \in FreeHanded /\ pc'[t] \in FreeHanded \cup {"quit"}

LEMMA LoopersStillOwn ==
  ASSUME Typed, LoopersOwn,
         \A t \in Threads : SameHands(t),
         \A t \in Threads : /\ Len(loops'[t]) = Len(loops[t])
                            /\ \A i \in 1..Len(loops[t]) : loops'[t][i].msg = loops[t][i].msg,
         \A m \in Messages : status[m] \in {"running", "leaked"} => status'[m] = status[m],
         \A m \in Messages : status'[m] = "running" => status[m] = "running"
  PROVE  LoopersOwn'
<1>1. \A t \in Threads : \A i \in 1..Len(loops'[t]) : FrameOwns(t, i)'
  <2> SUFFICES ASSUME NEW t \in Threads, NEW i \in 1..Len(loops'[t])
               PROVE  FrameOwns(t, i)'
    OBVIOUS
  <2>1. i \in 1..Len(loops[t]) /\ FrameOwns(t, i) /\ Len(loops'[t]) = Len(loops[t])
    BY DEF LoopersOwn
  <2>2. loops'[t][i].msg = loops[t][i].msg
    BY <2>1
  <2>3. SameHands(t)
    OBVIOUS
  <2> QED BY <2>1, <2>2, <2>3 DEF FrameOwns, SameHands, FreeHanded
<1>2. \A t, u \in Threads : \A i \in 1..Len(loops'[t]), j \in 1..Len(loops'[u]) :
        loops'[t][i].msg = loops'[u][j].msg /\ loops'[t][i].msg # NoMessage => t = u /\ i = j
  BY DEF LoopersOwn
<1>3. \A m \in Messages : status'[m] = "running" =>
        \E t \in Threads : \E i \in 1..Len(loops'[t]) : loops'[t][i].msg = m
  BY DEF LoopersOwn
<1> QED BY <1>1, <1>2, <1>3 DEF LoopersOwn

LEMMA OwnersUndisturbed ==
  ASSUME Typed, Owners, UNCHANGED <<queue, posting, status>>,
         \A t \in Threads : SameHands(t),
         \A t \in Threads : /\ Len(loops'[t]) = Len(loops[t])
                            /\ \A i \in 1..Len(loops[t]) : loops'[t][i].msg = loops[t][i].msg
  PROVE  Owners'
<1>1. QueueOwns' /\ PostersOwn'
  BY DEF Owners, QueueOwns, PostersOwn
<1>2. LoopersOwn'
  BY LoopersStillOwn DEF Owners
<1> QED BY <1>1, <1>2 DEF Owners

(* The top frame of t's stack is replaced by another.                      *)
LEMMA TopMessage ==
  ASSUME Typed, NEW t \in Threads, loops[t] # << >>, NEW frame \in Frame,
         loops' = [loops EXCEPT ![t] = [@ EXCEPT ![Len(loops[t])] = frame]]
  PROVE  /\ Len(loops[t]) \in 1..Len(loops[t])
         /\ \A u \in Threads : Len(loops'[u]) = Len(loops[u])
         /\ \A u \in Threads : \A i \in 1..Len(loops[u]) :
              loops'[u][i].msg = IF u = t /\ i = Len(loops[t]) THEN frame.msg ELSE loops[u][i].msg
<1>1. loops \in [Threads -> Seq(Frame)] /\ loops[t] \in Seq(Frame)
  BY DEF Typed, TypeOK
<1>2. Len(loops[t]) \in 1..Len(loops[t])
  BY <1>1
<1>3. \A u \in Threads : u # t => loops'[u] = loops[u]
  BY <1>1
<1>4. loops'[t] = [loops[t] EXCEPT ![Len(loops[t])] = frame]
  BY <1>1
<1> HIDE DEF Frame
<1>5. /\ Len(loops'[t]) = Len(loops[t])
      /\ \A i \in 1..Len(loops[t]) : loops'[t][i] = IF i = Len(loops[t]) THEN frame ELSE loops[t][i]
  BY <1>1, <1>2, <1>4, ExceptSeq
<1> QED BY <1>2, <1>3, <1>5

LEMMA OwnersPop == Typed /\ Owners /\ (\E t \in Threads : AwaitPop(t)) => Owners'
<1> SUFFICES ASSUME Typed, Owners, NEW t \in Threads, AwaitPop(t)
             PROVE  Owners'
  OBVIOUS
<1> DEFINE h == Head(queue)
           n == Len(loops[t])
<1>1. /\ queue \in Seq(Messages) /\ queue # << >>
      /\ pc \in [Threads -> PCs] /\ pc[t] = "await" /\ pc' = [pc EXCEPT ![t] = "popped"]
      /\ loops[t] # << >> /\ loops[t] \in Seq(Frame)
      /\ status \in [Messages -> Statuses] /\ status' = [status EXCEPT ![h] = "running"]
      /\ queue' = Tail(queue) /\ UNCHANGED posting
  BY DEF AwaitPop, GoesOn, Goto, HasDueMessageLocked, Typed, TypeOK, Control, LoopersHaveLoops, InLoop
<1>2. /\ h \in Messages /\ h \in ToSet(queue) /\ status[h] = "queued"
      /\ IsInjective(queue') /\ ToSet(queue') = ToSet(queue) \ {h}
  <2>1. IsInjective(queue)
    BY DEF Owners, QueueOwns
  <2>2. /\ h \in Messages /\ h \in ToSet(queue)
        /\ IsInjective(Tail(queue)) /\ ToSet(Tail(queue)) = ToSet(queue) \ {h}
    BY <1>1, <2>1, TailRemovesHead
  <2> QED BY <1>1, <2>2 DEF Owners, QueueOwns
<1>3. PICK frame \in Frame :
        frame.msg = h /\ loops' = [loops EXCEPT ![t] = [@ EXCEPT ![Len(loops[t])] = frame]]
  <2>1. loops[t][n] \in Frame
    BY <1>1
  <2>2. [loops[t][n] EXCEPT !.msg = h] \in Frame /\ [loops[t][n] EXCEPT !.msg = h].msg = h
    BY <1>2, <2>1 DEF Frame
  <2>3. loops' = [loops EXCEPT ![t] = [@ EXCEPT ![Len(loops[t])] = [loops[t][n] EXCEPT !.msg = h]]]
    BY DEF AwaitPop
  <2> QED BY <2>2, <2>3
<1>4. /\ n \in 1..n
      /\ \A u \in Threads : Len(loops'[u]) = Len(loops[u])
      /\ \A u \in Threads : \A i \in 1..Len(loops[u]) :
           loops'[u][i].msg = IF u = t /\ i = n THEN h ELSE loops[u][i].msg
  <2> HIDE DEF h
  <2>1. /\ n \in 1..n
        /\ \A u \in Threads : Len(loops'[u]) = Len(loops[u])
        /\ \A u \in Threads : \A i \in 1..Len(loops[u]) :
             loops'[u][i].msg = IF u = t /\ i = n THEN frame.msg ELSE loops[u][i].msg
    BY <1>1, <1>3, TopMessage
  <2> QED BY <1>3, <2>1
<1> HIDE DEF h, n
<1>5. /\ FrameOwns(t, n)
      /\ \A u \in Threads : \A i \in 1..Len(loops[u]) : FrameOwns(u, i) /\ loops[u][i].msg # h
  <2>1. \A u \in Threads : \A i \in 1..Len(loops[u]) : FrameOwns(u, i)
    BY DEF Owners, LoopersOwn
  <2>2. ASSUME NEW u \in Threads, NEW i \in 1..Len(loops[u])
        PROVE  loops[u][i].msg # h
    <3>1. FrameOwns(u, i)
      BY <2>1
    <3> QED BY <1>2, <3>1, MessageQueueAssumption DEF FrameOwns
  <2>3. n \in 1..Len(loops[t])
    BY <1>4 DEF n
  <2> QED BY <2>1, <2>2, <2>3
<1>6. loops[t][n].msg = NoMessage
  BY <1>1, <1>5 DEF FrameOwns, FreeHanded, n
<1>7. QueueOwns'
  BY <1>1, <1>2 DEF Owners, QueueOwns
<1>8. PostersOwn'
  BY <1>1, <1>2 DEF Owners, PostersOwn
<1>9. \A u \in Threads : \A i \in 1..Len(loops'[u]) : FrameOwns(u, i)'
  <2> SUFFICES ASSUME NEW u \in Threads, NEW i \in 1..Len(loops[u])
               PROVE  FrameOwns(u, i)'
    BY <1>4
  <2>1. CASE u = t /\ i = n
    BY <1>1, <1>2, <1>4, <2>1 DEF FrameOwns, FreeHanded
  <2>2. CASE u = t /\ i # n
    BY <1>1, <1>2, <1>4, <1>5, <2>2 DEF FrameOwns, FreeHanded, n
  <2>3. CASE u # t
    <3>1. /\ FrameOwns(u, i) /\ pc'[u] = pc[u] /\ Len(loops'[u]) = Len(loops[u])
          /\ loops'[u][i].msg = loops[u][i].msg /\ loops[u][i].msg # h
      BY <1>1, <1>4, <1>5, <2>3
    <3>2. \A m \in Messages : m # h => status'[m] = status[m]
      BY <1>1
    <3> QED BY <3>1, <3>2 DEF FrameOwns
  <2> QED BY <2>1, <2>2, <2>3
<1>10. \A u, v \in Threads : \A i \in 1..Len(loops'[u]), j \in 1..Len(loops'[v]) :
         loops'[u][i].msg = loops'[v][j].msg /\ loops'[u][i].msg # NoMessage => u = v /\ i = j
  <2> SUFFICES ASSUME NEW u \in Threads, NEW v \in Threads,
                      NEW i \in 1..Len(loops[u]), NEW j \in 1..Len(loops[v]),
                      loops'[u][i].msg = loops'[v][j].msg, loops'[u][i].msg # NoMessage
               PROVE  u = v /\ i = j
    BY <1>4
  <2>1. /\ loops'[u][i].msg = IF u = t /\ i = n THEN h ELSE loops[u][i].msg
        /\ loops'[v][j].msg = IF v = t /\ j = n THEN h ELSE loops[v][j].msg
        /\ loops[u][i].msg # h /\ loops[v][j].msg # h
    BY <1>4, <1>5
  <2>2. CASE u = t /\ i = n
    BY <2>1, <2>2
  <2>3. CASE ~(u = t /\ i = n)
    <3>1. loops[u][i].msg = loops[v][j].msg /\ loops[u][i].msg # NoMessage
      BY <2>1, <2>3
    <3> QED BY <3>1 DEF Owners, LoopersOwn
  <2> QED BY <2>2, <2>3
<1>11. \A m \in Messages : status'[m] = "running" =>
         \E u \in Threads : \E i \in 1..Len(loops'[u]) : loops'[u][i].msg = m
  <2> SUFFICES ASSUME NEW m \in Messages, status'[m] = "running"
               PROVE  \E u \in Threads : \E i \in 1..Len(loops'[u]) : loops'[u][i].msg = m
    OBVIOUS
  <2>1. CASE m = h
    BY <1>4, <2>1 DEF n
  <2>2. CASE m # h
    <3>1. PICK u \in Threads : \E i \in 1..Len(loops[u]) : loops[u][i].msg = m
      BY <1>1, <2>2 DEF Owners, LoopersOwn
    <3>2. PICK i \in 1..Len(loops[u]) : loops[u][i].msg = m
      BY <3>1
    <3>3. ~(u = t /\ i = n)
      BY <1>6, <3>2, MessageQueueAssumption
    <3> QED BY <1>4, <3>2, <3>3
  <2> QED BY <2>1, <2>2
<1> QED BY <1>7, <1>8, <1>9, <1>10, <1>11 DEF Owners, LoopersOwn

(* The frame at the top runs a handler.                                    *)
LEMMA HandlerHasMessage ==
  ASSUME Typed, Owners, NEW t \in Threads, pc[t] = "handler"
  PROVE  /\ loops[t] \in Seq(Frame) /\ loops[t] # << >>
         /\ Len(loops[t]) \in 1..Len(loops[t])
         /\ Top(t) \in Frame /\ Top(t) = loops[t][Len(loops[t])]
         /\ Top(t).msg \in Messages /\ status[Top(t).msg] = "running"
<1>1. loops[t] \in Seq(Frame) /\ loops[t] # << >>
  BY DEF Typed, TypeOK, Control, LoopersHaveLoops, InLoop
<1>2. Len(loops[t]) \in 1..Len(loops[t]) /\ Top(t) = loops[t][Len(loops[t])] /\ Top(t) \in Frame
  BY <1>1 DEF Top
<1>3. FrameOwns(t, Len(loops[t]))
  BY <1>2 DEF Owners, LoopersOwn
<1> QED BY <1>1, <1>2, <1>3 DEF FrameOwns, FreeHanded

(* What another thread's frame has is not what t's top frame has.          *)
LEMMA TopIsUnique ==
  ASSUME Typed, Owners, NEW t \in Threads, pc[t] = "handler",
         NEW u \in Threads, NEW i \in 1..Len(loops[u]), ~(u = t /\ i = Len(loops[t]))
  PROVE  loops[u][i].msg # Top(t).msg
<1>1. /\ Len(loops[t]) \in 1..Len(loops[t]) /\ Top(t) = loops[t][Len(loops[t])]
      /\ Top(t).msg # NoMessage
  BY HandlerHasMessage, MessageQueueAssumption
<1> QED BY <1>1 DEF Owners, LoopersOwn

LEMMA OwnersEnd == Typed /\ Owners /\ (\E t \in Threads : EndHandler(t)) => Owners'
<1> SUFFICES ASSUME Typed, Owners, NEW t \in Threads, EndHandler(t)
             PROVE  Owners'
  OBVIOUS
<1> DEFINE h == Top(t).msg
           n == Len(loops[t])
<1>1. /\ pc \in [Threads -> PCs] /\ pc[t] = "handler" /\ pc' = [pc EXCEPT ![t] = "await"]
      /\ status \in [Messages -> Statuses] /\ status' = [status EXCEPT ![h] = "done"]
      /\ UNCHANGED <<queue, posting>>
  BY DEF EndHandler, Goto, sharedVars, Typed, TypeOK
<1>2. /\ h \in Messages /\ status[h] = "running" /\ n \in 1..n
      /\ loops[t] # << >> /\ Top(t) \in Frame /\ Top(t) = loops[t][n]
  BY <1>1, HandlerHasMessage
<1>3. PICK frame \in Frame :
        frame.msg = NoMessage /\ loops' = [loops EXCEPT ![t] = [@ EXCEPT ![Len(loops[t])] = frame]]
  <2> DEFINE f == [Top(t) EXCEPT !.msg = NoMessage, !.left = Countdown(Top(t).left)]
  <2>1. Countdown(Top(t).left) \in Nat \cup {Unlimited}
    BY <1>2 DEF Countdown, Frame, Unlimited
  <2>2. f \in Frame /\ f.msg = NoMessage
    BY <1>2, <2>1 DEF Frame
  <2>3. loops' = [loops EXCEPT ![t] = [@ EXCEPT ![Len(loops[t])] = f]]
    BY DEF EndHandler
  <2> QED BY <2>2, <2>3
<1>4. /\ \A u \in Threads : Len(loops'[u]) = Len(loops[u])
      /\ \A u \in Threads : \A i \in 1..Len(loops[u]) :
           loops'[u][i].msg = IF u = t /\ i = n THEN NoMessage ELSE loops[u][i].msg
  <2> HIDE DEF h
  <2>1. /\ \A u \in Threads : Len(loops'[u]) = Len(loops[u])
        /\ \A u \in Threads : \A i \in 1..Len(loops[u]) :
             loops'[u][i].msg = IF u = t /\ i = n THEN frame.msg ELSE loops[u][i].msg
    BY <1>2, <1>3, TopMessage
  <2> QED BY <1>3, <2>1
<1>5. \A u \in Threads : \A i \in 1..Len(loops[u]) : FrameOwns(u, i)
  BY DEF Owners, LoopersOwn
<1>6. \A u \in Threads : \A i \in 1..Len(loops[u]) :
        ~(u = t /\ i = n) => loops[u][i].msg # h
  BY <1>1, TopIsUnique
<1> HIDE DEF h, n
<1>7. QueueOwns'
  BY <1>1, <1>2 DEF Owners, QueueOwns
<1>8. PostersOwn'
  BY <1>1, <1>2 DEF Owners, PostersOwn
<1>9. \A u \in Threads : \A i \in 1..Len(loops'[u]) : FrameOwns(u, i)'
  <2> SUFFICES ASSUME NEW u \in Threads, NEW i \in 1..Len(loops[u])
               PROVE  FrameOwns(u, i)'
    BY <1>4
  <2>0. \A m \in Messages : m # h => status'[m] = status[m]
    BY <1>1
  <2>1. CASE u = t /\ i = n
    BY <1>1, <1>2, <1>4, <2>1 DEF FrameOwns, FreeHanded, n
  <2>2. CASE u = t /\ i # n
    <3>1. /\ FrameOwns(t, i) /\ Len(loops'[t]) = n /\ i # Len(loops[t])
          /\ loops'[t][i].msg = loops[t][i].msg /\ loops[t][i].msg # h
      BY <1>4, <1>5, <1>6, <2>2 DEF n
    <3> QED BY <2>0, <2>2, <3>1 DEF FrameOwns, n
  <2>3. CASE u # t
    <3>1. /\ FrameOwns(u, i) /\ pc'[u] = pc[u] /\ Len(loops'[u]) = Len(loops[u])
          /\ loops'[u][i].msg = loops[u][i].msg /\ loops[u][i].msg # h
      BY <1>1, <1>4, <1>5, <1>6, <2>3
    <3> QED BY <2>0, <3>1 DEF FrameOwns
  <2> QED BY <2>1, <2>2, <2>3
<1>10. \A u, v \in Threads : \A i \in 1..Len(loops'[u]), j \in 1..Len(loops'[v]) :
         loops'[u][i].msg = loops'[v][j].msg /\ loops'[u][i].msg # NoMessage => u = v /\ i = j
  BY <1>4 DEF Owners, LoopersOwn
<1>11. \A m \in Messages : status'[m] = "running" =>
         \E u \in Threads : \E i \in 1..Len(loops'[u]) : loops'[u][i].msg = m
  <2> SUFFICES ASSUME NEW m \in Messages, status'[m] = "running"
               PROVE  \E u \in Threads : \E i \in 1..Len(loops'[u]) : loops'[u][i].msg = m
    OBVIOUS
  <2>1. m # h /\ status[m] = "running"
    BY <1>1, <1>2
  <2>2. PICK u \in Threads : \E i \in 1..Len(loops[u]) : loops[u][i].msg = m
    BY <2>1 DEF Owners, LoopersOwn
  <2>3. PICK i \in 1..Len(loops[u]) : loops[u][i].msg = m
    BY <2>2
  <2>4. ~(u = t /\ i = n)
    BY <1>2, <2>1, <2>3 DEF h
  <2> QED BY <1>4, <2>3, <2>4
<1> QED BY <1>7, <1>8, <1>9, <1>10, <1>11 DEF Owners, LoopersOwn

LEMMA OwnersThrow == Typed /\ Owners /\ (\E t \in Threads : ThrowHandler(t)) => Owners'
<1> SUFFICES ASSUME Typed, Owners, NEW t \in Threads, ThrowHandler(t)
             PROVE  Owners'
  OBVIOUS
<1> DEFINE h == Top(t).msg
           n == Len(loops[t])
<1>1. /\ pc \in [Threads -> PCs] /\ pc[t] = "handler" /\ pc' = [pc EXCEPT ![t] = "quit"]
      /\ status \in [Messages -> Statuses] /\ status' = [status EXCEPT ![h] = "leaked"]
      /\ UNCHANGED <<queue, posting, loops>>
  BY DEF ThrowHandler, Goto, sharedVars, Typed, TypeOK
<1>2. /\ h \in Messages /\ status[h] = "running" /\ n \in 1..n
      /\ loops[t] # << >> /\ Top(t) \in Frame /\ Top(t) = loops[t][n]
  BY <1>1, HandlerHasMessage
<1>3. \A u \in Threads : \A i \in 1..Len(loops[u]) : FrameOwns(u, i)
  BY DEF Owners, LoopersOwn
<1>4. \A u \in Threads : \A i \in 1..Len(loops[u]) :
        ~(u = t /\ i = n) => loops[u][i].msg # h
  BY <1>1, TopIsUnique
<1>5. loops[t][n].msg = h
  BY <1>2
<1> HIDE DEF h, n
<1>6. QueueOwns' /\ PostersOwn'
  BY <1>1, <1>2 DEF Owners, QueueOwns, PostersOwn
<1>7. \A u \in Threads : \A i \in 1..Len(loops'[u]) : FrameOwns(u, i)'
  <2> SUFFICES ASSUME NEW u \in Threads, NEW i \in 1..Len(loops[u])
               PROVE  FrameOwns(u, i)'
    BY <1>1
  <2>0. \A m \in Messages : m # h => status'[m] = status[m]
    BY <1>1
  <2>1. CASE u = t /\ i = n
    BY <1>1, <1>2, <1>5, <2>1 DEF FrameOwns, n
  <2>2. CASE u = t /\ i # n
    <3>1. FrameOwns(t, i) /\ i # Len(loops[t]) /\ loops[t][i].msg # h
      BY <1>3, <1>4, <2>2 DEF n
    <3> QED BY <1>1, <2>0, <2>2, <3>1 DEF FrameOwns
  <2>3. CASE u # t
    <3>1. FrameOwns(u, i) /\ pc'[u] = pc[u] /\ loops[u][i].msg # h
      BY <1>1, <1>3, <1>4, <2>3
    <3> QED BY <1>1, <2>0, <3>1 DEF FrameOwns
  <2> QED BY <2>1, <2>2, <2>3
<1>8. \A u, v \in Threads : \A i \in 1..Len(loops'[u]), j \in 1..Len(loops'[v]) :
         loops'[u][i].msg = loops'[v][j].msg /\ loops'[u][i].msg # NoMessage => u = v /\ i = j
  BY <1>1 DEF Owners, LoopersOwn
<1>9. \A m \in Messages : status'[m] = "running" =>
         \E u \in Threads : \E i \in 1..Len(loops'[u]) : loops'[u][i].msg = m
  BY <1>1, <1>2 DEF Owners, LoopersOwn
<1> QED BY <1>6, <1>7, <1>8, <1>9 DEF Owners, LoopersOwn

LEMMA OwnersQuit == Typed /\ Owners /\ (\E t \in Threads : LoopQuit(t)) => Owners'
<1> SUFFICES ASSUME Typed, Owners, NEW t \in Threads, LoopQuit(t)
             PROVE  Owners'
  OBVIOUS
<1> DEFINE n == Len(loops[t])
<1>1. /\ pc \in [Threads -> PCs] /\ pc[t] = "quit" /\ pc' = [pc EXCEPT ![t] = "quitNotify"]
      /\ loops \in [Threads -> Seq(Frame)] /\ loops[t] \in Seq(Frame) /\ loops[t] # << >>
      /\ n \in 1..n
      /\ UNCHANGED <<queue, posting, status>>
      /\ loops' = [loops EXCEPT ![t] = Front(loops[t])]
  BY DEF LoopQuit, Goto, historyVars, Typed, TypeOK, Control, LoopersHaveLoops, InLoop
<1>2. /\ Len(loops'[t]) = n - 1
      /\ \A i \in 1..(n - 1) : loops'[t][i] = loops[t][i]
      /\ \A u \in Threads : u # t => loops'[u] = loops[u]
  BY <1>1, FrontOfStack
<1>3. \A u \in Threads : \A i \in 1..Len(loops[u]) : FrameOwns(u, i)
  BY DEF Owners, LoopersOwn
<1>4. \A u \in Threads : \A i \in 1..Len(loops'[u]) :
        /\ i \in 1..Len(loops[u]) /\ loops'[u][i] = loops[u][i]
        /\ u = t => i # n
  BY <1>1, <1>2
<1>5. \A m \in Messages : status[m] = "running" => loops[t][n].msg # m
  <2>1. FrameOwns(t, n)
    BY <1>1, <1>3
  <2>2. loops[t][n].msg = NoMessage \/ status[loops[t][n].msg] = "leaked"
    BY <1>1, <2>1 DEF FrameOwns
  <2> QED BY <2>2, MessageQueueAssumption
<1> HIDE DEF n
<1>6. QueueOwns' /\ PostersOwn'
  BY <1>1 DEF Owners, QueueOwns, PostersOwn
<1>7. \A u \in Threads : \A i \in 1..Len(loops'[u]) : FrameOwns(u, i)'
  <2> SUFFICES ASSUME NEW u \in Threads, NEW i \in 1..Len(loops'[u])
               PROVE  FrameOwns(u, i)'
    OBVIOUS
  <2>0. FrameOwns(u, i) /\ loops'[u][i] = loops[u][i]
    BY <1>3, <1>4
  <2>1. CASE u = t
    <3>1. i # Len(loops[t]) /\ pc'[t] = "quitNotify"
      BY <1>1, <1>4, <2>1 DEF n
    <3> QED BY <1>1, <2>0, <2>1, <3>1 DEF FrameOwns, FreeHanded
  <2>2. CASE u # t
    <3>1. pc'[u] = pc[u] /\ loops'[u] = loops[u]
      BY <1>1, <1>2, <2>2
    <3> QED BY <1>1, <2>0, <3>1 DEF FrameOwns
  <2> QED BY <2>1, <2>2
<1>8. \A u, v \in Threads : \A i \in 1..Len(loops'[u]), j \in 1..Len(loops'[v]) :
         loops'[u][i].msg = loops'[v][j].msg /\ loops'[u][i].msg # NoMessage => u = v /\ i = j
  <2> SUFFICES ASSUME NEW u \in Threads, NEW v \in Threads,
                      NEW i \in 1..Len(loops'[u]), NEW j \in 1..Len(loops'[v]),
                      loops'[u][i].msg = loops'[v][j].msg, loops'[u][i].msg # NoMessage
               PROVE  u = v /\ i = j
    OBVIOUS
  <2>1. /\ i \in 1..Len(loops[u]) /\ loops'[u][i] = loops[u][i]
        /\ j \in 1..Len(loops[v]) /\ loops'[v][j] = loops[v][j]
    BY <1>4
  <2>2. loops[u][i].msg = loops[v][j].msg /\ loops[u][i].msg # NoMessage
    BY <2>1
  <2> QED BY <2>1, <2>2 DEF Owners, LoopersOwn
<1>9. \A m \in Messages : status'[m] = "running" =>
         \E u \in Threads : \E i \in 1..Len(loops'[u]) : loops'[u][i].msg = m
  <2> SUFFICES ASSUME NEW m \in Messages, status[m] = "running"
               PROVE  \E u \in Threads : \E i \in 1..Len(loops'[u]) : loops'[u][i].msg = m
    BY <1>1
  <2>1. PICK u \in Threads : \E i \in 1..Len(loops[u]) : loops[u][i].msg = m
    BY DEF Owners, LoopersOwn
  <2>2. PICK i \in 1..Len(loops[u]) : loops[u][i].msg = m
    BY <2>1
  <2>3. CASE u = t
    <3>1. i # n
      BY <1>5, <2>2, <2>3
    <3>2. i \in 1..(n - 1)
      BY <1>1, <2>3, <3>1 DEF n
    <3>3. i \in 1..Len(loops'[t]) /\ loops'[t][i] = loops[t][i]
      BY <1>2, <3>2
    <3> QED BY <2>2, <2>3, <3>3
  <2>4. CASE u # t
    BY <1>2, <2>2, <2>4
  <2> QED BY <2>3, <2>4
<1> QED BY <1>6, <1>7, <1>8, <1>9 DEF Owners, LoopersOwn

LEMMA OwnersEnter ==
  Typed /\ Owners /\ (\E t \in Threads : LoopQueue(t) \/ LoopQueueOnce(t)) => Owners'
<1> SUFFICES ASSUME Typed, Owners, NEW t \in Threads, LoopQueue(t) \/ LoopQueueOnce(t)
             PROVE  Owners'
  OBVIOUS
<1> DEFINE n == Len(loops[t]) + 1
<1>1. PICK type \in LoopTypes, first \in {"await", "count"} :
        Enter(t, type, first) /\ pc[t] \in {"outside", "handler"}
  BY DEF LoopQueue, LoopQueueOnce, LoopTypes, MayCall
<1>2. PICK frame \in Frame :
        frame.msg = NoMessage /\ loops' = [loops EXCEPT ![t] = Append(@, frame)]
  <2> DEFINE f == [type |-> type, left |-> Unlimited, msg |-> NoMessage]
  <2>1. f \in Frame /\ f.msg = NoMessage
    BY DEF Frame
  <2>2. loops' = [loops EXCEPT ![t] = Append(@, f)]
    BY <1>1 DEF Enter
  <2> QED BY <2>1, <2>2
<1>3. /\ pc \in [Threads -> PCs] /\ pc' = [pc EXCEPT ![t] = first]
      /\ loops \in [Threads -> Seq(Frame)] /\ loops[t] \in Seq(Frame)
      /\ n \in Nat /\ n \in 1..n
      /\ UNCHANGED <<queue, posting, status>>
  BY <1>1 DEF Enter, Goto, historyVars, Typed, TypeOK
<1> HIDE DEF Frame
<1>4. /\ Len(loops'[t]) = n
      /\ loops'[t][n] = frame
      /\ \A i \in 1..Len(loops[t]) : loops'[t][i] = loops[t][i]
      /\ \A u \in Threads : u # t => loops'[u] = loops[u]
  BY <1>2, <1>3, AppendProperties
<1>5. \A u \in Threads : \A i \in 1..Len(loops[u]) : FrameOwns(u, i)
  BY DEF Owners, LoopersOwn
<1>6. \A u \in Threads : \A i \in 1..Len(loops'[u]) :
        \/ u = t /\ i = n
        \/ i \in 1..Len(loops[u]) /\ loops'[u][i] = loops[u][i] /\ (u = t => i # n)
  BY <1>3, <1>4
<1>7. \A u \in Threads : \A i \in 1..Len(loops[u]) :
        i \in 1..Len(loops'[u]) /\ loops'[u][i] = loops[u][i]
  BY <1>3, <1>4
<1> HIDE DEF n
<1>8. QueueOwns' /\ PostersOwn'
  BY <1>3 DEF Owners, QueueOwns, PostersOwn
<1>9. \A u \in Threads : \A i \in 1..Len(loops'[u]) : FrameOwns(u, i)'
  <2> SUFFICES ASSUME NEW u \in Threads, NEW i \in 1..Len(loops'[u])
               PROVE  FrameOwns(u, i)'
    OBVIOUS
  <2>1. CASE u = t /\ i = n
    BY <1>1, <1>2, <1>3, <1>4, <2>1 DEF FrameOwns, FreeHanded
  <2>2. CASE u = t /\ i # n
    <3>1. FrameOwns(t, i) /\ loops'[t][i] = loops[t][i] /\ i # Len(loops'[t])
      BY <1>4, <1>5, <1>6, <2>2
    <3> QED BY <1>1, <1>3, <2>2, <3>1 DEF FrameOwns, FreeHanded
  <2>3. CASE u # t
    <3>1. FrameOwns(u, i) /\ pc'[u] = pc[u] /\ loops'[u] = loops[u]
      BY <1>3, <1>4, <1>5, <2>3
    <3> QED BY <1>3, <3>1 DEF FrameOwns
  <2> QED BY <2>1, <2>2, <2>3
<1>10. \A u, v \in Threads : \A i \in 1..Len(loops'[u]), j \in 1..Len(loops'[v]) :
         loops'[u][i].msg = loops'[v][j].msg /\ loops'[u][i].msg # NoMessage => u = v /\ i = j
  BY <1>2, <1>4, <1>6 DEF Owners, LoopersOwn
<1>11. \A m \in Messages : status'[m] = "running" =>
         \E u \in Threads : \E i \in 1..Len(loops'[u]) : loops'[u][i].msg = m
  <2> SUFFICES ASSUME NEW m \in Messages, status[m] = "running"
               PROVE  \E u \in Threads : \E i \in 1..Len(loops'[u]) : loops'[u][i].msg = m
    BY <1>3
  <2>1. PICK u \in Threads : \E i \in 1..Len(loops[u]) : loops[u][i].msg = m
    BY DEF Owners, LoopersOwn
  <2>2. PICK i \in 1..Len(loops[u]) : loops[u][i].msg = m
    BY <2>1
  <2>3. i \in 1..Len(loops'[u]) /\ loops'[u][i] = loops[u][i]
    BY <1>7
  <2> QED BY <2>2, <2>3
<1> QED BY <1>8, <1>9, <1>10, <1>11 DEF Owners, LoopersOwn

(* A step of t between two labels where t keeps what it has.               *)
LEMMA GotoKeepsHands ==
  ASSUME Typed, NEW t \in Threads, NEW label \in PCs, Goto(t, label),
         \/ pc[t] \notin FreeHanded \cup {"quit"} /\ label \notin FreeHanded \cup {"quit"}
         \/ pc[t] \in FreeHanded /\ label \in FreeHanded \cup {"quit"}
  PROVE  \A u \in Threads : SameHands(u)
BY DEF Goto, SameHands, Typed, TypeOK

LEMMA NotifyKeepsHands ==
  ASSUME Typed, NEW t \in Threads, NEW label \in PCs,
         \/ NotifyNotFull(t, label) \/ NotifyNotEmpty(t, label) \/ NotifyWorkerQuit(t, label),
         pc[t] \notin FreeHanded \cup {"quit"}, label \notin FreeHanded \cup {"quit"}
  PROVE  \A u \in Threads : SameHands(u)
<1>1. PICK sleep \in {"sleepNotFull", "sleepNotEmpty", "sleepQuit"},
           recheck \in {"post", "await", "awaitQuit"} :
        /\ NotifyAll(sleep, recheck, t, label)
        /\ sleep = "sleepNotEmpty" <=> recheck = "await"
  BY DEF NotifyNotFull, NotifyNotEmpty, NotifyWorkerQuit
<1> SUFFICES ASSUME NEW u \in Threads
             PROVE  SameHands(u)
  OBVIOUS
<1>2. pc'[u] = IF u = t THEN label ELSE IF pc[u] = sleep THEN recheck ELSE pc[u]
  BY <1>1 DEF NotifyAll, Typed, TypeOK
<1>3. CASE u = t
  BY <1>2, <1>3 DEF SameHands
<1>4. CASE u # t /\ pc[u] = sleep
  BY <1>1, <1>2, <1>4 DEF SameHands, FreeHanded
<1>5. CASE u # t /\ pc[u] # sleep
  BY <1>2, <1>5 DEF SameHands
<1> QED BY <1>3, <1>4, <1>5

LEMMA OwnersPost ==
  Typed /\ Owners /\ (\E t \in Threads, m \in Messages, d \in Delays : PostMessage(t, m, d))
    /\ (\A t \in Threads : pc[t] \in {"outside", "handler"} => posting[t] = NoMessage)
    => Owners'
<1> SUFFICES ASSUME Typed, Owners,
                    NEW t \in Threads, NEW m \in Messages, NEW d \in Delays, PostMessage(t, m, d),
                    \A u \in Threads : pc[u] \in {"outside", "handler"} => posting[u] = NoMessage
             PROVE  Owners'
  OBVIOUS
<1>1. /\ pc[t] \in {"outside", "handler"} /\ Goto(t, "post")
      /\ status[m] = "fresh" /\ status \in [Messages -> Statuses]
      /\ status' = [status EXCEPT ![m] = "posting"]
      /\ posting \in [Threads -> Messages \cup {NoMessage}] /\ posting[t] = NoMessage
      /\ posting' = [posting EXCEPT ![t] = m]
      /\ UNCHANGED <<queue, loops>>
  BY DEF PostMessage, MayCall, Typed, TypeOK
<1>2. QueueOwns'
  BY <1>1 DEF Owners, QueueOwns
<1>3. \A u \in Threads : posting[u] # m
  BY <1>1, MessageQueueAssumption DEF Owners, PostersOwn
<1>4. PostersOwn'
  <2>1. \A u \in Threads : posting'[u] # NoMessage => status'[posting'[u]] = "posting"
    BY <1>1, <1>3 DEF Owners, PostersOwn
  <2>2. \A u, v \in Threads : posting'[u] = posting'[v] /\ posting'[u] # NoMessage => u = v
    BY <1>1, <1>3 DEF Owners, PostersOwn
  <2>3. \A n \in Messages : status'[n] = "posting" => \E u \in Threads : posting'[u] = n
    <3> SUFFICES ASSUME NEW n \in Messages, status'[n] = "posting"
                 PROVE  \E u \in Threads : posting'[u] = n
      OBVIOUS
    <3>1. CASE n = m
      BY <1>1, <3>1
    <3>2. CASE n # m
      <4>1. PICK u \in Threads : posting[u] = n
        BY <1>1, <3>2 DEF Owners, PostersOwn
      <4>2. u # t
        BY <1>1, <4>1, MessageQueueAssumption
      <4> QED BY <1>1, <4>1, <4>2
    <3> QED BY <3>1, <3>2
  <2> QED BY <2>1, <2>2, <2>3 DEF PostersOwn
<1>5. \A u \in Threads : SameHands(u)
  BY <1>1, GotoKeepsHands DEF FreeHanded, PCs
<1>6. /\ \A n \in Messages : status[n] \in {"running", "leaked"} => status'[n] = status[n]
      /\ \A n \in Messages : status'[n] = "running" => status[n] = "running"
  BY <1>1
<1>7. LoopersOwn'
  BY <1>1, <1>5, <1>6, LoopersStillOwn DEF Owners
<1> QED BY <1>2, <1>4, <1>7 DEF Owners

(* A post ends: its message is refused or in the deque.                    *)
LEMMA PosterGivesUp ==
  ASSUME Typed, Owners, NEW t \in Threads, pc[t] = "post",
         NEW s \in {"refused", "queued"},
         status' = [status EXCEPT ![posting[t]] = s],
         posting' = [posting EXCEPT ![t] = NoMessage]
  PROVE  /\ posting[t] \in Messages /\ status[posting[t]] = "posting"
         /\ PostersOwn'
         /\ \A n \in Messages : n # posting[t] => status'[n] = status[n]
         /\ status'[posting[t]] = s
<1>1. /\ posting \in [Threads -> Messages \cup {NoMessage}] /\ posting[t] \in Messages
      /\ status \in [Messages -> Statuses]
  BY DEF Typed, TypeOK, Control, PostersHaveMessages
<1>2. status[posting[t]] = "posting" /\ posting[t] # NoMessage
  BY <1>1, MessageQueueAssumption DEF Owners, PostersOwn
<1>3. \A u \in Threads : u # t => posting[u] # posting[t] /\ posting'[u] = posting[u]
  BY <1>1, <1>2 DEF Owners, PostersOwn
<1>4. posting'[t] = NoMessage
  BY <1>1
<1>5. \A n \in Messages : n # posting[t] => status'[n] = status[n]
  BY <1>1
<1>6. status'[posting[t]] = s
  BY <1>1
<1>7. PostersOwn'
  <2>1. \A u \in Threads : posting'[u] # NoMessage => status'[posting'[u]] = "posting"
    BY <1>1, <1>3, <1>4, <1>5 DEF Owners, PostersOwn
  <2>2. \A u, v \in Threads : posting'[u] = posting'[v] /\ posting'[u] # NoMessage => u = v
    BY <1>3, <1>4 DEF Owners, PostersOwn
  <2>3. \A n \in Messages : status'[n] = "posting" => \E u \in Threads : posting'[u] = n
    <3> SUFFICES ASSUME NEW n \in Messages, status'[n] = "posting"
                 PROVE  \E u \in Threads : posting'[u] = n
      OBVIOUS
    <3>1. n # posting[t]
      BY <1>6
    <3>2. PICK u \in Threads : posting[u] = n
      BY <1>5, <3>1 DEF Owners, PostersOwn
    <3> QED BY <1>3, <3>1, <3>2
  <2> QED BY <2>1, <2>2, <2>3 DEF PostersOwn
<1> QED BY <1>1, <1>2, <1>5, <1>6, <1>7

(* Only a thread that is posting has a message to post.                    *)
IdleHands == \A t \in Threads : pc[t] \notin {"post", "sleepNotFull"} => posting[t] = NoMessage

LEMMA IdleHandsInit == Init => IdleHands
BY DEF Init, IdleHands

LEMMA IdleHandsNext == Typed /\ IdleHands /\ [Next]_vars => IdleHands'
<1> SUFFICES ASSUME Typed, IdleHands, [Next]_vars
             PROVE  IdleHands'
  OBVIOUS
<1> USE DEF IdleHands
<1>0. /\ pc \in [Threads -> PCs] /\ posting \in [Threads -> Messages \cup {NoMessage}]
      /\ NoMessage \notin Messages
  BY MessageQueueAssumption DEF Typed, TypeOK
<1>1. ASSUME NEW t \in Threads, Continue(t)
      PROVE  IdleHands'
  <2>0. Caller(t) \in {"outside", "handler"}
    BY DEF Caller
  <2>1. CASE PostSleep(t)
    BY <2>1, <1>0 DEF PostSleep, Goto, sharedVars, historyVars
  <2>2. CASE PostRefused(t)
    BY <2>0, <2>2, <1>0 DEF PostRefused, Goto, sharedVars
  <2>3. CASE PostInsert(t)
    BY <2>3, <1>0 DEF PostInsert, Goto
  <2>4. CASE PostNotify(t)
    BY <2>0, <2>4, <1>0 DEF PostNotify, NotifyNotEmpty, NotifyAll, sharedVars, historyVars
  <2>5. CASE LoopCount(t)
    BY <2>5, <1>0 DEF LoopCount, Goto, sharedVars, historyVars
  <2>6. CASE AwaitQuitNow(t)
    BY <2>6, <1>0 DEF AwaitQuitNow, Quit, Goto, historyVars
  <2>7. CASE AwaitQuitNoDue(t)
    BY <2>7, <1>0 DEF AwaitQuitNoDue, GoesOn, Quit, Goto, historyVars
  <2>8. CASE AwaitSleep(t)
    BY <2>8, <1>0 DEF AwaitSleep, GoesOn, Goto, sharedVars, historyVars
  <2>9. CASE AwaitPop(t)
    BY <2>9, <1>0 DEF AwaitPop, GoesOn, Goto
  <2>10. CASE StartHandler(t)
    BY <2>10, <1>0 DEF StartHandler, NotifyNotFull, NotifyAll, sharedVars, historyVars
  <2>11. CASE LoopQuit(t)
    BY <2>11, <1>0 DEF LoopQuit, Goto, historyVars
  <2>12. CASE QuitNotify(t)
    BY <2>0, <2>12, <1>0 DEF QuitNotify, NotifyWorkerQuit, NotifyAll, sharedVars, historyVars
  <2>13. CASE RemoveNotify(t)
    BY <2>0, <2>13, <1>0 DEF RemoveNotify, NotifyNotFull, NotifyAll, sharedVars, historyVars
  <2>14. CASE WakePosters(t)
    BY <2>14, <1>0 DEF WakePosters, NotifyNotFull, NotifyAll, sharedVars, historyVars
  <2>15. CASE WakeLoopers(t)
    BY <2>0, <2>15, <1>0 DEF WakeLoopers, NotifyNotEmpty, NotifyAll, sharedVars, historyVars
  <2>16. CASE AwaitReturn(t)
    BY <2>0, <2>16, <1>0 DEF AwaitReturn, Goto, sharedVars, historyVars
  <2>17. CASE AwaitQuitSleep(t)
    BY <2>17, <1>0 DEF AwaitQuitSleep, Goto, sharedVars, historyVars
  <2>18. CASE WaitTimeout(t)
    BY <2>18, <1>0 DEF WaitTimeout, WakeAlone, Goto, sharedVars, historyVars
  <2> QED BY <1>1, <2>1, <2>2, <2>3, <2>4, <2>5, <2>6, <2>7, <2>8, <2>9, <2>10, <2>11, <2>12,
             <2>13, <2>14, <2>15, <2>16, <2>17, <2>18 DEF Continue
<1>2. ASSUME NEW t \in Threads, Call(t)
      PROVE  IdleHands'
  <2>1. CASE \E m \in Messages, d \in Delays : PostMessage(t, m, d)
    <3>1. PICK m \in Messages, d \in Delays : PostMessage(t, m, d)
      BY <2>1
    <3> QED BY <1>0, <3>1 DEF PostMessage, MayCall, Goto
  <2>2. CASE LoopQueue(t) \/ LoopQueueOnce(t)
    <3>1. PICK first \in {"await", "count"} : 
              Enter(t, IF first = "count" THEN "kLoopOnce" ELSE "kLoopAndWait", first) /\ pc[t] \in {"outside", "handler"}
      BY <2>2 DEF LoopQueue, LoopQueueOnce, MayCall
    <3> QED BY <1>0, <3>1 DEF Enter, Goto, historyVars
  <2>3. CASE \E S \in SUBSET ToSet(queue) : RemoveMessageIf(t, S)
    <3>1. PICK S \in SUBSET ToSet(queue) : RemoveMessageIf(t, S)
      BY <2>3
    <3> QED BY <1>0, <3>1 DEF RemoveMessageIf, MayCall, Goto
  <2>4. CASE Interrupt(t)
    BY <2>4, <1>0 DEF Interrupt, Goto, historyVars, MayCall
  <2>5. CASE \E await \in BOOLEAN : ShutdownNow(t, await)
    <3>1. PICK await \in BOOLEAN : ShutdownNow(t, await)
      BY <2>5
    <3> QED BY <1>0, <3>1 DEF ShutdownNow, AskShutdown, MayCall, Goto
  <2>6. CASE \E await \in BOOLEAN : Shutdown(t, await)
    <3>1. PICK await \in BOOLEAN : Shutdown(t, await)
      BY <2>6
    <3> QED BY <1>0, <3>1 DEF Shutdown, AskShutdown, MayCall, Goto
  <2>7. CASE AwaitTermination(t)
    BY <2>7, <1>0 DEF AwaitTermination, Goto, sharedVars, historyVars, MayCall
  <2> QED BY <1>2, <2>1, <2>2, <2>3, <2>4, <2>5, <2>6, <2>7 DEF Call
<1>3. ASSUME NEW t \in Threads, EndHandler(t)
      PROVE  IdleHands'
  BY <1>3, <1>0 DEF EndHandler, Goto, sharedVars
<1>4. ASSUME NEW t \in Threads, ThrowHandler(t)
      PROVE  IdleHands'
  BY <1>4, <1>0 DEF ThrowHandler, Goto, sharedVars
<1>5. ASSUME NEW t \in Threads, SpuriousWakeup(t)
      PROVE  IdleHands'
  <2>1. CASE pc[t] = "sleepNotEmpty"
    BY <1>0, <1>5, <2>1 DEF SpuriousWakeup, WakeAlone, Goto, sharedVars, historyVars
  <2>2. CASE pc[t] = "sleepNotFull"
    BY <1>0, <1>5, <2>2 DEF SpuriousWakeup, WakeAlone, Goto, sharedVars, historyVars
  <2>3. CASE pc[t] = "sleepQuit"
    BY <1>0, <1>5, <2>3 DEF SpuriousWakeup, WakeAlone, Goto, sharedVars, historyVars
  <2> QED BY <1>5, <2>1, <2>2, <2>3 DEF SpuriousWakeup, Asleep
<1>6. CASE Tick
  BY <1>6, <1>0 DEF Tick, sharedVars, threadVars, historyVars
<1>7. CASE UNCHANGED vars
  BY <1>7, <1>0 DEF vars, sharedVars, threadVars, historyVars
<1> QED BY <1>1, <1>2, <1>3, <1>4, <1>5, <1>6, <1>7 DEF Next

LEMMA OwnersRefused == Typed /\ Owners /\ (\E t \in Threads : PostRefused(t)) => Owners'
<1> SUFFICES ASSUME Typed, Owners, NEW t \in Threads, PostRefused(t)
             PROVE  Owners'
  OBVIOUS
<1>1. /\ pc[t] = "post" /\ Goto(t, Caller(t)) /\ Caller(t) \in {"outside", "handler"}
      /\ status' = [status EXCEPT ![posting[t]] = "refused"]
      /\ posting' = [posting EXCEPT ![t] = NoMessage]
      /\ UNCHANGED <<queue, loops>>
  BY DEF PostRefused, Caller, sharedVars
<1>2. /\ posting[t] \in Messages /\ status[posting[t]] = "posting"
      /\ PostersOwn'
      /\ \A n \in Messages : n # posting[t] => status'[n] = status[n]
      /\ status'[posting[t]] = "refused"
  BY <1>1, PosterGivesUp
<1>3. QueueOwns'
  BY <1>1, <1>2 DEF Owners, QueueOwns
<1>4. \A u \in Threads : SameHands(u)
  BY <1>1, GotoKeepsHands DEF FreeHanded, PCs
<1>5. LoopersOwn'
  BY <1>1, <1>2, <1>4, LoopersStillOwn DEF Owners
<1> QED BY <1>2, <1>3, <1>5 DEF Owners

LEMMA OwnersInsert == Typed /\ Owners /\ (\E t \in Threads : PostInsert(t)) => Owners'
<1> SUFFICES ASSUME Typed, Owners, NEW t \in Threads, PostInsert(t)
             PROVE  Owners'
  OBVIOUS
<1> DEFINE m == posting[t]
<1>1. /\ pc[t] = "post" /\ Goto(t, "postNotify")
      /\ status' = [status EXCEPT ![m] = "queued"]
      /\ posting' = [posting EXCEPT ![t] = NoMessage]
      /\ queue' = Insert(queue, due, Priority, m)
      /\ UNCHANGED loops
  BY DEF PostInsert
<1>2. /\ m \in Messages /\ status[m] = "posting"
      /\ PostersOwn'
      /\ \A n \in Messages : n # m => status'[n] = status[n]
      /\ status'[m] = "queued"
  BY <1>1, PosterGivesUp
<1>3. queue \in Seq(Messages) /\ due \in [Messages -> Int] /\ Priority \in [Messages -> Int]
  BY MessageQueueAssumption DEF Typed, TypeOK
<1> HIDE DEF m
<1>4. ToSet(queue') = ToSet(queue) \cup {m} /\ m \notin ToSet(queue)
  <2>0. m \in Messages
    BY <1>2
  <2>1. HasOneMore(Insert(queue, due, Priority, m), queue, m)
    BY <1>3, <2>0, InsertAddsOne
  <2>2. m \notin ToSet(queue)
    BY <1>2 DEF Owners, QueueOwns
  <2> QED BY <1>1, <2>1, <2>2 DEF HasOneMore
<1>5. IsInjective(queue')
  BY <1>1, <1>2, <1>3, <1>4, InsertStaysInjective DEF Owners, QueueOwns
<1>6. QueueOwns'
  BY <1>2, <1>4, <1>5 DEF Owners, QueueOwns
<1>7. \A u \in Threads : SameHands(u)
  BY <1>1, GotoKeepsHands DEF FreeHanded, PCs
<1>8. LoopersOwn'
  BY <1>1, <1>2, <1>7, LoopersStillOwn DEF Owners
<1> QED BY <1>2, <1>6, <1>8 DEF Owners

LEMMA OwnersRemove ==
  Typed /\ Owners /\ (\E t \in Threads : \E S \in SUBSET ToSet(queue) : RemoveMessageIf(t, S))
    => Owners'
<1> SUFFICES ASSUME Typed, Owners, NEW t \in Threads, NEW S \in SUBSET ToSet(queue),
                    RemoveMessageIf(t, S)
             PROVE  Owners'
  OBVIOUS
<1>1. /\ pc[t] \in {"outside", "handler"} /\ Goto(t, "removeNotify")
      /\ status' = [n \in Messages |-> IF n \in S THEN "dropped" ELSE status[n]]
      /\ queue' = Erase(queue, S) /\ queue \in Seq(Messages)
      /\ UNCHANGED <<loops, posting>>
  BY DEF RemoveMessageIf, Erased, MayCall, Typed, TypeOK
<1>2. \A n \in Messages : n \in S => status[n] = "queued"
  BY DEF Owners, QueueOwns
<1>3. ToSet(queue') = ToSet(queue) \ S /\ IsInjective(queue')
  BY <1>1, EraseRemoves DEF Owners, QueueOwns
<1>4. \A n \in Messages : status'[n] = IF n \in S THEN "dropped" ELSE status[n]
  BY <1>1
<1>5. QueueOwns'
  BY <1>3, <1>4 DEF Owners, QueueOwns
<1>6. PostersOwn'
  <2>1. \A u \in Threads : posting[u] # NoMessage => posting[u] \in Messages
    BY DEF Typed, TypeOK
  <2> QED BY <1>1, <1>2, <1>4, <2>1 DEF Owners, PostersOwn
<1>7. \A u \in Threads : SameHands(u)
  BY <1>1, GotoKeepsHands DEF FreeHanded, PCs
<1>8. LoopersOwn'
  BY <1>1, <1>2, <1>4, <1>7, LoopersStillOwn DEF Owners
<1> QED BY <1>5, <1>6, <1>8 DEF Owners

LEMMA OwnersShutdownNow ==
  Typed /\ Owners /\ (\E t \in Threads : \E await \in BOOLEAN : ShutdownNow(t, await)) => Owners'
<1> SUFFICES ASSUME Typed, Owners, NEW t \in Threads, NEW await \in BOOLEAN, ShutdownNow(t, await)
             PROVE  Owners'
  OBVIOUS
<1>1. /\ pc[t] \in {"outside", "handler"} /\ Goto(t, "wakePosters")
      /\ \A n \in Messages : status'[n] = IF status[n] = "queued" THEN "dropped" ELSE status[n]
      /\ queue' = << >>
      /\ UNCHANGED <<loops, posting>>
  BY DEF ShutdownNow, AskShutdown, MayCall
<1>2. QueueOwns'
  <2>1. ToSet(<< >>) = {} /\ IsInjective(<< >>)
    BY DEF ToSet, IsInjective
  <2> QED BY <1>1, <2>1 DEF QueueOwns
<1>3. PostersOwn'
  <2>1. \A u \in Threads : posting[u] # NoMessage => posting[u] \in Messages
    BY DEF Typed, TypeOK
  <2> QED BY <1>1, <2>1 DEF Owners, PostersOwn
<1>4. \A u \in Threads : SameHands(u)
  BY <1>1, GotoKeepsHands DEF FreeHanded, PCs
<1>5. LoopersOwn'
  BY <1>1, <1>4, LoopersStillOwn DEF Owners
<1> QED BY <1>2, <1>3, <1>5 DEF Owners

(* The stacks, the deque and the messages stay as they are.                *)
LEMMA OwnersQuiet ==
  ASSUME Typed, Owners, UNCHANGED <<queue, posting, status, loops>>,
         \A t \in Threads : SameHands(t)
  PROVE  Owners'
BY OwnersUndisturbed

LEMMA OwnersInit == Init => Owners
<1> SUFFICES ASSUME Init
             PROVE  Owners
  OBVIOUS
<1>1. QueueOwns
  <2>1. ToSet(<< >>) = {} /\ IsInjective(<< >>)
    BY DEF ToSet, IsInjective
  <2> QED BY <2>1 DEF Init, QueueOwns
<1>2. PostersOwn
  BY DEF Init, PostersOwn
<1>3. LoopersOwn
  BY DEF Init, LoopersOwn
<1> QED BY <1>1, <1>2, <1>3 DEF Owners

LEMMA OwnersNext == Typed /\ IdleHands /\ Owners /\ [Next]_vars => Owners'
<1> SUFFICES ASSUME Typed, IdleHands, Owners, [Next]_vars
             PROVE  Owners'
  OBVIOUS
<1>0. Typed /\ IdleHands /\ Owners
  OBVIOUS
<1>1. ASSUME NEW t \in Threads, Continue(t)
      PROVE  Owners'
  <2>0. Caller(t) \in {"outside", "handler"}
    BY DEF Caller
  <2>1. CASE PostSleep(t)
    <3>1. UNCHANGED <<queue, posting, status, loops>>
      BY <2>1 DEF PostSleep, Goto, sharedVars, historyVars
    <3>2. /\ Goto(t, "sleepNotFull") /\ "sleepNotFull" \in PCs
          /\ \/ pc[t] \notin FreeHanded \cup {"quit"} /\ "sleepNotFull" \notin FreeHanded \cup {"quit"}
             \/ pc[t] \in FreeHanded /\ "sleepNotFull" \in FreeHanded \cup {"quit"}
      BY <2>1 DEF PostSleep, FreeHanded, PCs, Asleep
    <3>3. \A u \in Threads : SameHands(u)
      BY <1>0, <3>2, GotoKeepsHands
    <3> QED BY <1>0, <3>1, <3>3, OwnersQuiet
  <2>2. CASE PostRefused(t)
    BY <1>0, <2>2, OwnersRefused
  <2>3. CASE PostInsert(t)
    BY <1>0, <2>3, OwnersInsert
  <2>4. CASE PostNotify(t)
    <3>1. UNCHANGED <<queue, posting, status, loops>>
      BY <2>4 DEF PostNotify, NotifyNotEmpty, NotifyAll, sharedVars, historyVars
    <3>2. /\ NotifyNotEmpty(t, Caller(t)) /\ Caller(t) \in PCs
          /\ pc[t] \notin FreeHanded \cup {"quit"} /\ Caller(t) \notin FreeHanded \cup {"quit"}
      BY <2>0, <2>4 DEF PostNotify, FreeHanded, PCs, Asleep
    <3>3. \A u \in Threads : SameHands(u)
      BY <1>0, <3>2, NotifyKeepsHands
    <3> QED BY <1>0, <3>1, <3>3, OwnersQuiet
  <2>5. CASE LoopCount(t)
    <3>1. UNCHANGED <<queue, posting, status>>
      BY <2>5 DEF LoopCount, sharedVars, historyVars
    <3>2. \A u \in Threads : SameHands(u)
      <4>1. Goto(t, "await") /\ pc[t] \in FreeHanded /\ "await" \in FreeHanded \cap PCs
        BY <2>5 DEF LoopCount, FreeHanded, PCs
      <4> QED BY <1>0, <4>1, GotoKeepsHands
    <3>3. /\ loops \in [Threads -> Seq(Frame)] /\ loops[t] # << >>
          /\ loops' = [loops EXCEPT ![t][Len(loops[t])].left = DueMessageCount]
      BY <1>0, <2>5 DEF LoopCount, Typed, TypeOK, Control, LoopersHaveLoops, InLoop
    <3>4. \A u \in Threads : /\ Len(loops'[u]) = Len(loops[u])
                             /\ \A i \in 1..Len(loops[u]) : loops'[u][i].msg = loops[u][i].msg
      BY <3>3 DEF Frame
    <3> QED BY <1>0, <3>1, <3>2, <3>4, OwnersUndisturbed
  <2>6. CASE AwaitQuitNow(t)
    <3>1. UNCHANGED <<queue, posting, status, loops>>
      BY <2>6 DEF AwaitQuitNow, Quit, Goto, historyVars
    <3>2. /\ Goto(t, "quit") /\ "quit" \in PCs
          /\ \/ pc[t] \notin FreeHanded \cup {"quit"} /\ "quit" \notin FreeHanded \cup {"quit"}
             \/ pc[t] \in FreeHanded /\ "quit" \in FreeHanded \cup {"quit"}
      BY <2>6 DEF AwaitQuitNow, Quit, Quit, FreeHanded, PCs, Asleep
    <3>3. \A u \in Threads : SameHands(u)
      BY <1>0, <3>2, GotoKeepsHands
    <3> QED BY <1>0, <3>1, <3>3, OwnersQuiet
  <2>7. CASE AwaitQuitNoDue(t)
    <3>1. UNCHANGED <<queue, posting, status, loops>>
      BY <2>7 DEF AwaitQuitNoDue, GoesOn, Quit, Goto, historyVars
    <3>2. /\ Goto(t, "quit") /\ "quit" \in PCs
          /\ \/ pc[t] \notin FreeHanded \cup {"quit"} /\ "quit" \notin FreeHanded \cup {"quit"}
             \/ pc[t] \in FreeHanded /\ "quit" \in FreeHanded \cup {"quit"}
      BY <2>7 DEF AwaitQuitNoDue, GoesOn, Quit, FreeHanded, PCs, Asleep
    <3>3. \A u \in Threads : SameHands(u)
      BY <1>0, <3>2, GotoKeepsHands
    <3> QED BY <1>0, <3>1, <3>3, OwnersQuiet
  <2>8. CASE AwaitSleep(t)
    <3>1. UNCHANGED <<queue, posting, status, loops>>
      BY <2>8 DEF AwaitSleep, GoesOn, Goto, sharedVars, historyVars
    <3>2. /\ Goto(t, "sleepNotEmpty") /\ "sleepNotEmpty" \in PCs
          /\ \/ pc[t] \notin FreeHanded \cup {"quit"} /\ "sleepNotEmpty" \notin FreeHanded \cup {"quit"}
             \/ pc[t] \in FreeHanded /\ "sleepNotEmpty" \in FreeHanded \cup {"quit"}
      BY <2>8 DEF AwaitSleep, GoesOn, FreeHanded, PCs, Asleep
    <3>3. \A u \in Threads : SameHands(u)
      BY <1>0, <3>2, GotoKeepsHands
    <3> QED BY <1>0, <3>1, <3>3, OwnersQuiet
  <2>9. CASE AwaitPop(t)
    BY <1>0, <2>9, OwnersPop
  <2>10. CASE StartHandler(t)
    <3>1. UNCHANGED <<queue, posting, status, loops>>
      BY <2>10 DEF StartHandler, NotifyNotFull, NotifyAll, sharedVars, historyVars
    <3>2. /\ NotifyNotFull(t, "handler") /\ "handler" \in PCs
          /\ pc[t] \notin FreeHanded \cup {"quit"} /\ "handler" \notin FreeHanded \cup {"quit"}
      BY <2>10 DEF StartHandler, FreeHanded, PCs, Asleep
    <3>3. \A u \in Threads : SameHands(u)
      BY <1>0, <3>2, NotifyKeepsHands
    <3> QED BY <1>0, <3>1, <3>3, OwnersQuiet
  <2>11. CASE LoopQuit(t)
    BY <1>0, <2>11, OwnersQuit
  <2>12. CASE QuitNotify(t)
    <3>1. UNCHANGED <<queue, posting, status, loops>>
      BY <2>12 DEF QuitNotify, NotifyWorkerQuit, NotifyAll, sharedVars, historyVars
    <3>2. /\ NotifyWorkerQuit(t, Caller(t)) /\ Caller(t) \in PCs
          /\ pc[t] \notin FreeHanded \cup {"quit"} /\ Caller(t) \notin FreeHanded \cup {"quit"}
      BY <2>0, <2>12 DEF QuitNotify, FreeHanded, PCs, Asleep
    <3>3. \A u \in Threads : SameHands(u)
      BY <1>0, <3>2, NotifyKeepsHands
    <3> QED BY <1>0, <3>1, <3>3, OwnersQuiet
  <2>13. CASE RemoveNotify(t)
    <3>1. UNCHANGED <<queue, posting, status, loops>>
      BY <2>13 DEF RemoveNotify, NotifyNotFull, NotifyAll, sharedVars, historyVars
    <3>2. /\ NotifyNotFull(t, Caller(t)) /\ Caller(t) \in PCs
          /\ pc[t] \notin FreeHanded \cup {"quit"} /\ Caller(t) \notin FreeHanded \cup {"quit"}
      BY <2>0, <2>13 DEF RemoveNotify, FreeHanded, PCs, Asleep
    <3>3. \A u \in Threads : SameHands(u)
      BY <1>0, <3>2, NotifyKeepsHands
    <3> QED BY <1>0, <3>1, <3>3, OwnersQuiet
  <2>14. CASE WakePosters(t)
    <3>1. UNCHANGED <<queue, posting, status, loops>>
      BY <2>14 DEF WakePosters, NotifyNotFull, NotifyAll, sharedVars, historyVars
    <3>2. /\ NotifyNotFull(t, "wakeLoopers") /\ "wakeLoopers" \in PCs
          /\ pc[t] \notin FreeHanded \cup {"quit"} /\ "wakeLoopers" \notin FreeHanded \cup {"quit"}
      BY <2>14 DEF WakePosters, FreeHanded, PCs, Asleep
    <3>3. \A u \in Threads : SameHands(u)
      BY <1>0, <3>2, NotifyKeepsHands
    <3> QED BY <1>0, <3>1, <3>3, OwnersQuiet
  <2>15. CASE WakeLoopers(t)
    <3> DEFINE label == IF t \in mustAwait THEN "awaitQuit" ELSE Caller(t)
    <3>1. UNCHANGED <<queue, posting, status, loops>>
      BY <2>15 DEF WakeLoopers, NotifyNotEmpty, NotifyAll, sharedVars, historyVars
    <3>2. /\ NotifyNotEmpty(t, label) /\ label \in PCs
          /\ pc[t] \notin FreeHanded \cup {"quit"} /\ label \notin FreeHanded \cup {"quit"}
      BY <2>0, <2>15 DEF WakeLoopers, FreeHanded, PCs, Asleep
    <3>3. \A u \in Threads : SameHands(u)
      BY <1>0, <3>2, NotifyKeepsHands
    <3> QED BY <1>0, <3>1, <3>3, OwnersQuiet
  <2>16. CASE AwaitReturn(t)
    <3>1. UNCHANGED <<queue, posting, status, loops>>
      BY <2>16 DEF AwaitReturn, Goto, sharedVars, historyVars
    <3>2. /\ Goto(t, Caller(t)) /\ Caller(t) \in PCs
          /\ \/ pc[t] \notin FreeHanded \cup {"quit"} /\ Caller(t) \notin FreeHanded \cup {"quit"}
             \/ pc[t] \in FreeHanded /\ Caller(t) \in FreeHanded \cup {"quit"}
      BY <2>0, <2>16 DEF AwaitReturn, FreeHanded, PCs, Asleep
    <3>3. \A u \in Threads : SameHands(u)
      BY <1>0, <3>2, GotoKeepsHands
    <3> QED BY <1>0, <3>1, <3>3, OwnersQuiet
  <2>17. CASE AwaitQuitSleep(t)
    <3>1. UNCHANGED <<queue, posting, status, loops>>
      BY <2>17 DEF AwaitQuitSleep, Goto, sharedVars, historyVars
    <3>2. /\ Goto(t, "sleepQuit") /\ "sleepQuit" \in PCs
          /\ \/ pc[t] \notin FreeHanded \cup {"quit"} /\ "sleepQuit" \notin FreeHanded \cup {"quit"}
             \/ pc[t] \in FreeHanded /\ "sleepQuit" \in FreeHanded \cup {"quit"}
      BY <2>17 DEF AwaitQuitSleep, FreeHanded, PCs, Asleep
    <3>3. \A u \in Threads : SameHands(u)
      BY <1>0, <3>2, GotoKeepsHands
    <3> QED BY <1>0, <3>1, <3>3, OwnersQuiet
  <2>18. CASE WaitTimeout(t)
    <3>1. UNCHANGED <<queue, posting, status, loops>>
      BY <2>18 DEF WaitTimeout, WakeAlone, Goto, sharedVars, historyVars
    <3>2. /\ Goto(t, "await") /\ "await" \in PCs
          /\ \/ pc[t] \notin FreeHanded \cup {"quit"} /\ "await" \notin FreeHanded \cup {"quit"}
             \/ pc[t] \in FreeHanded /\ "await" \in FreeHanded \cup {"quit"}
      BY <2>18 DEF WaitTimeout, WakeAlone, WakeAlone, FreeHanded, PCs, Asleep
    <3>3. \A u \in Threads : SameHands(u)
      BY <1>0, <3>2, GotoKeepsHands
    <3> QED BY <1>0, <3>1, <3>3, OwnersQuiet
  <2> QED BY <1>1, <2>1, <2>2, <2>3, <2>4, <2>5, <2>6, <2>7, <2>8, <2>9, <2>10, <2>11, <2>12,
             <2>13, <2>14, <2>15, <2>16, <2>17, <2>18 DEF Continue
<1>2. ASSUME NEW t \in Threads, Call(t)
      PROVE  Owners'
  <2>1. CASE \E m \in Messages, d \in Delays : PostMessage(t, m, d)
    BY <1>0, <2>1, OwnersPost DEF IdleHands
  <2>2. CASE LoopQueue(t) \/ LoopQueueOnce(t)
    BY <1>0, <2>2, OwnersEnter
  <2>3. CASE \E S \in SUBSET ToSet(queue) : RemoveMessageIf(t, S)
    BY <1>0, <2>3, OwnersRemove
  <2>4. CASE Interrupt(t)
    <3>1. UNCHANGED <<queue, posting, status, loops>>
      BY <2>4 DEF Interrupt, Goto, historyVars
    <3>2. /\ Goto(t, "wakeLoopers") /\ "wakeLoopers" \in PCs
          /\ \/ pc[t] \notin FreeHanded \cup {"quit"} /\ "wakeLoopers" \notin FreeHanded \cup {"quit"}
             \/ pc[t] \in FreeHanded /\ "wakeLoopers" \in FreeHanded \cup {"quit"}
      BY <2>4 DEF Interrupt, MayCall, FreeHanded, PCs, Asleep
    <3>3. \A u \in Threads : SameHands(u)
      BY <1>0, <3>2, GotoKeepsHands
    <3> QED BY <1>0, <3>1, <3>3, OwnersQuiet
  <2>5. CASE \E await \in BOOLEAN : ShutdownNow(t, await)
    BY <1>0, <2>5, OwnersShutdownNow
  <2>6. CASE \E await \in BOOLEAN : Shutdown(t, await)
    <3>0. PICK await \in BOOLEAN : Shutdown(t, await)
      BY <2>6
    <3>1. UNCHANGED <<queue, posting, status, loops>>
      BY <3>0 DEF Shutdown, AskShutdown, Goto
    <3>2. /\ Goto(t, "wakePosters") /\ "wakePosters" \in PCs
          /\ \/ pc[t] \notin FreeHanded \cup {"quit"} /\ "wakePosters" \notin FreeHanded \cup {"quit"}
             \/ pc[t] \in FreeHanded /\ "wakePosters" \in FreeHanded \cup {"quit"}
      BY <3>0 DEF Shutdown, AskShutdown, MayCall, FreeHanded, PCs, Asleep
    <3>3. \A u \in Threads : SameHands(u)
      BY <1>0, <3>2, GotoKeepsHands
    <3> QED BY <1>0, <3>1, <3>3, OwnersQuiet
  <2>7. CASE AwaitTermination(t)
    <3>1. UNCHANGED <<queue, posting, status, loops>>
      BY <2>7 DEF AwaitTermination, Goto, sharedVars, historyVars
    <3>2. /\ Goto(t, "awaitQuit") /\ "awaitQuit" \in PCs
          /\ \/ pc[t] \notin FreeHanded \cup {"quit"} /\ "awaitQuit" \notin FreeHanded \cup {"quit"}
             \/ pc[t] \in FreeHanded /\ "awaitQuit" \in FreeHanded \cup {"quit"}
      BY <2>7 DEF AwaitTermination, MayCall, FreeHanded, PCs, Asleep
    <3>3. \A u \in Threads : SameHands(u)
      BY <1>0, <3>2, GotoKeepsHands
    <3> QED BY <1>0, <3>1, <3>3, OwnersQuiet
  <2> QED BY <1>2, <2>1, <2>2, <2>3, <2>4, <2>5, <2>6, <2>7 DEF Call
<1>3. ASSUME NEW t \in Threads, EndHandler(t)
      PROVE  Owners'
  BY <1>0, <1>3, OwnersEnd
<1>4. ASSUME NEW t \in Threads, ThrowHandler(t)
      PROVE  Owners'
  BY <1>0, <1>4, OwnersThrow
<1>5. ASSUME NEW t \in Threads, SpuriousWakeup(t)
      PROVE  Owners'
  <2>1. UNCHANGED <<queue, posting, status, loops>>
    BY <1>5 DEF SpuriousWakeup, WakeAlone, sharedVars, historyVars
  <2>2. CASE pc[t] = "sleepNotEmpty"
    <3>1. Goto(t, "await") /\ "await" \in PCs /\ {pc[t], "await"} \subseteq FreeHanded
      BY <1>5, <2>2 DEF SpuriousWakeup, WakeAlone, FreeHanded, PCs
    <3>2. \A u \in Threads : SameHands(u)
      BY <1>0, <3>1, GotoKeepsHands
    <3> QED BY <1>0, <2>1, <3>2, OwnersQuiet
  <2>3. CASE pc[t] \in {"sleepNotFull", "sleepQuit"}
    <3>1. PICK label \in {"post", "awaitQuit"} : Goto(t, label)
      BY <1>5, <2>3 DEF SpuriousWakeup, WakeAlone
    <3>2. label \in PCs /\ {pc[t], label} \cap (FreeHanded \cup {"quit"}) = {}
      BY <2>3 DEF FreeHanded, PCs
    <3>3. \A u \in Threads : SameHands(u)
      BY <1>0, <3>1, <3>2, GotoKeepsHands
    <3> QED BY <1>0, <2>1, <3>3, OwnersQuiet
  <2> QED BY <1>5, <2>2, <2>3 DEF SpuriousWakeup, Asleep
<1>6. CASE Tick
  BY <1>0, <1>6, OwnersQuiet DEF Tick, sharedVars, threadVars, historyVars, SameHands
<1>7. CASE UNCHANGED vars
  BY <1>0, <1>7, OwnersQuiet DEF vars, sharedVars, threadVars, historyVars, SameHands
<1> QED BY <1>1, <1>2, <1>3, <1>4, <1>5, <1>6, <1>7 DEF Next

(* In terms of Owners, the counts of OneOwner.                             *)
LEMMA OwnersAreOne == Typed /\ Nested /\ Owners => OneOwner
<1> SUFFICES ASSUME Typed, Nested, Owners
             PROVE  OneOwner
  OBVIOUS
<1>1. ASSUME NEW m \in Messages
      PROVE  Cardinality({t \in Threads : posting[t] = m}) = IF status[m] = "posting" THEN 1 ELSE 0
  <2>1. CASE status[m] = "posting"
    <3>1. PICK t \in Threads : posting[t] = m
      BY <2>1 DEF Owners, PostersOwn
    <3>2. {u \in Threads : posting[u] = m} = {t}
      BY <3>1, MessageQueueAssumption DEF Owners, PostersOwn
    <3> QED BY <2>1, <3>2, FS_Singleton
  <2>2. CASE status[m] # "posting"
    <3>1. {u \in Threads : posting[u] = m} = {}
      BY <2>2, MessageQueueAssumption DEF Owners, PostersOwn
    <3> QED BY <2>2, <3>1, FS_EmptySet
  <2> QED BY <2>1, <2>2
<1>2. ASSUME NEW c \in LoopCalls
      PROVE  c[1] \in Threads /\ c[2] \in 1..Len(loops[c[1]])
  BY DEF LoopCalls, Typed, TypeOK
<1>3. ASSUME NEW t \in Threads, NEW i \in 1..Len(loops[t])
      PROVE  <<t, i>> \in LoopCalls
  <2>1. i \in 1..MaxNest /\ i \in DOMAIN loops[t]
    BY MessageQueueAssumption DEF Nested, Typed, TypeOK
  <2> QED BY <2>1 DEF LoopCalls
<1>4. ASSUME NEW m \in Messages, NEW c \in Running(m)
      PROVE  status[m] = "running" /\ loops[c[1]][c[2]].msg = m /\ c \in LoopCalls
  <2>1. c \in LoopCalls /\ loops[c[1]][c[2]].msg = m /\ status[m] # "leaked"
    BY DEF Running
  <2>2. FrameOwns(c[1], c[2])
    BY <1>2, <2>1 DEF Owners, LoopersOwn
  <2> QED BY <2>1, <2>2, MessageQueueAssumption DEF FrameOwns
<1>5. ASSUME NEW m \in Messages
      PROVE  Cardinality(Running(m)) = IF status[m] = "running" THEN 1 ELSE 0
  <2>1. CASE status[m] = "running"
    <3>1. PICK t \in Threads : \E i \in 1..Len(loops[t]) : loops[t][i].msg = m
      BY <2>1 DEF Owners, LoopersOwn
    <3>2. PICK i \in 1..Len(loops[t]) : loops[t][i].msg = m
      BY <3>1
    <3>3. <<t, i>> \in Running(m)
      BY <1>3, <2>1, <3>2 DEF Running
    <3>4. ASSUME NEW c \in Running(m)
          PROVE  c = <<t, i>>
      <4>1. /\ c \in LoopCalls /\ c[1] \in Threads /\ c[2] \in 1..Len(loops[c[1]])
            /\ loops[c[1]][c[2]].msg = m
        BY <1>2, <1>4
      <4>2. c[1] = t /\ c[2] = i
        BY <3>2, <4>1, MessageQueueAssumption DEF Owners, LoopersOwn
      <4> QED BY <4>1, <4>2 DEF LoopCalls
    <3>5. Running(m) = {<<t, i>>}
      BY <3>3, <3>4
    <3> QED BY <2>1, <3>5, FS_Singleton
  <2>2. CASE status[m] # "running"
    <3>1. Running(m) = {}
      BY <1>4, <2>2
    <3> QED BY <2>2, <3>1, FS_EmptySet
  <2> QED BY <2>1, <2>2
<1> QED BY <1>1, <1>5 DEF OneOwner, Owners, QueueOwns

(* Every message has one owner, whoever posts, runs, removes or clears     *)
(* messages at the same time: nothing is handled or released twice.        *)
THEOREM MessagesHaveOneOwner == Spec => []OneOwner
<1>1. Init => Typed /\ Counted /\ IdleHands /\ Owners
  BY TypedInit, CountedInit, IdleHandsInit, OwnersInit
<1>2. Typed /\ Counted /\ IdleHands /\ Owners /\ [Next]_vars
        => (Typed /\ Counted /\ IdleHands /\ Owners)'
  BY TypedNext, CountedNext, IdleHandsNext, OwnersNext
<1>3. Typed /\ Counted /\ IdleHands /\ Owners => OneOwner
  BY OwnersAreOne DEF Counted
<1> QED BY <1>1, <1>2, <1>3, PTL DEF Spec

-----------------------------------------------------------------------------
(* The order of the deque                                                  *)

LEMMA SortedUndisturbed ==
  ASSUME Typed, QueueSorted, UNCHANGED queue,
         UNCHANGED due \/ \A m \in ToSet(queue) : due'[m] = due[m]
  PROVE  QueueSorted'
<1>1. \A i \in 1..Len(queue) : queue[i] \in ToSet(queue)
  BY DEF ToSet, Typed, TypeOK
<1> QED BY <1>1 DEF QueueSorted, Sorted, Before, Typed, TypeOK

LEMMA SortedInit == Init => QueueSorted
BY DEF Init, QueueSorted, Sorted

LEMMA SortedNext == Typed /\ Owners /\ QueueSorted /\ [Next]_vars => QueueSorted'
<1> SUFFICES ASSUME Typed, Owners, QueueSorted, [Next]_vars
             PROVE  QueueSorted'
  OBVIOUS
<1>0. /\ Typed /\ Owners /\ QueueSorted
      /\ queue \in Seq(Messages) /\ due \in [Messages -> Int] /\ Priority \in [Messages -> Int]
  BY MessageQueueAssumption DEF Typed, TypeOK
<1>1. ASSUME NEW t \in Threads, Continue(t)
      PROVE  QueueSorted'
  <2>1. CASE PostSleep(t)
    BY <2>1, <1>0, SortedUndisturbed DEF PostSleep, sharedVars, historyVars
  <2>2. CASE PostRefused(t)
    BY <2>2, <1>0, SortedUndisturbed DEF PostRefused, sharedVars
  <2>3. CASE PostInsert(t)
    <3>1. UNCHANGED due /\ queue' = Insert(queue, due, Priority, posting[t]) /\ pc[t] = "post"
      BY <2>3 DEF PostInsert
    <3>2. posting[t] \in Messages
      BY <1>0, <3>1 DEF Typed, Control, PostersHaveMessages
    <3>3. Sorted(Insert(queue, due, Priority, posting[t]), due, Priority)
      BY <1>0, <3>2, InsertKeepsSorted DEF QueueSorted
    <3> QED BY <3>1, <3>3 DEF QueueSorted
  <2>4. CASE PostNotify(t)
    BY <2>4, <1>0, SortedUndisturbed DEF PostNotify, NotifyNotEmpty, NotifyAll, sharedVars, historyVars
  <2>5. CASE LoopCount(t)
    BY <2>5, <1>0, SortedUndisturbed DEF LoopCount, sharedVars, historyVars
  <2>6. CASE AwaitQuitNow(t)
    BY <2>6, <1>0, SortedUndisturbed DEF AwaitQuitNow, Quit, historyVars
  <2>7. CASE AwaitQuitNoDue(t)
    BY <2>7, <1>0, SortedUndisturbed DEF AwaitQuitNoDue, GoesOn, Quit, historyVars
  <2>8. CASE AwaitSleep(t)
    BY <2>8, <1>0, SortedUndisturbed DEF AwaitSleep, GoesOn, sharedVars, historyVars
  <2>9. CASE AwaitPop(t)
    <3>1. UNCHANGED due /\ queue' = Tail(queue) /\ queue # << >>
      BY <2>9 DEF AwaitPop, HasDueMessageLocked
    <3>2. Sorted(Tail(queue), due, Priority)
      BY <1>0, <3>1, TailKeepsSorted DEF QueueSorted
    <3> QED BY <3>1, <3>2 DEF QueueSorted
  <2>10. CASE StartHandler(t)
    BY <2>10, <1>0, SortedUndisturbed DEF StartHandler, NotifyNotFull, NotifyAll, sharedVars, historyVars
  <2>11. CASE LoopQuit(t)
    BY <2>11, <1>0, SortedUndisturbed DEF LoopQuit, historyVars
  <2>12. CASE QuitNotify(t)
    BY <2>12, <1>0, SortedUndisturbed DEF QuitNotify, NotifyWorkerQuit, NotifyAll, sharedVars, historyVars
  <2>13. CASE RemoveNotify(t)
    BY <2>13, <1>0, SortedUndisturbed DEF RemoveNotify, NotifyNotFull, NotifyAll, sharedVars, historyVars
  <2>14. CASE WakePosters(t)
    BY <2>14, <1>0, SortedUndisturbed DEF WakePosters, NotifyNotFull, NotifyAll, sharedVars, historyVars
  <2>15. CASE WakeLoopers(t)
    BY <2>15, <1>0, SortedUndisturbed DEF WakeLoopers, NotifyNotEmpty, NotifyAll, sharedVars, historyVars
  <2>16. CASE AwaitReturn(t)
    BY <2>16, <1>0, SortedUndisturbed DEF AwaitReturn, sharedVars, historyVars
  <2>17. CASE AwaitQuitSleep(t)
    BY <2>17, <1>0, SortedUndisturbed DEF AwaitQuitSleep, sharedVars, historyVars
  <2>18. CASE WaitTimeout(t)
    BY <2>18, <1>0, SortedUndisturbed DEF WaitTimeout, WakeAlone, sharedVars, historyVars
  <2> QED BY <1>1, <2>1, <2>2, <2>3, <2>4, <2>5, <2>6, <2>7, <2>8, <2>9, <2>10, <2>11, <2>12,
             <2>13, <2>14, <2>15, <2>16, <2>17, <2>18 DEF Continue
<1>2. ASSUME NEW t \in Threads, Call(t)
      PROVE  QueueSorted'
  <2>1. CASE \E m \in Messages, d \in Delays : PostMessage(t, m, d)
    <3>1. PICK m \in Messages, d \in Delays : PostMessage(t, m, d)
      BY <2>1
    <3>2. status[m] = "fresh" /\ UNCHANGED queue /\ due' = [due EXCEPT ![m] = now + d]
      BY <3>1 DEF PostMessage
    <3>3. m \notin ToSet(queue)
      BY <1>0, <3>2 DEF Owners, QueueOwns
    <3>4. \A n \in ToSet(queue) : due'[n] = due[n]
      BY <1>0, <3>2, <3>3
    <3> QED BY <1>0, <3>2, <3>4, SortedUndisturbed
  <2>2. CASE LoopQueue(t) \/ LoopQueueOnce(t)
    BY <1>0, <2>2, SortedUndisturbed DEF LoopQueue, LoopQueueOnce, Enter
  <2>3. CASE \E S \in SUBSET ToSet(queue) : RemoveMessageIf(t, S)
    <3>1. PICK S \in SUBSET ToSet(queue) : RemoveMessageIf(t, S)
      BY <2>3
    <3>2. UNCHANGED due /\ queue' = Erase(queue, S)
      BY <3>1 DEF RemoveMessageIf, Erased
    <3>3. Sorted(Erase(queue, S), due, Priority)
      BY <1>0, EraseKeepsSorted DEF QueueSorted
    <3> QED BY <3>2, <3>3 DEF QueueSorted
  <2>4. CASE Interrupt(t)
    BY <2>4, <1>0, SortedUndisturbed DEF Interrupt, historyVars
  <2>5. CASE \E await \in BOOLEAN : ShutdownNow(t, await)
    <3>1. queue' = << >>
      BY <2>5 DEF ShutdownNow
    <3> QED BY <3>1 DEF QueueSorted, Sorted
  <2>6. CASE \E await \in BOOLEAN : Shutdown(t, await)
    BY <1>0, <2>6, SortedUndisturbed DEF Shutdown, AskShutdown
  <2>7. CASE AwaitTermination(t)
    BY <2>7, <1>0, SortedUndisturbed DEF AwaitTermination, sharedVars, historyVars
  <2> QED BY <1>2, <2>1, <2>2, <2>3, <2>4, <2>5, <2>6, <2>7 DEF Call
<1>3. ASSUME NEW t \in Threads, EndHandler(t)
      PROVE  QueueSorted'
  BY <1>3, <1>0, SortedUndisturbed DEF EndHandler, sharedVars
<1>4. ASSUME NEW t \in Threads, ThrowHandler(t)
      PROVE  QueueSorted'
  BY <1>4, <1>0, SortedUndisturbed DEF ThrowHandler, sharedVars
<1>5. ASSUME NEW t \in Threads, SpuriousWakeup(t)
      PROVE  QueueSorted'
  BY <1>5, <1>0, SortedUndisturbed DEF SpuriousWakeup, WakeAlone, sharedVars, historyVars
<1>6. CASE Tick
  BY <1>6, <1>0, SortedUndisturbed DEF Tick, sharedVars, threadVars, historyVars
<1>7. CASE UNCHANGED vars
  BY <1>7, <1>0, SortedUndisturbed DEF vars, sharedVars, threadVars, historyVars
<1> QED BY <1>1, <1>2, <1>3, <1>4, <1>5, <1>6, <1>7 DEF Next

(* The deque is sorted whatever the order in which the posters get the     *)
(* mutex, and whatever is removed meanwhile.                               *)
THEOREM DequeIsSorted == Spec => []QueueSorted
<1>1. Init => Typed /\ IdleHands /\ Owners /\ QueueSorted
  BY TypedInit, IdleHandsInit, OwnersInit, SortedInit
<1>2. Typed /\ IdleHands /\ Owners /\ QueueSorted /\ [Next]_vars
        => (Typed /\ IdleHands /\ Owners /\ QueueSorted)'
  BY TypedNext, IdleHandsNext, OwnersNext, SortedNext
<1> QED BY <1>1, <1>2, PTL DEF Spec

-----------------------------------------------------------------------------
(* Wake-ups                                                                *)

LEMMA AwaitersNext == Typed /\ Counted /\ NoAwaiterForgotten /\ [Next]_vars => NoAwaiterForgotten'
<1> SUFFICES ASSUME Typed, Counted, NoAwaiterForgotten, [Next]_vars
             PROVE  NoAwaiterForgotten'
  OBVIOUS
<1> USE DEF NoAwaiterForgotten
<1>0. pc \in [Threads -> PCs] /\ workerCount_ \in Nat
  BY CallsAreFinite DEF Typed, TypeOK, Counted, WorkerCountExact
<1>1. ASSUME NEW t \in Threads, Continue(t)
      PROVE  NoAwaiterForgotten'
  <2>0. Caller(t) \in {"outside", "handler"}
    BY DEF Caller
  <2>1. CASE PostSleep(t)
    BY <2>1, <1>0 DEF PostSleep, Goto, sharedVars, historyVars
  <2>2. CASE PostRefused(t)
    BY <2>0, <2>2, <1>0 DEF PostRefused, Goto, sharedVars
  <2>3. CASE PostInsert(t)
    BY <2>3, <1>0 DEF PostInsert, Goto
  <2>4. CASE PostNotify(t)
    BY <2>0, <2>4, <1>0 DEF PostNotify, NotifyNotEmpty, NotifyAll, sharedVars, historyVars
  <2>5. CASE LoopCount(t)
    BY <2>5, <1>0 DEF LoopCount, Goto, sharedVars, historyVars
  <2>6. CASE AwaitQuitNow(t)
    BY <2>6, <1>0 DEF AwaitQuitNow, Quit, Goto, historyVars
  <2>7. CASE AwaitQuitNoDue(t)
    BY <2>7, <1>0 DEF AwaitQuitNoDue, GoesOn, Quit, Goto, historyVars
  <2>8. CASE AwaitSleep(t)
    BY <2>8, <1>0 DEF AwaitSleep, GoesOn, Goto, sharedVars, historyVars
  <2>9. CASE AwaitPop(t)
    BY <2>9, <1>0 DEF AwaitPop, GoesOn, Goto
  <2>10. CASE StartHandler(t)
    BY <2>10, <1>0 DEF StartHandler, NotifyNotFull, NotifyAll, sharedVars, historyVars
  <2>11. CASE LoopQuit(t)
    BY <2>11, <1>0 DEF LoopQuit, Goto, historyVars
  <2>12. CASE QuitNotify(t)
    BY <2>0, <2>12, <1>0 DEF QuitNotify, NotifyWorkerQuit, NotifyAll, sharedVars, historyVars
  <2>13. CASE RemoveNotify(t)
    BY <2>0, <2>13, <1>0 DEF RemoveNotify, NotifyNotFull, NotifyAll, sharedVars, historyVars
  <2>14. CASE WakePosters(t)
    BY <2>14, <1>0 DEF WakePosters, NotifyNotFull, NotifyAll, sharedVars, historyVars
  <2>15. CASE WakeLoopers(t)
    BY <2>0, <2>15, <1>0 DEF WakeLoopers, NotifyNotEmpty, NotifyAll, sharedVars, historyVars
  <2>16. CASE AwaitReturn(t)
    BY <2>0, <2>16, <1>0 DEF AwaitReturn, Goto, sharedVars, historyVars
  <2>17. CASE AwaitQuitSleep(t)
    BY <2>17, <1>0 DEF AwaitQuitSleep, Goto, sharedVars, historyVars
  <2>18. CASE WaitTimeout(t)
    BY <2>18, <1>0 DEF WaitTimeout, WakeAlone, Goto, sharedVars, historyVars
  <2> QED BY <1>1, <2>1, <2>2, <2>3, <2>4, <2>5, <2>6, <2>7, <2>8, <2>9, <2>10, <2>11, <2>12,
             <2>13, <2>14, <2>15, <2>16, <2>17, <2>18 DEF Continue
<1>2. ASSUME NEW t \in Threads, Call(t)
      PROVE  NoAwaiterForgotten'
  <2>1. CASE \E m \in Messages, d \in Delays : PostMessage(t, m, d)
    <3>1. PICK m \in Messages, d \in Delays : PostMessage(t, m, d)
      BY <2>1
    <3> QED BY <1>0, <3>1 DEF PostMessage, MayCall, Goto
  <2>2. CASE LoopQueue(t) \/ LoopQueueOnce(t)
    <3>1. PICK type \in LoopTypes, first \in {"await", "count"} :
            Enter(t, type, first) /\ pc[t] \in {"outside", "handler"}
      BY <2>2 DEF LoopQueue, LoopQueueOnce, LoopTypes, MayCall
    <3>2. workerCount_' # 0
      BY <1>0, <3>1 DEF Enter, WorkersEntered
    <3> QED BY <3>2
  <2>3. CASE \E S \in SUBSET ToSet(queue) : RemoveMessageIf(t, S)
    <3>1. PICK S \in SUBSET ToSet(queue) : RemoveMessageIf(t, S)
      BY <2>3
    <3> QED BY <1>0, <3>1 DEF RemoveMessageIf, MayCall, Goto
  <2>4. CASE Interrupt(t)
    BY <2>4, <1>0 DEF Interrupt, Goto, historyVars, MayCall
  <2>5. CASE \E await \in BOOLEAN : ShutdownNow(t, await)
    <3>1. PICK await \in BOOLEAN : ShutdownNow(t, await)
      BY <2>5
    <3> QED BY <1>0, <3>1 DEF ShutdownNow, AskShutdown, MayCall, Goto
  <2>6. CASE \E await \in BOOLEAN : Shutdown(t, await)
    <3>1. PICK await \in BOOLEAN : Shutdown(t, await)
      BY <2>6
    <3> QED BY <1>0, <3>1 DEF Shutdown, AskShutdown, MayCall, Goto
  <2>7. CASE AwaitTermination(t)
    BY <2>7, <1>0 DEF AwaitTermination, Goto, sharedVars, historyVars, MayCall
  <2> QED BY <1>2, <2>1, <2>2, <2>3, <2>4, <2>5, <2>6, <2>7 DEF Call
<1>3. ASSUME NEW t \in Threads, EndHandler(t)
      PROVE  NoAwaiterForgotten'
  BY <1>3, <1>0 DEF EndHandler, Goto, sharedVars
<1>4. ASSUME NEW t \in Threads, ThrowHandler(t)
      PROVE  NoAwaiterForgotten'
  BY <1>4, <1>0 DEF ThrowHandler, Goto, sharedVars
<1>5. ASSUME NEW t \in Threads, SpuriousWakeup(t)
      PROVE  NoAwaiterForgotten'
  <2>1. CASE pc[t] = "sleepNotEmpty"
    BY <1>0, <1>5, <2>1 DEF SpuriousWakeup, WakeAlone, Goto, sharedVars, historyVars
  <2>2. CASE pc[t] = "sleepNotFull"
    BY <1>0, <1>5, <2>2 DEF SpuriousWakeup, WakeAlone, Goto, sharedVars, historyVars
  <2>3. CASE pc[t] = "sleepQuit"
    BY <1>0, <1>5, <2>3 DEF SpuriousWakeup, WakeAlone, Goto, sharedVars, historyVars
  <2> QED BY <1>5, <2>1, <2>2, <2>3 DEF SpuriousWakeup, Asleep
<1>6. CASE Tick
  BY <1>6, <1>0 DEF Tick, sharedVars, threadVars, historyVars
<1>7. CASE UNCHANGED vars
  BY <1>7, <1>0 DEF vars, sharedVars, threadVars, historyVars
<1> QED BY <1>1, <1>2, <1>3, <1>4, <1>5, <1>6, <1>7 DEF Next

(* A step after which t sleeps only if it slept before, with no more to    *)
(* wake up for.                                                            *)
StaysAsleep(t) == pc[t] = "sleepNotEmpty" /\ (LooperHasWork(t)' => LooperHasWork(t))

LEMMA SleepersStay ==
  ASSUME NoLooperForgotten,
         \A t \in Threads : pc'[t] = "sleepNotEmpty" => StaysAsleep(t),
         \A t \in Threads : pc[t] \in NotifiesNotEmpty => pc'[t] \in NotifiesNotEmpty
  PROVE  NoLooperForgotten'
BY DEF NoLooperForgotten, StaysAsleep

(* Nothing is due earlier than before.                                     *)
HeadNotEarlier ==
  queue' # << >> => queue # << >> /\ due[Head(queue)] <= due'[Head(queue')]

LEMMA HeadIsMember ==
  ASSUME NEW q \in Seq(Messages), q # << >>
  PROVE  Head(q) \in Messages /\ Head(q) \in ToSet(q)
<1>1. 1 \in 1..Len(q) /\ Head(q) = q[1]
  OBVIOUS
<1> QED BY <1>1 DEF ToSet

LEMMA FewerIsLater ==
  ASSUME Typed, QueueSorted, UNCHANGED due,
         queue' \in Seq(Messages), ToSet(queue') \subseteq ToSet(queue)
  PROVE  HeadNotEarlier
<1> SUFFICES ASSUME queue' # << >>
             PROVE  queue # << >> /\ due[Head(queue)] <= due'[Head(queue')]
  BY DEF HeadNotEarlier
<1>1. queue \in Seq(Messages) /\ due \in [Messages -> Nat]
  BY DEF Typed, TypeOK
<1>2. Head(queue') \in Messages /\ Head(queue') \in ToSet(queue)
  BY HeadIsMember
<1>3. queue # << >>
  BY <1>2 DEF ToSet
<1>4. Head(queue) \in Messages
  BY <1>1, <1>3, HeadIsMember
<1>5. Head(queue') # Head(queue) => ~Before(due, Priority, Head(queue'), Head(queue))
  BY <1>1, <1>2, HeadIsFirst DEF QueueSorted
<1> QED BY <1>1, <1>2, <1>3, <1>4, <1>5 DEF Before

LEMMA LaterKeepsAsleep ==
  ASSUME Typed, HeadNotEarlier, UNCHANGED <<shutdown_, interrupt_, deadline>>,
         due' \in [Messages -> Nat], queue' \in Seq(Messages),
         NEW t \in Threads, pc[t] = "sleepNotEmpty"
  PROVE  StaysAsleep(t)
<1>1. /\ due \in [Messages -> Nat] /\ queue \in Seq(Messages)
      /\ deadline \in [Threads -> Nat \cup {NoDeadline}]
  BY DEF Typed, TypeOK
<1>2. queue' # << >> => /\ queue # << >> /\ due[Head(queue)] <= due'[Head(queue')]
                        /\ due[Head(queue)] \in Nat /\ due'[Head(queue')] \in Nat
  BY <1>1, HeadIsMember DEF HeadNotEarlier
<1>3. deadline[t] # NoDeadline => deadline[t] \in Nat
  BY <1>1
<1> QED BY <1>2, <1>3 DEF StaysAsleep, LooperHasWork

LEMMA SleepersNext == Typed /\ Owners /\ QueueSorted /\ NoLooperForgotten /\ [Next]_vars => NoLooperForgotten'
<1> SUFFICES ASSUME Typed, Owners, QueueSorted, NoLooperForgotten, [Next]_vars
             PROVE  NoLooperForgotten'
  OBVIOUS
<1>0. /\ Typed /\ Owners /\ QueueSorted /\ NoLooperForgotten
      /\ pc \in [Threads -> PCs] /\ queue \in Seq(Messages)
      /\ due \in [Messages -> Nat] /\ deadline \in [Threads -> Nat \cup {NoDeadline}]
  BY DEF Typed, TypeOK
<1>1. ASSUME NEW t \in Threads, Continue(t)
      PROVE  NoLooperForgotten'
  <2>0. Caller(t) \in {"outside", "handler"}
    BY DEF Caller
  <2>1. CASE PostSleep(t)
    <3>1. /\ \A u \in Threads : pc'[u] = "sleepNotEmpty" => StaysAsleep(u)
          /\ \A u \in Threads : pc[u] \in NotifiesNotEmpty => pc'[u] \in NotifiesNotEmpty
      BY <1>0, <2>1 DEF PostSleep, Goto, sharedVars, historyVars, StaysAsleep, LooperHasWork, NotifiesNotEmpty
    <3> QED BY <1>0, <3>1, SleepersStay
  <2>2. CASE PostRefused(t)
    <3>1. /\ \A u \in Threads : pc'[u] = "sleepNotEmpty" => StaysAsleep(u)
          /\ \A u \in Threads : pc[u] \in NotifiesNotEmpty => pc'[u] \in NotifiesNotEmpty
      BY <1>0, <2>0, <2>2 DEF PostRefused, Goto, sharedVars, StaysAsleep, LooperHasWork, NotifiesNotEmpty
    <3> QED BY <1>0, <3>1, SleepersStay
  <2>3. CASE PostInsert(t)
    <3>1. pc'[t] \in NotifiesNotEmpty
      BY <1>0, <2>3 DEF PostInsert, Goto, NotifiesNotEmpty
    <3> QED BY <3>1 DEF NoLooperForgotten
  <2>4. CASE PostNotify(t)
    <3>1. \A u \in Threads : pc'[u] # "sleepNotEmpty"
      BY <1>0, <2>0, <2>4 DEF PostNotify, NotifyNotEmpty, NotifyAll
    <3> QED BY <3>1 DEF NoLooperForgotten
  <2>5. CASE LoopCount(t)
    <3>1. /\ \A u \in Threads : pc'[u] = "sleepNotEmpty" => StaysAsleep(u)
          /\ \A u \in Threads : pc[u] \in NotifiesNotEmpty => pc'[u] \in NotifiesNotEmpty
      BY <1>0, <2>5 DEF LoopCount, Goto, sharedVars, historyVars, StaysAsleep, LooperHasWork, NotifiesNotEmpty
    <3> QED BY <1>0, <3>1, SleepersStay
  <2>6. CASE AwaitQuitNow(t)
    <3>1. /\ \A u \in Threads : pc'[u] = "sleepNotEmpty" => StaysAsleep(u)
          /\ \A u \in Threads : pc[u] \in NotifiesNotEmpty => pc'[u] \in NotifiesNotEmpty
      BY <1>0, <2>6 DEF AwaitQuitNow, Quit, Goto, historyVars, StaysAsleep, LooperHasWork, NotifiesNotEmpty
    <3> QED BY <1>0, <3>1, SleepersStay
  <2>7. CASE AwaitQuitNoDue(t)
    <3>1. /\ pc[t] = "await" /\ pc' = [pc EXCEPT ![t] = "quit"]
          /\ UNCHANGED <<queue, due, interrupt_, deadline>>
          /\ UNCHANGED shutdown_ \/ (shutdown_ = "kAwaitQueue" /\ queue = << >>)
      BY <2>7 DEF AwaitQuitNoDue, GoesOn, Quit, Goto, Drained
    <3>2. /\ \A u \in Threads : pc'[u] = "sleepNotEmpty" => StaysAsleep(u)
          /\ \A u \in Threads : pc[u] \in NotifiesNotEmpty => pc'[u] \in NotifiesNotEmpty
      BY <1>0, <3>1 DEF StaysAsleep, LooperHasWork, NotifiesNotEmpty
    <3> QED BY <1>0, <3>2, SleepersStay
  <2>8. CASE AwaitSleep(t)
    <3>1. /\ pc[t] = "await" /\ pc' = [pc EXCEPT ![t] = "sleepNotEmpty"]
          /\ deadline' = [deadline EXCEPT ![t] = SleepUntil]
          /\ shutdown_ # "kNow" /\ ~interrupt_ /\ ~Drained
          /\ UNCHANGED <<queue, due, shutdown_, interrupt_>>
      BY <2>8 DEF AwaitSleep, GoesOn, QuitsWhenNoDue, Goto, sharedVars
    <3>2. ~LooperHasWork(t)'
      <4>1. deadline'[t] = SleepUntil
        BY <1>0, <3>1
      <4>2. CASE queue = << >>
        <5>1. shutdown_ = "kNone"
          BY <3>1, <4>2, <1>0 DEF Drained, Typed, TypeOK
        <5> QED BY <3>1, <4>1, <4>2, <5>1 DEF LooperHasWork, SleepUntil, NoDeadline
      <4>3. CASE queue # << >>
        <5>1. Head(queue) \in Messages
          BY <1>0, <4>3
        <5>2. due[Head(queue)] \in Nat
          BY <1>0, <5>1
        <5> QED BY <3>1, <4>1, <4>3, <5>2 DEF LooperHasWork, SleepUntil, NoDeadline
      <4> QED BY <4>2, <4>3
    <3>3. \A u \in Threads : u # t =>
            pc'[u] = pc[u] /\ (LooperHasWork(u)' => LooperHasWork(u))
      BY <1>0, <3>1 DEF LooperHasWork
    <3> QED BY <1>0, <3>1, <3>2, <3>3 DEF NoLooperForgotten, NotifiesNotEmpty
  <2>9. CASE AwaitPop(t)
    <3>1. /\ pc[t] = "await" /\ pc' = [pc EXCEPT ![t] = "popped"]
          /\ UNCHANGED <<due, shutdown_, interrupt_, deadline>>
          /\ queue # << >> /\ queue' = Tail(queue)
      BY <2>9 DEF AwaitPop, GoesOn, HasDueMessageLocked, Goto
    <3>2. ToSet(queue') \subseteq ToSet(queue) /\ queue' \in Seq(Messages)
      BY <1>0, <3>1, TailRemovesHead DEF Owners, QueueOwns
    <3>3. HeadNotEarlier
      BY <1>0, <3>1, <3>2, FewerIsLater
    <3>4. /\ \A u \in Threads : pc'[u] = "sleepNotEmpty" => StaysAsleep(u)
          /\ \A u \in Threads : pc[u] \in NotifiesNotEmpty => pc'[u] \in NotifiesNotEmpty
      <4>1. \A u \in Threads : pc'[u] = "sleepNotEmpty" => pc[u] = "sleepNotEmpty"
        BY <1>0, <3>1
      <4>2. due' \in [Messages -> Nat]
        BY <1>0, <3>1
      <4>3. \A u \in Threads : pc[u] = "sleepNotEmpty" => StaysAsleep(u)
        BY <1>0, <3>1, <3>2, <3>3, <4>2, LaterKeepsAsleep
      <4> QED BY <1>0, <3>1, <4>1, <4>3 DEF NotifiesNotEmpty
    <3> QED BY <1>0, <3>4, SleepersStay
  <2>10. CASE StartHandler(t)
    <3>1. /\ \A u \in Threads : pc'[u] = "sleepNotEmpty" => StaysAsleep(u)
          /\ \A u \in Threads : pc[u] \in NotifiesNotEmpty => pc'[u] \in NotifiesNotEmpty
      BY <1>0, <2>10 DEF StartHandler, NotifyNotFull, NotifyAll, sharedVars, historyVars, StaysAsleep, LooperHasWork, NotifiesNotEmpty
    <3> QED BY <1>0, <3>1, SleepersStay
  <2>11. CASE LoopQuit(t)
    <3>1. /\ \A u \in Threads : pc'[u] = "sleepNotEmpty" => StaysAsleep(u)
          /\ \A u \in Threads : pc[u] \in NotifiesNotEmpty => pc'[u] \in NotifiesNotEmpty
      BY <1>0, <2>11 DEF LoopQuit, Goto, historyVars, StaysAsleep, LooperHasWork, NotifiesNotEmpty
    <3> QED BY <1>0, <3>1, SleepersStay
  <2>12. CASE QuitNotify(t)
    <3>1. /\ \A u \in Threads : pc'[u] = "sleepNotEmpty" => StaysAsleep(u)
          /\ \A u \in Threads : pc[u] \in NotifiesNotEmpty => pc'[u] \in NotifiesNotEmpty
      BY <1>0, <2>0, <2>12 DEF QuitNotify, NotifyWorkerQuit, NotifyAll, sharedVars, historyVars, StaysAsleep, LooperHasWork, NotifiesNotEmpty
    <3> QED BY <1>0, <3>1, SleepersStay
  <2>13. CASE RemoveNotify(t)
    <3>1. /\ \A u \in Threads : pc'[u] = "sleepNotEmpty" => StaysAsleep(u)
          /\ \A u \in Threads : pc[u] \in NotifiesNotEmpty => pc'[u] \in NotifiesNotEmpty
      BY <1>0, <2>0, <2>13 DEF RemoveNotify, NotifyNotFull, NotifyAll, sharedVars, historyVars, StaysAsleep, LooperHasWork, NotifiesNotEmpty
    <3> QED BY <1>0, <3>1, SleepersStay
  <2>14. CASE WakePosters(t)
    <3>1. pc'[t] \in NotifiesNotEmpty
      BY <1>0, <2>14 DEF WakePosters, NotifyNotFull, NotifyAll, NotifiesNotEmpty
    <3> QED BY <3>1 DEF NoLooperForgotten
  <2>15. CASE WakeLoopers(t)
    <3>1. \A u \in Threads : pc'[u] # "sleepNotEmpty"
      BY <1>0, <2>0, <2>15 DEF WakeLoopers, NotifyNotEmpty, NotifyAll
    <3> QED BY <3>1 DEF NoLooperForgotten
  <2>16. CASE AwaitReturn(t)
    <3>1. /\ \A u \in Threads : pc'[u] = "sleepNotEmpty" => StaysAsleep(u)
          /\ \A u \in Threads : pc[u] \in NotifiesNotEmpty => pc'[u] \in NotifiesNotEmpty
      BY <1>0, <2>0, <2>16 DEF AwaitReturn, Goto, sharedVars, historyVars, StaysAsleep, LooperHasWork, NotifiesNotEmpty
    <3> QED BY <1>0, <3>1, SleepersStay
  <2>17. CASE AwaitQuitSleep(t)
    <3>1. /\ \A u \in Threads : pc'[u] = "sleepNotEmpty" => StaysAsleep(u)
          /\ \A u \in Threads : pc[u] \in NotifiesNotEmpty => pc'[u] \in NotifiesNotEmpty
      BY <1>0, <2>17 DEF AwaitQuitSleep, Goto, sharedVars, historyVars, StaysAsleep, LooperHasWork, NotifiesNotEmpty
    <3> QED BY <1>0, <3>1, SleepersStay
  <2>18. CASE WaitTimeout(t)
    <3>1. /\ \A u \in Threads : pc'[u] = "sleepNotEmpty" => StaysAsleep(u)
          /\ \A u \in Threads : pc[u] \in NotifiesNotEmpty => pc'[u] \in NotifiesNotEmpty
      BY <1>0, <2>18 DEF WaitTimeout, WakeAlone, Goto, sharedVars, historyVars, StaysAsleep, LooperHasWork, NotifiesNotEmpty
    <3> QED BY <1>0, <3>1, SleepersStay
  <2> QED BY <1>1, <2>1, <2>2, <2>3, <2>4, <2>5, <2>6, <2>7, <2>8, <2>9, <2>10, <2>11, <2>12,
             <2>13, <2>14, <2>15, <2>16, <2>17, <2>18 DEF Continue
<1>2. ASSUME NEW t \in Threads, Call(t)
      PROVE  NoLooperForgotten'
  <2>1. CASE \E m \in Messages, d \in Delays : PostMessage(t, m, d)
    <3>1. PICK m \in Messages, d \in Delays : PostMessage(t, m, d)
      BY <2>1
    <3>2. /\ pc[t] \in {"outside", "handler"} /\ pc' = [pc EXCEPT ![t] = "post"]
          /\ UNCHANGED <<queue, shutdown_, interrupt_, deadline>>
          /\ due' = [due EXCEPT ![m] = now + d] /\ status[m] = "fresh"
      BY <3>1 DEF PostMessage, MayCall, Goto
    <3>3. HeadNotEarlier
      <4>1. queue # << >> => Head(queue) \in Messages /\ Head(queue) \in ToSet(queue)
        BY <1>0, HeadIsMember
      <4>2. queue # << >> => Head(queue) # m
        BY <1>0, <3>2, <4>1 DEF Owners, QueueOwns
      <4>3. queue # << >> => due'[Head(queue)] = due[Head(queue)] /\ due[Head(queue)] \in Nat
        BY <1>0, <3>2, <4>1, <4>2
      <4> QED BY <3>2, <4>3 DEF HeadNotEarlier
    <3>4. /\ \A u \in Threads : pc'[u] = "sleepNotEmpty" => StaysAsleep(u)
          /\ \A u \in Threads : pc[u] \in NotifiesNotEmpty => pc'[u] \in NotifiesNotEmpty
      <4>1. \A u \in Threads : pc'[u] = "sleepNotEmpty" => pc[u] = "sleepNotEmpty"
        BY <1>0, <3>2
      <4>2. due' \in [Messages -> Nat] /\ queue' \in Seq(Messages)
        <5>1. now + d \in Nat
          BY <1>0, MessageQueueAssumption DEF Typed, TypeOK
        <5> QED BY <1>0, <3>2, <5>1
      <4>3. \A u \in Threads : pc[u] = "sleepNotEmpty" => StaysAsleep(u)
        BY <1>0, <3>2, <3>3, <4>2, LaterKeepsAsleep
      <4> QED BY <1>0, <3>2, <4>1, <4>3 DEF NotifiesNotEmpty
    <3> QED BY <1>0, <3>4, SleepersStay
  <2>2. CASE LoopQueue(t) \/ LoopQueueOnce(t)
    <3>1. PICK type \in LoopTypes, first \in {"await", "count"} :
            Enter(t, type, first) /\ pc[t] \in {"outside", "handler"}
      BY <2>2 DEF LoopQueue, LoopQueueOnce, LoopTypes, MayCall
    <3>2. /\ \A u \in Threads : pc'[u] = "sleepNotEmpty" => StaysAsleep(u)
          /\ \A u \in Threads : pc[u] \in NotifiesNotEmpty => pc'[u] \in NotifiesNotEmpty
      BY <1>0, <3>1 DEF Enter, Goto, StaysAsleep, LooperHasWork, NotifiesNotEmpty
    <3> QED BY <1>0, <3>2, SleepersStay
  <2>3. CASE \E S \in SUBSET ToSet(queue) : RemoveMessageIf(t, S)
    <3>1. PICK S \in SUBSET ToSet(queue) : RemoveMessageIf(t, S)
      BY <2>3
    <3>2. /\ pc[t] \in {"outside", "handler"} /\ pc' = [pc EXCEPT ![t] = "removeNotify"]
          /\ UNCHANGED <<due, shutdown_, interrupt_, deadline>>
          /\ queue' = Erase(queue, S)
      BY <3>1 DEF RemoveMessageIf, Erased, MayCall, Goto
    <3>3. ToSet(queue') \subseteq ToSet(queue) /\ queue' \in Seq(Messages)
      <4>1. ToSet(Erase(queue, S)) = ToSet(queue) \ S /\ Erase(queue, S) \in Seq(Messages)
        BY <1>0, EraseRemoves, EraseType
      <4> QED BY <3>2, <4>1
    <3>4. HeadNotEarlier
      BY <1>0, <3>2, <3>3, FewerIsLater
    <3>5. /\ \A u \in Threads : pc'[u] = "sleepNotEmpty" => StaysAsleep(u)
          /\ \A u \in Threads : pc[u] \in NotifiesNotEmpty => pc'[u] \in NotifiesNotEmpty
      <4>1. \A u \in Threads : pc'[u] = "sleepNotEmpty" => pc[u] = "sleepNotEmpty"
        BY <1>0, <3>2
      <4>2. due' \in [Messages -> Nat] /\ queue' \in Seq(Messages)
        BY <1>0, <3>2, <3>3
      <4>3. \A u \in Threads : pc[u] = "sleepNotEmpty" => StaysAsleep(u)
        BY <1>0, <3>2, <3>4, <4>2, LaterKeepsAsleep
      <4> QED BY <1>0, <3>2, <4>1, <4>3 DEF NotifiesNotEmpty
    <3> QED BY <1>0, <3>5, SleepersStay
  <2>4. CASE Interrupt(t)
    <3>1. pc'[t] \in NotifiesNotEmpty
      BY <1>0, <2>4 DEF Interrupt, Goto, MayCall, NotifiesNotEmpty
    <3> QED BY <3>1 DEF NoLooperForgotten
  <2>5. CASE \E await \in BOOLEAN : ShutdownNow(t, await)
    <3>1. pc'[t] \in NotifiesNotEmpty
      BY <1>0, <2>5 DEF ShutdownNow, AskShutdown, Goto, NotifiesNotEmpty
    <3> QED BY <3>1 DEF NoLooperForgotten
  <2>6. CASE \E await \in BOOLEAN : Shutdown(t, await)
    <3>1. pc'[t] \in NotifiesNotEmpty
      BY <1>0, <2>6 DEF Shutdown, AskShutdown, Goto, NotifiesNotEmpty
    <3> QED BY <3>1 DEF NoLooperForgotten
  <2>7. CASE AwaitTermination(t)
    <3>1. /\ \A u \in Threads : pc'[u] = "sleepNotEmpty" => StaysAsleep(u)
          /\ \A u \in Threads : pc[u] \in NotifiesNotEmpty => pc'[u] \in NotifiesNotEmpty
      BY <1>0, <2>7 DEF AwaitTermination, Goto, MayCall, sharedVars, StaysAsleep, LooperHasWork, NotifiesNotEmpty
    <3> QED BY <1>0, <3>1, SleepersStay
  <2> QED BY <1>2, <2>1, <2>2, <2>3, <2>4, <2>5, <2>6, <2>7 DEF Call
<1>3. ASSUME NEW t \in Threads, EndHandler(t)
      PROVE  NoLooperForgotten'
  <2>1. /\ \A u \in Threads : pc'[u] = "sleepNotEmpty" => StaysAsleep(u)
        /\ \A u \in Threads : pc[u] \in NotifiesNotEmpty => pc'[u] \in NotifiesNotEmpty
    BY <1>0, <1>3 DEF EndHandler, Goto, sharedVars, StaysAsleep, LooperHasWork, NotifiesNotEmpty
  <2> QED BY <1>0, <2>1, SleepersStay
<1>4. ASSUME NEW t \in Threads, ThrowHandler(t)
      PROVE  NoLooperForgotten'
  <2>1. /\ \A u \in Threads : pc'[u] = "sleepNotEmpty" => StaysAsleep(u)
        /\ \A u \in Threads : pc[u] \in NotifiesNotEmpty => pc'[u] \in NotifiesNotEmpty
    BY <1>0, <1>4 DEF ThrowHandler, Goto, sharedVars, StaysAsleep, LooperHasWork, NotifiesNotEmpty
  <2> QED BY <1>0, <2>1, SleepersStay
<1>5. ASSUME NEW t \in Threads, SpuriousWakeup(t)
      PROVE  NoLooperForgotten'
  <2>1. PICK label \in {"await", "post", "awaitQuit"} :
          /\ pc' = [pc EXCEPT ![t] = label] /\ pc[t] \in Asleep
          /\ deadline' = [deadline EXCEPT ![t] = NoDeadline]
          /\ UNCHANGED sharedVars
    BY <1>5 DEF SpuriousWakeup, WakeAlone, Goto, Asleep
  <2>2. /\ \A u \in Threads : pc'[u] = "sleepNotEmpty" => StaysAsleep(u)
        /\ \A u \in Threads : pc[u] \in NotifiesNotEmpty => pc'[u] \in NotifiesNotEmpty
    BY <1>0, <2>1 DEF sharedVars, Asleep, StaysAsleep, LooperHasWork, NotifiesNotEmpty
  <2> QED BY <1>0, <2>2, SleepersStay
<1>6. CASE Tick
  BY <1>0, <1>6, SleepersStay DEF Tick, sharedVars, threadVars, StaysAsleep, LooperHasWork
<1>7. CASE UNCHANGED vars
  BY <1>0, <1>7, SleepersStay DEF vars, sharedVars, threadVars, StaysAsleep, LooperHasWork
<1> QED BY <1>1, <1>2, <1>3, <1>4, <1>5, <1>6, <1>7 DEF Next

(* No wake-up is lost: whoever sleeps although it need not is about to be  *)
(* notified.                                                               *)
THEOREM WakeupsAreNotLost == Spec => []NoLostWakeup
<1> DEFINE Inv == /\ Typed /\ Room /\ Counted /\ IdleHands /\ Owners /\ QueueSorted
                  /\ NoLooperForgotten /\ NoAwaiterForgotten
<1>1. Init => Inv
  <2>1. Init => NoLooperForgotten /\ NoAwaiterForgotten
    BY DEF Init, NoLooperForgotten, NoAwaiterForgotten
  <2> QED BY <2>1, TypedInit, RoomInit, CountedInit, IdleHandsInit, OwnersInit, SortedInit
<1>2. Inv /\ [Next]_vars => Inv'
  BY TypedNext, RoomNext, CountedNext, IdleHandsNext, OwnersNext, SortedNext,
     SleepersNext, AwaitersNext
<1>3. Inv => NoLostWakeup
  BY DEF Room, NoLostWakeup
<1> QED BY <1>1, <1>2, <1>3, PTL DEF Spec

-----------------------------------------------------------------------------
(* The abstract queue                                                      *)

LEMMA Stutter ==
  UNCHANGED <<status, due, shutdown_, now>> => [Promise!Next]_(Promise!vars)
BY DEF Promise!vars

LEMMA PosterHasMessage ==
  ASSUME Typed, Owners, NEW t \in Threads, pc[t] = "post"
  PROVE  posting[t] \in Messages /\ status[posting[t]] = "posting"
BY MessageQueueAssumption DEF Typed, Control, PostersHaveMessages, Owners, PostersOwn

LEMMA StepsAsPromised == Typed /\ Owners /\ QueueSorted /\ [Next]_vars => [Promise!Next]_(Promise!vars)
<1> SUFFICES ASSUME Typed, Owners, QueueSorted, [Next]_vars
             PROVE  [Promise!Next]_(Promise!vars)
  OBVIOUS
<1>0. /\ Typed /\ Owners /\ QueueSorted
      /\ queue \in Seq(Messages) /\ due \in [Messages -> Int] /\ Priority \in [Messages -> Int]
  BY MessageQueueAssumption DEF Typed, TypeOK
<1>1. ASSUME NEW t \in Threads, Continue(t)
      PROVE  [Promise!Next]_(Promise!vars)
  <2>1. CASE PostSleep(t)
    BY <2>1, Stutter DEF PostSleep, sharedVars, historyVars
  <2>2. CASE PostRefused(t)
    <3>1. posting[t] \in Messages /\ status[posting[t]] = "posting"
      BY <1>0, <2>2, PosterHasMessage DEF PostRefused
    <3>2. Promise!Refuse(posting[t])
      BY <2>2, <3>1 DEF PostRefused, RefusesMessages, sharedVars, Promise!Refuse, Promise!Becomes
    <3> QED BY <3>1, <3>2 DEF Promise!Next
  <2>3. CASE PostInsert(t)
    <3>1. posting[t] \in Messages /\ status[posting[t]] = "posting"
      BY <1>0, <2>3, PosterHasMessage DEF PostInsert
    <3>2. Promise!Accept(posting[t])
      BY <2>3, <3>1 DEF PostInsert, RefusesMessages, Promise!Accept, Promise!Becomes
    <3> QED BY <3>1, <3>2 DEF Promise!Next
  <2>4. CASE PostNotify(t)
    BY <2>4, Stutter DEF PostNotify, sharedVars, historyVars
  <2>5. CASE LoopCount(t)
    BY <2>5, Stutter DEF LoopCount, sharedVars, historyVars
  <2>6. CASE AwaitQuitNow(t)
    BY <2>6, Stutter DEF AwaitQuitNow, Quit, historyVars
  <2>7. CASE AwaitQuitNoDue(t)
    <3>1. UNCHANGED <<status, due, now>>
      BY <2>7 DEF AwaitQuitNoDue, Quit, historyVars
    <3>2. CASE UNCHANGED shutdown_
      BY <3>1, <3>2, Stutter
    <3>3. CASE Drained /\ shutdown_' = "kNow"
      <4>1. \A m \in Messages : status[m] # "queued"
        BY <1>0, <3>3 DEF Drained, Owners, QueueOwns, ToSet
      <4>2. Promise!Drained
        BY <3>1, <3>3, <4>1 DEF Drained, Promise!Drained, Promise!Is
      <4> QED BY <4>2 DEF Promise!Next
    <3> QED BY <2>7, <3>2, <3>3 DEF AwaitQuitNoDue
  <2>8. CASE AwaitSleep(t)
    BY <2>8, Stutter DEF AwaitSleep, GoesOn, sharedVars, historyVars
  <2>9. CASE AwaitPop(t)
    <3> DEFINE h == Head(queue)
    <3>1. /\ queue # << >> /\ due[h] <= now /\ shutdown_ # "kNow"
          /\ status' = [status EXCEPT ![h] = "running"]
          /\ UNCHANGED <<due, shutdown_, now>>
      BY <2>9 DEF AwaitPop, GoesOn, HasDueMessageLocked
    <3>2. h \in Messages /\ h \in ToSet(queue)
      BY <1>0, <3>1, HeadIsMember
    <3>3. status[h] = "queued"
      BY <1>0, <3>2 DEF Owners, QueueOwns
    <3>4. ASSUME NEW n \in Messages, status[n] = "queued"
          PROVE  ~Before(due, Priority, n, h)
      <4>1. n \in ToSet(queue)
        BY <1>0, <3>4 DEF Owners, QueueOwns
      <4>2. CASE n = h
        BY <1>0, <3>2, <4>2, MessageQueueAssumption DEF Before
      <4>3. CASE n # h
        BY <1>0, <4>1, <4>3, HeadIsFirst DEF QueueSorted
      <4> QED BY <4>2, <4>3
    <3> HIDE DEF h
    <3>5. Promise!Take(h)
      BY <3>1, <3>2, <3>3, <3>4 DEF Promise!Take, Promise!Is, Promise!Becomes,
                                      Before, Promise!Before
    <3> QED BY <3>2, <3>5 DEF Promise!Next
  <2>10. CASE StartHandler(t)
    BY <2>10, Stutter DEF StartHandler, sharedVars, historyVars
  <2>11. CASE LoopQuit(t)
    BY <2>11, Stutter DEF LoopQuit, historyVars
  <2>12. CASE QuitNotify(t)
    BY <2>12, Stutter DEF QuitNotify, sharedVars, historyVars
  <2>13. CASE RemoveNotify(t)
    BY <2>13, Stutter DEF RemoveNotify, sharedVars, historyVars
  <2>14. CASE WakePosters(t)
    BY <2>14, Stutter DEF WakePosters, sharedVars, historyVars
  <2>15. CASE WakeLoopers(t)
    BY <2>15, Stutter DEF WakeLoopers, sharedVars, historyVars
  <2>16. CASE AwaitReturn(t)
    BY <2>16, Stutter DEF AwaitReturn, sharedVars, historyVars
  <2>17. CASE AwaitQuitSleep(t)
    BY <2>17, Stutter DEF AwaitQuitSleep, sharedVars, historyVars
  <2>18. CASE WaitTimeout(t)
    BY <2>18, Stutter DEF WaitTimeout, WakeAlone, sharedVars, historyVars
  <2> QED BY <1>1, <2>1, <2>2, <2>3, <2>4, <2>5, <2>6, <2>7, <2>8, <2>9, <2>10, <2>11, <2>12,
             <2>13, <2>14, <2>15, <2>16, <2>17, <2>18 DEF Continue
<1>2. ASSUME NEW t \in Threads, Call(t)
      PROVE  [Promise!Next]_(Promise!vars)
  <2>1. CASE \E m \in Messages, d \in Delays : PostMessage(t, m, d)
    <3>1. PICK m \in Messages, d \in Delays : PostMessage(t, m, d)
      BY <2>1
    <3>2. now + d \in now..MaxTime
      BY <1>0, <3>1, MessageQueueAssumption DEF PostMessage, Typed, TypeOK
    <3>3. Promise!Post(m)
      BY <3>1, <3>2 DEF PostMessage, Promise!Post
    <3> QED BY <3>3 DEF Promise!Next
  <2>2. CASE LoopQueue(t) \/ LoopQueueOnce(t)
    BY <2>2, Stutter DEF LoopQueue, LoopQueueOnce, Enter, historyVars
  <2>3. CASE \E S \in SUBSET ToSet(queue) : RemoveMessageIf(t, S)
    <3>1. PICK S \in SUBSET ToSet(queue) : RemoveMessageIf(t, S)
      BY <2>3
    <3>2. S \in SUBSET Messages /\ \A m \in S : status[m] = "queued"
      <4>1. ToSet(queue) \subseteq Messages
        BY <1>0 DEF ToSet
      <4> QED BY <1>0, <4>1 DEF Owners, QueueOwns
    <3>3. Promise!Withdraw(S)
      BY <3>1, <3>2 DEF RemoveMessageIf, Promise!Withdraw, Promise!Is, Promise!Dropped
    <3> QED BY <3>2, <3>3 DEF Promise!Next
  <2>4. CASE Interrupt(t)
    BY <2>4, Stutter DEF Interrupt, historyVars
  <2>5. CASE \E await \in BOOLEAN : ShutdownNow(t, await)
    <3>1. PICK await \in BOOLEAN : ShutdownNow(t, await)
      BY <2>5
    <3>2. Promise!Close
      BY <3>1 DEF ShutdownNow, AskShutdown, Promise!Close, Promise!Is, Promise!Dropped
    <3> QED BY <3>2 DEF Promise!Next
  <2>6. CASE \E await \in BOOLEAN : Shutdown(t, await)
    <3>1. PICK await \in BOOLEAN : Shutdown(t, await)
      BY <2>6
    <3>2. Promise!Drain
      BY <3>1 DEF Shutdown, AskShutdown, Promise!Drain
    <3> QED BY <3>2 DEF Promise!Next
  <2>7. CASE AwaitTermination(t)
    BY <2>7, Stutter DEF AwaitTermination, sharedVars, historyVars
  <2> QED BY <1>2, <2>1, <2>2, <2>3, <2>4, <2>5, <2>6, <2>7 DEF Call
<1>3. ASSUME NEW t \in Threads, EndHandler(t)
      PROVE  [Promise!Next]_(Promise!vars)
  <2>1. Top(t).msg \in Messages /\ status[Top(t).msg] = "running"
    BY <1>0, <1>3, HandlerHasMessage DEF EndHandler
  <2>2. Promise!Finish(Top(t).msg)
    BY <1>3, <2>1 DEF EndHandler, sharedVars, Promise!Finish, Promise!Becomes
  <2> QED BY <2>1, <2>2 DEF Promise!Next
<1>4. ASSUME NEW t \in Threads, ThrowHandler(t)
      PROVE  [Promise!Next]_(Promise!vars)
  <2>1. Top(t).msg \in Messages /\ status[Top(t).msg] = "running"
    BY <1>0, <1>4, HandlerHasMessage DEF ThrowHandler
  <2>2. Promise!Lose(Top(t).msg)
    BY <1>4, <2>1 DEF ThrowHandler, sharedVars, Promise!Lose, Promise!Becomes
  <2> QED BY <2>1, <2>2 DEF Promise!Next
<1>5. ASSUME NEW t \in Threads, SpuriousWakeup(t)
      PROVE  [Promise!Next]_(Promise!vars)
  BY <1>5, Stutter DEF SpuriousWakeup, WakeAlone, sharedVars, historyVars
<1>6. CASE Tick
  BY <1>6 DEF Tick, sharedVars, historyVars, Promise!Next, Promise!Tick
<1>7. CASE UNCHANGED vars
  BY <1>7, Stutter DEF vars, sharedVars, historyVars
<1> QED BY <1>1, <1>2, <1>3, <1>4, <1>5, <1>6, <1>7 DEF Next

(* Each step of the queue is a step of a DelayQueue or none: no message is *)
(* lost, duplicated, refused while the queue is open, accepted while it is *)
(* closed, or run before its time or out of order.                         *)
THEOREM KeepsItsPromise == Spec => ImplementsDelayQueue
<1>1. Init => Promise!Init
  BY DEF Init, Promise!Init
<1>2. Init => Typed /\ IdleHands /\ Owners /\ QueueSorted
  BY TypedInit, IdleHandsInit, OwnersInit, SortedInit
<1>3. Typed /\ IdleHands /\ Owners /\ QueueSorted /\ [Next]_vars
        => (Typed /\ IdleHands /\ Owners /\ QueueSorted)'
  BY TypedNext, IdleHandsNext, OwnersNext, SortedNext
<1> QED BY <1>1, <1>2, <1>3, StepsAsPromised, PTL DEF Spec, ImplementsDelayQueue, Promise!Spec

-----------------------------------------------------------------------------
(* The queue of the pool                                                   *)

(* The steps of the queue that t makes in a pool: its handlers never throw.*)
QueueStep(t) == Continue(t) \/ Call(t) \/ EndHandler(t) \/ SpuriousWakeup(t)

(* The pool is a user of the queue: its steps are the queue's or none.     *)
LEMMA PoolUsesQueue ==
  ASSUME PoolNext
  PROVE  (\E t \in Threads : QueueStep(t)) \/ Tick \/ UNCHANGED vars
<1>1. ASSUME NEW t \in Threads, InsideQueue(t)
      PROVE  QueueStep(t)
  BY <1>1 DEF InsideQueue, QueueStep
<1>2. ASSUME NEW t \in Threads, WorkerLoops(t) \/ WorkerEnds(t)
      PROVE  QueueStep(t) \/ UNCHANGED vars
  BY <1>2 DEF WorkerLoops, WorkerEnds, QueueStep, Call
<1>3. ASSUME NEW t \in Threads, ClientCalls(t)
      PROVE  QueueStep(t)
  BY <1>3 DEF ClientCalls, QueueStep, Call
<1>4. ASSUME NEW t \in Threads, ClientAwaits(t) \/ QueueAwaited(t)
      PROVE  QueueStep(t)
  BY <1>4 DEF ClientAwaits, QueueAwaited, QueueStep, Call, Continue
<1>5. ASSUME NEW t \in Threads,
             JoinWorkers(t) \/ (\E w \in Workers : JoinWorker(t, w)) \/ JoinReturn(t)
      PROVE  UNCHANGED vars
  BY <1>5 DEF JoinWorkers, JoinWorker, JoinReturn
<1> QED BY <1>1, <1>2, <1>3, <1>4, <1>5 DEF PoolNext, PoolStep, PoolTick

LEMMA PoolKeepsQueue == [PoolNext]_allVars => [Next]_vars
BY PoolUsesQueue DEF QueueStep, Next, allVars

(* What the pool needs to know of a step of the queue.                     *)
Returns(t) == pc'[t] = "outside" => loops'[t] = << >>

StaysOut(t) == loops[t] = << >> => loops'[t] = << >> \/ LoopQueue(t) \/ LoopQueueOnce(t)

OthersStay(t) ==
  \A u \in Threads \ {t} :
    /\ pc'[u] = "outside" <=> pc[u] = "outside"
    /\ loops'[u] = loops[u]

LeaksNothing == \A m \in Messages : status'[m] = "leaked" => status[m] = "leaked"

Tidy(t) == Returns(t) /\ StaysOut(t) /\ OthersStay(t) /\ LeaksNothing

LEMMA QueueStepIsTidy ==
  ASSUME Typed, NEW t \in Threads, QueueStep(t)
  PROVE  Tidy(t)
<1> USE DEF Tidy, Returns, StaysOut, OthersStay, LeaksNothing
<1>0. /\ pc \in [Threads -> PCs] /\ loops \in [Threads -> Seq(Frame)]
      /\ status \in [Messages -> Statuses]
      /\ pc[t] \in InLoop => loops[t] # << >>
  BY DEF Typed, TypeOK, Control, LoopersHaveLoops
<1>a. Caller(t) = "outside" => loops[t] = << >>
  BY DEF Caller
<1>1. CASE Continue(t)
  <2>1. CASE PostSleep(t)
    BY <1>0, <2>1 DEF PostSleep, Goto, historyVars
  <2>2. CASE PostRefused(t)
    BY <1>0, <1>a, <2>2 DEF PostRefused, Goto
  <2>3. CASE PostInsert(t)
    BY <1>0, <2>3 DEF PostInsert, Goto
  <2>4. CASE PostNotify(t)
    BY <1>0, <1>a, <2>4 DEF PostNotify, NotifyNotEmpty, NotifyAll, historyVars
  <2>5. CASE LoopCount(t)
    BY <1>0, <2>5 DEF LoopCount, Goto, historyVars, InLoop
  <2>6. CASE AwaitQuitNow(t)
    BY <1>0, <2>6 DEF AwaitQuitNow, Quit, Goto, historyVars
  <2>7. CASE AwaitQuitNoDue(t)
    BY <1>0, <2>7 DEF AwaitQuitNoDue, Quit, Goto, historyVars
  <2>8. CASE AwaitSleep(t)
    BY <1>0, <2>8 DEF AwaitSleep, Goto, historyVars
  <2>9. CASE AwaitPop(t)
    BY <1>0, <2>9 DEF AwaitPop, GoesOn, Goto, InLoop
  <2>10. CASE StartHandler(t)
    BY <1>0, <2>10 DEF StartHandler, NotifyNotFull, NotifyAll, historyVars
  <2>11. CASE LoopQuit(t)
    BY <1>0, <2>11 DEF LoopQuit, Goto, historyVars, InLoop
  <2>12. CASE QuitNotify(t)
    BY <1>0, <1>a, <2>12 DEF QuitNotify, NotifyWorkerQuit, NotifyAll, historyVars
  <2>13. CASE RemoveNotify(t)
    BY <1>0, <1>a, <2>13 DEF RemoveNotify, NotifyNotFull, NotifyAll, historyVars
  <2>14. CASE WakePosters(t)
    BY <1>0, <2>14 DEF WakePosters, NotifyNotFull, NotifyAll, historyVars
  <2>15. CASE WakeLoopers(t)
    BY <1>0, <1>a, <2>15 DEF WakeLoopers, NotifyNotEmpty, NotifyAll, historyVars
  <2>16. CASE AwaitReturn(t)
    BY <1>0, <1>a, <2>16 DEF AwaitReturn, Goto, historyVars
  <2>17. CASE AwaitQuitSleep(t)
    BY <1>0, <2>17 DEF AwaitQuitSleep, Goto, historyVars
  <2>18. CASE WaitTimeout(t)
    BY <1>0, <2>18 DEF WaitTimeout, WakeAlone, Goto, historyVars
  <2> QED BY <1>1, <2>1, <2>2, <2>3, <2>4, <2>5, <2>6, <2>7, <2>8, <2>9, <2>10, <2>11, <2>12,
             <2>13, <2>14, <2>15, <2>16, <2>17, <2>18 DEF Continue
<1>2. CASE Call(t)
  <2>1. CASE \E m \in Messages, d \in Delays : PostMessage(t, m, d)
    BY <1>0, <2>1 DEF PostMessage, Goto
  <2>2. CASE LoopQueue(t)
    BY <1>0, <2>2 DEF LoopQueue, Enter, Goto, historyVars
  <2>3. CASE LoopQueueOnce(t)
    BY <1>0, <2>3 DEF LoopQueueOnce, Enter, Goto, historyVars
  <2>4. CASE \E S \in SUBSET ToSet(queue) : RemoveMessageIf(t, S)
    BY <1>0, <2>4 DEF RemoveMessageIf, Goto
  <2>5. CASE Interrupt(t)
    BY <1>0, <2>5 DEF Interrupt, Goto, historyVars
  <2>6. CASE \E await \in BOOLEAN : ShutdownNow(t, await)
    BY <1>0, <2>6 DEF ShutdownNow, AskShutdown, Goto
  <2>7. CASE \E await \in BOOLEAN : Shutdown(t, await)
    BY <1>0, <2>7 DEF Shutdown, AskShutdown, Goto
  <2>8. CASE AwaitTermination(t)
    BY <1>0, <2>8 DEF AwaitTermination, Goto, historyVars
  <2> QED BY <1>2, <2>1, <2>2, <2>3, <2>4, <2>5, <2>6, <2>7, <2>8 DEF Call
<1>3. CASE EndHandler(t)
  BY <1>0, <1>3 DEF EndHandler, Goto, InLoop
<1>4. CASE SpuriousWakeup(t)
  BY <1>0, <1>4 DEF SpuriousWakeup, WakeAlone, Goto, Asleep, historyVars
<1> QED BY <1>1, <1>2, <1>3, <1>4 DEF QueueStep

-----------------------------------------------------------------------------
(* The workers                                                             *)

(* A thread in no call of the queue has no loop on its stack, clients have *)
(* none at all, and workers that have ended are in no call.                *)
OutsideIsIdle     == \A t \in Threads : pc[t] = "outside" => loops[t] = << >>
ClientsDoNotLoop  == \A c \in Clients : loops[c] = << >>
EndedAreOutside   == \A w \in ended : pc[w] = "outside"
NothingLeaked     == \A m \in Messages : status[m] # "leaked"

WorkersTidy == OutsideIsIdle /\ ClientsDoNotLoop /\ EndedAreOutside /\ NothingLeaked

TidyPool == PoolTypeOK /\ WorkersTidy

LEMMA TidyPoolInit == PoolInit => TidyPool
BY DEF PoolInit, Init, TidyPool, PoolTypeOK, WorkersTidy, OutsideIsIdle, ClientsDoNotLoop,
       EndedAreOutside, NothingLeaked, Clients

(* started, ended, joined and the two mutex variables.                     *)
LEMMA PoolTypeNext == PoolTypeOK /\ [PoolNext]_allVars => PoolTypeOK'
<1> SUFFICES ASSUME PoolTypeOK, [PoolNext]_allVars
             PROVE  PoolTypeOK'
  OBVIOUS
<1> USE DEF PoolTypeOK
<1>1. ASSUME UNCHANGED poolVars
      PROVE  PoolTypeOK'
  BY <1>1 DEF poolVars, Clients
<1>2. ASSUME NEW t \in Threads, InsideQueue(t)
      PROVE  PoolTypeOK'
  BY <1>1, <1>2 DEF InsideQueue
<1>3. ASSUME NEW w \in Workers, WorkerLoops(w) \/ WorkerEnds(w)
      PROVE  PoolTypeOK'
  BY <1>3 DEF WorkerLoops, WorkerEnds, Clients
<1>4. ASSUME NEW c \in Clients,
             \/ ClientCalls(c) \/ ClientAwaits(c) \/ QueueAwaited(c)
             \/ JoinWorkers(c) \/ (\E w \in Workers : JoinWorker(c, w)) \/ JoinReturn(c)
      PROVE  PoolTypeOK'
  <2>1. CASE ClientCalls(c)
    BY <1>1, <2>1 DEF ClientCalls
  <2>2. CASE ClientAwaits(c)
    BY <2>2 DEF ClientAwaits, Clients
  <2>3. CASE QueueAwaited(c)
    BY <2>3 DEF QueueAwaited, Clients
  <2>4. CASE JoinWorkers(c)
    BY <1>4, <2>4 DEF JoinWorkers, Clients
  <2>5. CASE \E w \in Workers : JoinWorker(c, w)
    BY <2>5 DEF JoinWorker, Clients
  <2>6. CASE JoinReturn(c)
    BY <2>6 DEF JoinReturn, Clients
  <2> QED BY <1>4, <2>1, <2>2, <2>3, <2>4, <2>5, <2>6
<1>5. CASE PoolTick
  BY <1>1, <1>5 DEF PoolTick
<1> QED BY <1>1, <1>2, <1>3, <1>4, <1>5 DEF PoolNext, PoolStep, allVars

(* A client makes no call that loops, and a handler makes none at all.     *)
LEMMA ClientsStayOut ==
  ASSUME Typed, ClientsDoNotLoop, NEW c \in Clients
  PROVE  ~LoopQueue(c) /\ ~LoopQueueOnce(c)
<1>1. c \in Threads /\ pc[c] # "handler"
  BY DEF Clients, ClientsDoNotLoop, Typed, Control, LoopersHaveLoops, InLoop
<1>2. "loopAndWait" \notin Calls[c] /\ "loopOnce" \notin Calls[c]
  BY ThreadPoolAssumption
<1> QED BY <1>1, <1>2 DEF LoopQueue, LoopQueueOnce, MayCall

LEMMA WorkersTidyNext == Typed /\ TidyPool /\ [PoolNext]_allVars => WorkersTidy'
<1> SUFFICES ASSUME Typed, TidyPool, [PoolNext]_allVars
             PROVE  WorkersTidy'
  OBVIOUS
<1> USE DEF TidyPool, WorkersTidy, OutsideIsIdle, ClientsDoNotLoop, EndedAreOutside, NothingLeaked
<1>0. Workers \subseteq Threads /\ Clients \subseteq Threads /\ ended \subseteq Workers
  BY ThreadPoolAssumption DEF Clients, PoolTypeOK
<1>1. (OutsideIsIdle /\ ClientsDoNotLoop /\ NothingLeaked)'
  <2>1. CASE UNCHANGED vars
    BY <2>1 DEF vars, threadVars, historyVars, Clients
  <2>2. CASE Tick
    BY <2>2 DEF Tick, threadVars, historyVars, Clients
  <2>3. ASSUME NEW t \in Threads, QueueStep(t)
        PROVE  (OutsideIsIdle /\ ClientsDoNotLoop /\ NothingLeaked)'
    <3>1. Returns(t) /\ StaysOut(t) /\ OthersStay(t) /\ LeaksNothing
      BY <2>3, QueueStepIsTidy DEF Tidy
    <3>2. OutsideIsIdle'
      BY <3>1 DEF Returns, OthersStay
    <3>3. ASSUME NEW c \in Clients
          PROVE  loops'[c] = << >>
      BY <1>0, <3>1, ClientsStayOut DEF StaysOut, OthersStay
    <3>4. NothingLeaked'
      BY <3>1 DEF LeaksNothing
    <3> QED BY <3>2, <3>3, <3>4 DEF Clients
  <2>4. CASE PoolNext
    BY <2>1, <2>2, <2>3, <2>4, PoolUsesQueue
  <2> QED BY <2>1, <2>4 DEF allVars
<1>2. EndedAreOutside'
  <2>1. ASSUME NEW t \in Threads, QueueStep(t), t \notin ended, ended' = ended
        PROVE  EndedAreOutside'
    <3>1. OthersStay(t)
      BY <2>1, QueueStepIsTidy DEF Tidy
    <3> QED BY <1>0, <2>1, <3>1 DEF OthersStay
  <2>2. ASSUME NEW t \in Threads, InsideQueue(t)
        PROVE  EndedAreOutside'
    <3>1. QueueStep(t) /\ ended' = ended
      BY <2>2 DEF InsideQueue, QueueStep, poolVars
    <3>2. pc[t] # "outside"
      BY <2>2 DEF InsideQueue, Continue, EndHandler, SpuriousWakeup, Asleep, PostSleep, PostRefused,
                  PostInsert, PostNotify, LoopCount, AwaitQuitNow, AwaitQuitNoDue, GoesOn,
                  AwaitSleep, AwaitPop, StartHandler, LoopQuit, QuitNotify, RemoveNotify,
                  WakePosters, WakeLoopers, AwaitReturn, AwaitQuitSleep, WaitTimeout
    <3> QED BY <2>1, <3>1, <3>2
  <2>3. ASSUME NEW w \in Workers, WorkerLoops(w)
        PROVE  EndedAreOutside'
    <3>1. QueueStep(w) /\ w \notin ended /\ ended' = ended
      BY <2>3 DEF WorkerLoops, QueueStep, Call
    <3> QED BY <1>0, <2>1, <3>1
  <2>4. ASSUME NEW w \in Workers, WorkerEnds(w)
        PROVE  EndedAreOutside'
    BY <2>4 DEF WorkerEnds, vars, threadVars
  <2>5. ASSUME NEW c \in Clients, ClientCalls(c) \/ ClientAwaits(c) \/ QueueAwaited(c)
        PROVE  EndedAreOutside'
    <3>1. QueueStep(c) /\ ended' = ended
      BY <2>5 DEF ClientCalls, ClientAwaits, QueueAwaited, QueueStep, Call, Continue, poolVars
    <3>2. c \in Threads /\ c \notin ended
      BY <1>0 DEF Clients
    <3> QED BY <2>1, <3>1, <3>2
  <2>6. ASSUME NEW c \in Clients,
               JoinWorkers(c) \/ (\E w \in Workers : JoinWorker(c, w)) \/ JoinReturn(c)
        PROVE  EndedAreOutside'
    BY <2>6 DEF JoinWorkers, JoinWorker, JoinReturn, vars, threadVars
  <2>7. CASE PoolTick
    BY <2>7 DEF PoolTick, Tick, threadVars, poolVars
  <2>8. CASE UNCHANGED allVars
    BY <2>8 DEF allVars, vars, threadVars, poolVars
  <2> QED BY <2>2, <2>3, <2>4, <2>5, <2>6, <2>7, <2>8 DEF PoolNext, PoolStep
<1> QED BY <1>1, <1>2

-----------------------------------------------------------------------------
(* The end of a pool                                                       *)

(* When all workers have ended nobody loops: the clients never do.         *)
LEMMA EndedIsIdle == Typed /\ Room /\ Counted /\ Owners /\ TidyPool => EndedPoolIsIdle
<1> SUFFICES ASSUME Typed, Room, Counted, Owners, TidyPool, ended = Workers
             PROVE  /\ workerCount_ = 0
                    /\ \A m \in Messages : status[m] \notin {"running", "leaked"}
                    /\ shutdown_ = "kNow" => queue = << >>
  BY DEF EndedPoolIsIdle
<1>1. \A t \in Threads : loops[t] = << >>
  BY DEF TidyPool, WorkersTidy, OutsideIsIdle, ClientsDoNotLoop, EndedAreOutside, Clients
<1>2. workerCount_ = 0
  <2>1. LoopCalls = {}
    <3>1. \A c \in LoopCalls : c[1] \in Threads /\ c[2] \in DOMAIN loops[c[1]]
      BY DEF LoopCalls
    <3>2. \A t \in Threads : DOMAIN loops[t] = {}
      BY <1>1
    <3> QED BY <3>1, <3>2
  <2> QED BY <2>1, FS_EmptySet DEF Counted, WorkerCountExact
<1>3. \A m \in Messages : status[m] \notin {"running", "leaked"}
  <2>1. \A t \in Threads : 1..Len(loops[t]) = {}
    BY <1>1
  <2>2. \A m \in Messages : status[m] # "running"
    BY <2>1 DEF Owners, LoopersOwn
  <2> QED BY <2>2 DEF TidyPool, WorkersTidy, NothingLeaked
<1>4. shutdown_ = "kNow" => queue = << >>
  BY DEF Room, ShutDownQueueIsEmpty
<1> QED BY <1>2, <1>3, <1>4

AwaitStep ==
  \A c \in Clients :
    joining[c] # "no" /\ joining'[c] = "no"
      => \A w \in Workers : w \in ended /\ pc[w] = "outside"

(* A call that awaits returns from joinWorkers, which has joined them all. *)
LEMMA AwaitNext == TidyPool /\ [PoolNext]_allVars => AwaitStep
<1> SUFFICES ASSUME TidyPool, [PoolNext]_allVars, NEW c \in Clients,
                    joining[c] # "no", joining'[c] = "no"
             PROVE  \A w \in Workers : w \in ended /\ pc[w] = "outside"
  BY DEF AwaitStep
<1>0. joining \in [Clients -> {"no", "queue", "lock", "join"}] /\ joined \subseteq ended
  BY DEF TidyPool, PoolTypeOK
<1>1. ~UNCHANGED joining
  OBVIOUS
<1>2. PICK t \in Threads : PoolStep(t)
  BY <1>1 DEF PoolNext, PoolTick, allVars, poolVars
<1>3. JoinReturn(t)
  <2>1. ~InsideQueue(t) /\ ~WorkerLoops(t) /\ ~WorkerEnds(t) /\ ~ClientCalls(t)
    BY <1>1 DEF InsideQueue, WorkerLoops, WorkerEnds, ClientCalls, poolVars
  <2>2. ~ClientAwaits(t) /\ ~QueueAwaited(t) /\ ~JoinWorkers(t)
    BY <1>0 DEF ClientAwaits, QueueAwaited, JoinWorkers
  <2>3. ~(\E w \in Workers : JoinWorker(t, w))
    BY <1>1 DEF JoinWorker
  <2> QED BY <1>2, <2>1, <2>2, <2>3 DEF PoolStep
<1>4. joined = Workers
  BY <1>3 DEF JoinReturn
<1> QED BY <1>0, <1>4 DEF TidyPool, WorkersTidy, EndedAreOutside

(* When a pool call that awaits returns, every worker's thread has ended   *)
(* and is in no code of the queue, and a pool whose workers have ended     *)
(* counts no loops and runs no message. So it may be destroyed             *)
(* (ThreadPool.cc:38), for any number of workers and clients.              *)
THEOREM PoolAlwaysEndsClean == PoolSpec => PoolEndsClean
<1> DEFINE QueueInv == Typed /\ Room /\ Counted /\ IdleHands /\ Owners
<1>1. PoolInit => QueueInv /\ TidyPool
  BY TypedInit, RoomInit, CountedInit, IdleHandsInit, OwnersInit, TidyPoolInit DEF PoolInit
<1>2. QueueInv /\ TidyPool /\ [PoolNext]_allVars => QueueInv' /\ TidyPool'
  <2>1. QueueInv /\ [Next]_vars => QueueInv'
    BY TypedNext, RoomNext, CountedNext, IdleHandsNext, OwnersNext
  <2> QED BY <2>1, PoolKeepsQueue, PoolTypeNext, WorkersTidyNext DEF TidyPool
<1>3. QueueInv /\ TidyPool => PoolTypeOK /\ EndedPoolIsIdle
  BY EndedIsIdle DEF TidyPool
<1>4. TidyPool /\ [PoolNext]_allVars => [AwaitStep]_allVars
  BY AwaitNext
<1> QED BY <1>1, <1>2, <1>3, <1>4, PTL DEF PoolSpec, PoolEndsClean, AwaitedWorkersAreGone, AwaitStep
=============================================================================
