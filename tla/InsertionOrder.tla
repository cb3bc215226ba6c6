--------------------------- MODULE InsertionOrder ---------------------------
(***************************************************************************)
(* Messages of any due times and priorities that are inserted, one after   *)
(* the other, into a queue that is emptied from time to time: where each   *)
(* one comes to stand. Messages are numbered in the order of insertion.    *)
(***************************************************************************)
EXTENDS MessageOrder

CONSTANTS
  MaxLength,   \* bound: messages in the queue
  DueTimes,
  Priorities

ASSUME OrderAssumption == DueTimes \subseteq Int /\ Priorities \subseteq Int

VARIABLES
  ordered,      \* queue_
  dueOf,        \* due time and priority of each message
  priorityOf

orderVars == <<ordered, dueOf, priorityOf>>

OrderInit == ordered = << >> /\ dueOf = << >> /\ priorityOf = << >>

(* postMessage, once the message has a due time.                           *)
PostNext ==
  /\ Len(ordered) < MaxLength
  /\ \E d \in DueTimes, p \in Priorities :
       /\ dueOf' = Append(dueOf, d)
       /\ priorityOf' = Append(priorityOf, p)
       /\ ordered' = Insert(ordered, dueOf', priorityOf', Len(ordered) + 1)

(* shutdownNow, or removeMessageIf of all messages.                        *)
RemoveEvery ==
  /\ ordered # << >>
  /\ ordered' = << >> /\ dueOf' = << >> /\ priorityOf' = << >>

OrderNext == PostNext \/ RemoveEvery

OrderSpec == OrderInit /\ [][OrderNext]_orderVars

-----------------------------------------------------------------------------

(* Whatever is in the queue, the next message is inserted behind those     *)
(* that it need not precede, and before those that have to run later: the  *)
(* queue stays sorted by due time and priority, and messages with the same *)
(* ones stay in posting order (Message::priority, MessageQueue.h:95-101;   *)
(* MessageQueueTest relies on the posting order).                          *)
InsertionIsStable ==
  /\ Sorted(ordered, dueOf, priorityOf)
  /\ \A d \in DueTimes, p \in Priorities :
       InsertsStably(ordered, Append(dueOf, d), Append(priorityOf, p), Len(ordered) + 1)
=============================================================================
