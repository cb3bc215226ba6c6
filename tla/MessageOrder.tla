---------------------------- MODULE MessageOrder ----------------------------
(***************************************************************************)
(* The order in which script::utils::MessageQueue keeps its messages: the  *)
(* search findInsertPositionLocked makes before every insertion, and the   *)
(* removal of messages from it. A message is a name; `due` and `priority`  *)
(* give its due time and priority.                                         *)
(***************************************************************************)
EXTENDS Integers, FiniteSets, SequencesExt

(* The first position at or after `from` where Stop holds, one past the    *)
(* end if there is none: a scan `while (it != end() && ...) ++it`.         *)
ScanForward(q, from, Stop(_)) ==
  CHOOSE i \in from..(Len(q) + 1) :
    /\ i = Len(q) + 1 \/ Stop(q[i])
    /\ \A j \in from..(i - 1) : ~Stop(q[j])

(* The last position where Stop holds, the first if there is none: the     *)
(* scan `while (it != begin() && ...) --it` that starts at end() - 1.      *)
ScanBackward(q, Stop(_)) ==
  CHOOSE i \in 1..Len(q) :
    /\ i = 1 \/ Stop(q[i])
    /\ \A j \in (i + 1)..Len(q) : ~Stop(q[j])

(* Mutants: no scan by priority; `<` for `<=` in it.                       *)
InsertPositionByDue(q, due, priority, m) ==
  IF q = << >> THEN 1 ELSE ScanForward(q, 1, LAMBDA n : due[n] >= due[m])

InsertPositionStrict(q, due, priority, m) ==
  IF q = << >> THEN 1
  ELSE ScanForward(q, 1, LAMBDA n : ~( \/ due[n] < due[m]
                                       \/ due[n] = due[m] /\ priority[n] < priority[m]))

(* The three scans of findInsertPositionLocked: backward from the end, the *)
(* common case; forward by due time; forward by priority.                  *)
FindInsertPosition(q, due, priority, m) ==
  IF q = << >> THEN 1
  ELSE LET tail  == ScanBackward(q, LAMBDA n : due[n] < due[m])
           byDue == ScanForward(q, tail, LAMBDA n : due[n] >= due[m])
       IN  ScanForward(q, byDue,
                       LAMBDA n : ~(due[n] = due[m] /\ priority[n] <= priority[m]))

(* Mutant: first come, first served.                                       *)
InsertLast(q, due, priority, m) == Append(q, m)

(* queue_.insert(findInsertPositionLocked(...), msg).                      *)
Insert(q, due, priority, m) ==
  InsertAt(q, FindInsertPosition(q, due, priority, m), m)

(* q without the messages in S, as the erasing loop of removeMessageIf     *)
(* leaves it: the others stay in their order.                              *)
Increasing(f) == \A i, j \in DOMAIN f : i < j => f[i] < f[j]

Erase(q, S) ==
  LET kept == {i \in 1..Len(q) : q[i] \notin S}
      nth  == CHOOSE f \in Bijection(1..Cardinality(kept), kept) : Increasing(f)
  IN  [i \in 1..Cardinality(kept) |-> q[nth[i]]]

(***************************************************************************)
(* What Message::priority promises (MessageQueue.h:95-101).                *)
(***************************************************************************)

(* m has to run before n: an earlier due time, or the same one and a       *)
(* smaller, that is higher, priority.                                      *)
Before(due, priority, m, n) ==
  \/ due[m] < due[n]
  \/ due[m] = due[n] /\ priority[m] < priority[n]

(* No message stands behind one it has to run before.                      *)
Sorted(q, due, priority) ==
  \A i, j \in 1..Len(q) : i < j => ~Before(due, priority, q[j], q[i])

(* The reference insertion: before everything that has to run later, and   *)
(* behind everything else, so that equal messages keep the posting order.  *)
InsertsStably(q, due, priority, m) ==
  \E p \in 1..(Len(q) + 1) :
    /\ \A i \in 1..(p - 1) : ~Before(due, priority, m, q[i])
    /\ \A i \in p..Len(q)   : Before(due, priority, m, q[i])
    /\ Insert(q, due, priority, m) = SubSeq(q, 1, p - 1) \o <<m>> \o SubSeq(q, p, Len(q))
=============================================================================
