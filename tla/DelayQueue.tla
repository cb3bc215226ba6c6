----------------------------- MODULE DelayQueue -----------------------------
(***************************************************************************)
(* What a MessageQueue promises to those who use it, without threads,      *)
(* locks, condition variables or a deque: an unordered store of delayed    *)
(* messages that gives out the due ones in order, in three modes.          *)
(***************************************************************************)
EXTENDS MessageOrder

CONSTANTS
  Messages,
  Priority,
  MaxTime   \* bound: the clock stops here and nothing is due later

VARIABLES
  status,  \* what has become of each message
  due,     \* when each message is due, once it has been posted
  mode,    \* "kNone": open, "kAwaitQueue": closes when empty, "kNow": closed
  now

vars == <<status, due, mode, now>>

Is(s) == {m \in Messages : status[m] = s}

Init ==
  /\ status = [m \in Messages |-> "fresh"]
  /\ due = [m \in Messages |-> 0]
  /\ mode = "kNone"
  /\ now = 0

(* A message becomes s; nothing else changes.                              *)
Becomes(m, s) ==
  /\ status' = [status EXCEPT ![m] = s]
  /\ UNCHANGED <<due, mode, now>>

(* Somebody decides to post m: its due time is settled now.                *)
Post(m) ==
  /\ status[m] = "fresh"
  /\ status' = [status EXCEPT ![m] = "posting"]
  /\ \E d \in now..MaxTime : due' = [due EXCEPT ![m] = d]
  /\ UNCHANGED <<mode, now>>

Accept(m) == status[m] = "posting" /\ mode # "kNow" /\ Becomes(m, "queued")

Refuse(m) == status[m] = "posting" /\ mode = "kNow" /\ Becomes(m, "refused")

(* A due message is given out, and none that has to run before it waits.   *)
Take(m) ==
  /\ status[m] = "queued"
  /\ mode # "kNow"
  /\ due[m] <= now
  /\ \A n \in Is("queued") : ~Before(due, Priority, n, m)
  /\ Becomes(m, "running")

Finish(m) == status[m] = "running" /\ Becomes(m, "done")

Lose(m) == status[m] = "running" /\ Becomes(m, "leaked")

(* The waiting messages in S are dropped.                                  *)
Dropped(S) == [m \in Messages |-> IF m \in S THEN "dropped" ELSE status[m]]

Withdraw(S) ==
  /\ S \subseteq Is("queued")
  /\ status' = Dropped(S)
  /\ UNCHANGED <<due, mode, now>>

Drain == mode' = "kAwaitQueue" /\ UNCHANGED <<status, due, now>>

Close ==
  /\ mode' = "kNow"
  /\ status' = Dropped(Is("queued"))
  /\ UNCHANGED <<due, now>>

(* A draining queue closes by itself, but only when nothing waits.         *)
Drained ==
  /\ mode = "kAwaitQueue"
  /\ Is("queued") = {}
  /\ mode' = "kNow"
  /\ UNCHANGED <<status, due, now>>

Tick ==
  /\ now < MaxTime
  /\ now' = now + 1
  /\ UNCHANGED <<status, due, mode>>

Next ==
  \/ \E m \in Messages :
       Post(m) \/ Accept(m) \/ Refuse(m) \/ Take(m) \/ Finish(m) \/ Lose(m)
  \/ \E S \in SUBSET Messages : Withdraw(S)
  \/ Drain \/ Close \/ Drained \/ Tick

Spec == Init /\ [][Next]_vars
=============================================================================
