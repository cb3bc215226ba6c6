--------------------------- MODULE MCMessageQueue ---------------------------
(***************************************************************************)
(* Instances of MessageQueue for TLC: who may call what in each run.       *)
(***************************************************************************)
EXTENDS MessageQueue

CONSTANTS
  worker, helper, poster, owner,  \* threads
  m1, m2, m3                      \* messages

TwoMessages == {m1, m2}

(* m2 has the higher priority.                                             *)
TwoPriorities == [m \in TwoMessages |-> IF m = m2 THEN -1 ELSE 0]

(* A looping thread, a poster and the owner of the queue.                  *)
Trio == {worker, poster, owner}
EveryCall ==
  [t \in Trio |-> CASE t = worker -> {"loopAndWait", "loopOnce", "post"}
                    [] t = poster -> {"post"}
                    [] t = owner  -> {"remove", "interrupt", "shutdown",
                                      "shutdownNow", "awaitTermination"}]

(* Posts from handlers to a full queue need one message that runs, one     *)
(* that fills the queue and one more.                                      *)
ThreeMessages == {m1, m2, m3}
SamePriority == [m \in ThreeMessages |-> 0]
PostingCalls ==
  [t \in Trio |-> CASE t = worker -> {"loopAndWait", "post"}
                    [] t = poster -> {"post"}
                    [] t = owner  -> {"shutdown", "remove"}]

(* Two loopers run and drain what an owner posts and removes.              *)
Crew == {worker, helper, owner}
CrewCalls ==
  [t \in Crew |-> CASE t \in {worker, helper} -> {"loopAndWait"}
                    [] t = owner -> {"post", "remove", "shutdown"}]

NoHandlerCalls == {}
Reposting == {"post"}
BusyHandlers == {"post", "loopOnce", "throw"}
=============================================================================
