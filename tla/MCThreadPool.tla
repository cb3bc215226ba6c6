---------------------------- MODULE MCThreadPool ----------------------------
(***************************************************************************)
(* An instance of ThreadPool for TLC: two workers, an owner that posts and *)
(* shuts down, a second client that awaits the termination too, and       *)
(* handlers that shut their own pool down.                                 *)
(***************************************************************************)
EXTENDS ThreadPool

CONSTANTS w1, w2, owner, client, m1

OneMessage  == {m1}
OnePriority == [m \in OneMessage |-> 0]
TwoWorkers  == {w1, w2}
TwoClients  == TwoWorkers \cup {owner, client}

PoolCalls ==
  [t \in TwoClients |-> CASE t \in TwoWorkers -> {"loopAndWait"}
                          [] t = owner  -> {"post", "shutdown", "shutdownNow"}
                          [] t = client -> {"awaitTermination"}]

Meddling == {"shutdown"}
=============================================================================
