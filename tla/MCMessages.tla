----------------------------- MODULE MCMessages -----------------------------
(***************************************************************************)
(* A queue at its limit, for TLC, together with the order and the memory of*)
(* messages. One behaviour is about one of the three; the others are at    *)
(* rest.                                                                   *)
(***************************************************************************)
EXTENDS MCMessageQueue, InsertionOrder, MessagePool

VARIABLE part

TwoObjects  == {"d1", "d2"}
OneTag      == {"e1"}
ThreeItems  == {"i1", "i2", "i3"}

PartInit ==
  /\ part \in {"queue", "order", "memory"}
  /\ Init /\ OrderInit /\ PoolInit

(* The memory of a queue that was destroyed, and lost messages, may leave  *)
(* nothing to do.                                                          *)
MemoryRests == At("heap") = {} \/ ~isOpen

PartNext ==
  /\ UNCHANGED part
  /\ IF part = "queue" THEN Next ELSE UNCHANGED vars
  /\ IF part = "order" THEN OrderNext ELSE UNCHANGED orderVars
  /\ IF part = "memory" THEN PoolNext \/ (MemoryRests /\ UNCHANGED poolVars)
     ELSE UNCHANGED poolVars

PartSpec == PartInit /\ [][PartNext]_<<part, vars, orderVars, poolVars>>
=============================================================================
