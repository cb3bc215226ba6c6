--------------------------- MODULE MCEngineScope ---------------------------
(***************************************************************************)
(* An instance of EngineScope for TLC: two threads and three engines, two  *)
(* of which share an isolate if the backend is V8.                         *)
(***************************************************************************)
EXTENDS EngineScope, TLC

CONSTANTS t1, t2, e1, e2, e3

TwoThreads   == {t1, t2}
ThreeEngines == {e1, e2, e3}
Symmetry     == Permutations(TwoThreads)
Isolates     == [e \in ThreeEngines |-> IF e = e3 THEN e2 ELSE e]
=============================================================================
