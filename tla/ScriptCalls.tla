---------------------------- MODULE ScriptCalls ----------------------------
(***************************************************************************)
(* What calls between C++ and JavaScript promise: a function works with the*)
(* this and the arguments that it was called with until it ends, and its   *)
(* caller receives what it returned or threw.                              *)
(***************************************************************************)
EXTENDS Naturals, SequencesExt

CONSTANTS
  Values,
  Undefined

VARIABLE calls    \* the functions that run, innermost last

Outcome == [how : {"none", "value", "error"}, value : Values \cup {Undefined}]
NoOutcome == [how |-> "none", value |-> Undefined]

(* wants: setters and the like give their caller nothing, constructors     *)
(* the object they made unless they return another one.                    *)
Wants == {"value", "nothing", "object"}

(* got: from the last call that it made; sent: when it has ended.          *)
NewCall(wants, passed) ==
  [wants |-> wants, passed |-> passed, got |-> NoOutcome, sent |-> NoOutcome]

CallsInit == calls = <<NewCall("nothing", << >>)>>

Runs == Last(calls).sent = NoOutcome

Start ==
  /\ Runs /\ Len(calls') = Len(calls) + 1
  /\ \E wants \in Wants, passed \in {Last(calls').passed} \cap Seq(Values) :
       calls' = Append(calls, NewCall(wants, passed))

End ==
  /\ Runs /\ Len(calls') = Len(calls)
  /\ \E o \in Outcome \ {NoOutcome} : calls' = [calls EXCEPT ![Len(calls)].sent = o]

Delivered(call, o) ==
  CASE o.how = "error"                                    -> o
    [] o.how = "value" /\ call.wants = "nothing"          -> [o EXCEPT !.value = Undefined]
    [] o.how = "value" /\ call.wants = "object"
                       /\ o.value = Undefined             -> [o EXCEPT !.value = call.passed[1]]
    [] OTHER                                              -> o

Deliver ==
  LET call == Last(calls)
  IN  /\ ~Runs /\ Len(calls) > 1
      /\ calls' = [Front(calls) EXCEPT ![Len(calls) - 1].got = Delivered(call, call.sent)]

CallsNext == Start \/ End \/ Deliver

CallsSpec == CallsInit /\ [][CallsNext]_calls
=============================================================================
