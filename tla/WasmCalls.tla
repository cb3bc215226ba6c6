----------------------------- MODULE WasmCalls -----------------------------
(***************************************************************************)
(* Calls between C++ and JavaScript in the WebAssembly backend. Values     *)
(* cross on one JavaScript array that both sides index, exceptions as the  *)
(* top of that array and a flag that the other side looks at: EM_JS code   *)
(* catches, pushes and sets one flag, rethrowException of C++ the other.   *)
(***************************************************************************)
EXTENDS Naturals, SequencesExt

CONSTANTS
  Values,        \* objects
  Undefined,
  Foreign,       \* the C++ exception, a number, that JavaScript sees
  Troubles,      \* what functions may do; see Trouble
  MaxSlots,      \* bound: length of the stack
  MaxFrames      \* bound

(* A bound function returns a value that is not the last it has pushed, or *)
(* throws to the event loop; a trap of a Proxy throws in isObject, clear.  *)
Trouble == {"earlierResult", "throwsToEvents", "is", "clear"}

VARIABLES
  slots,        \* SCRIPTX_STACK.values
  jsPending,    \* hasPendingJsException_
  cppPending,   \* hasPendingCppException_
  frames,       \* the functions of both languages that run, innermost last
  terminated    \* an exception left a noexcept function

vars == <<slots, jsPending, cppPending, frames, terminated>>

Slot == Values \cup {Undefined, Foreign}
Top == Len(slots)
Depth == Len(frames)
Caller == frames[Depth]
Cut(s, top) == SubSeq(s, 1, top)     \* ScriptStack.setTop
Lists(n) == UNION {[1..m -> Values] : m \in 0..n}

Outcome == [how : {"none", "value", "error"}, value : Slot]
Nothing == [how |-> "none", value |-> Undefined]

(* How a function was called: by code of EM_JS that C++ has called, where  *)
(* made is the object of a constructor, or by JavaScript. saved is ghost:  *)
(* the stack before.                                                       *)
Op(op, this) ==
  [op |-> op, made |-> IF op = "new" THEN this ELSE Undefined, saved |-> slots]
ByScript == Op("none", Undefined)

(* A function of JavaScript, with what it got from the last call it made   *)
(* and, when it has ended, sent. asked is ghost: what its caller passed.   *)
Script(via, passed, asked) ==
  [kind |-> "script", via |-> via, passed |-> passed, asked |-> asked,
   phase |-> "runs", got |-> Nothing, sent |-> Nothing]

(* A wrapper of newRawFunction and the C++ function it calls: Arguments    *)
(* begin at base, with this, and the slot of the result is ret. entered:   *)
(* its EngineScope is not inside another one of the engine. sent is ghost. *)
Native(via, base, argc, entered, asked) ==
  [kind |-> "native", via |-> via, base |-> base, argc |-> argc, ret |-> base + argc,
   entered |-> entered, asked |-> asked, phase |-> "runs", got |-> Nothing, sent |-> Nothing]

(* A C++ program in an EngineScope, or the event loop of JavaScript.       *)
Outermost == {Native(ByScript, 0, 0, TRUE, << >>), Script(ByScript, << >>, << >>)}

Init ==
  /\ slots = << >> /\ jsPending = FALSE /\ cppPending = FALSE /\ terminated = FALSE
  /\ frames \in {<<f>> : f \in Outermost}

(* EngineScope::currentEngine() is not null.                               *)
InScope == \E i \in 1..Depth : frames[i].kind = "native" /\ frames[i].phase = "runs"

Bodied == Caller.kind = "native" /\ Caller.phase = "runs"   \* C++ code runs

-----------------------------------------------------------------------------
(* The operations                                                          *)

(* callFunction, newObjectArgs, objectGet and the like, toString and       *)
(* evaluateJavaScriptCode, objectSet and arraySet, predicates, arrayClear. *)
Ops == {"call", "new", "get", "set", "is", "clear"}
Pushes(op) == op \in {"call", "new", "get"}
Takes(op, n) ==                         \* the object and arguments
  n = (IF op = "set" THEN 2 ELSE 1) \/ (op \in {"call", "new"} /\ n = 2)
Checked(op) == op # "clear"             \* CHECKED_JS_CALL, CHECKED_VOID_JS_CALL
NoExceptGet(op) == op \in {"is", "get"}    \* mutant
NoExcept(op) == op = "is"
Wants(op) == CASE op \in {"set", "is", "clear"} -> "nothing"
               [] op = "new"                    -> "object"
               [] OTHER                         -> "value"

(* What JavaScript code is given and the stack that it finds: callFunction *)
(* has a slot of its frame, and pushes the function, this and arguments    *)
(* for JavaScript to take off; newObjectImpl the arguments.                *)
Func == Undefined                       \* the function's slot
PreparedLate(op, passed) ==             \* mutant: arguments are read after the cut
  CASE op = "call" -> [stack |-> Append(slots, Undefined), passed |-> <<passed[1]>>]
    [] op = "new"  -> [stack |-> slots, passed |-> <<passed[1]>>]
    [] OTHER       -> [stack |-> slots, passed |-> passed]
CallPrepared(passed) ==
  LET pushed == slots \o <<Undefined, Func>> \o passed
      base   == Top + 2
  IN  [stack |-> Cut(pushed, base - 1), passed |-> SubSeq(pushed, base + 1, Len(pushed))]
NewPrepared(passed) ==
  LET pushed == slots \o Tail(passed)
      base   == Top + 1
  IN  [stack |-> Cut(pushed, base - 1), passed |-> <<passed[1]>> \o SubSeq(pushed, base, Len(pushed))]
Prepared(op, passed) ==
  CASE op = "call" -> CallPrepared(passed)
    [] op = "new"  -> NewPrepared(passed)
    [] OTHER       -> [stack |-> slots, passed |-> passed]

(* The end of the code of EM_JS, and of the C++ function around it.        *)
Result(f, o) == IF o.value = Undefined THEN f.made ELSE o.value
Pushed(f, s, o) ==
  CASE o.how = "error"                     -> Append(s, o.value)
    [] o.how = "value" /\ ~Pushes(f.op)    -> s
    [] OTHER                               -> Append(s, Result(f, o))

(* checkException: the flag may be an earlier one's.                       *)
CheckedOutcome(f, s, pending, o) ==
  IF pending /\ Checked(f.op) THEN [how |-> "error", value |-> Last(s)]
  ELSE [how |-> "value", value |-> IF Pushes(f.op) THEN Result(f, o) ELSE Undefined]

(* ~WasmStackFrameScope of callFunction, after returnValue.                *)
FrameEndedByResult(f, s, got) ==        \* mutant: exceptions leave what was pushed
  IF f.op # "call" \/ got.how = "error" THEN s
  ELSE Append(Cut(s, Len(f.saved)), got.value)
FrameEnded(f, s, got) ==
  LET cut == Cut(s, Len(f.saved))
  IN  IF f.op # "call" THEN s
      ELSE IF got.how = "error" THEN cut ELSE Append(cut, got.value)

(* The innermost function has ended with o and left the stack s: its caller*)
(* is JavaScript, or an operation of C++.                                  *)
Arrive(s, o) ==
  LET f == Caller.via
      pending == jsPending \/ o.how = "error"
      got == CheckedOutcome(f, Pushed(f, s, o), pending, o)
      Answered(answer) == [Front(frames) EXCEPT ![Depth - 1].got = answer]
  IN  IF f.op = "none"
      THEN /\ frames' = Answered(o)
           /\ slots' = s
           /\ UNCHANGED <<jsPending, terminated>>
      ELSE IF got.how = "error" /\ NoExcept(f.op)
      THEN /\ terminated' = TRUE
           /\ UNCHANGED <<slots, jsPending, frames>>
      ELSE /\ frames' = Answered(got)
           /\ slots' = FrameEnded(f, Pushed(f, s, o), got)
           /\ jsPending' = (pending /\ ~Checked(f.op))
           /\ UNCHANGED terminated

-----------------------------------------------------------------------------
(* C++                                                                     *)

(* A new Local: newString, Global::get and the like.                       *)
PushLocal(v) ==
  /\ Bodied /\ ~jsPending
  /\ slots' = Append(slots, v)
  /\ UNCHANGED <<jsPending, cppPending, frames, terminated>>

(* A StackFrameScope of the function ends. Stack::setTop is noexcept, as   *)
(* are top and set: after a flag that was left behind each of them ends    *)
(* the program, so the other actions leave that to this one.               *)
EndFrame(top) ==
  /\ Bodied
  /\ slots' = Cut(slots, top)
  /\ terminated' = jsPending
  /\ UNCHANGED <<jsPending, cppPending, frames>>

(* newRawFunction pushes this and the arguments, invokeFunctionHelper a    *)
(* slot for the result.                                                    *)
Invoked(via, s, passed, asked) ==
  LET pushed == s \o passed
      top == Len(pushed)
  IN  /\ slots' = Append(pushed, Undefined)
      /\ frames' = Append(frames, Native(via, Len(s) + 1, top - Len(s), ~InScope, asked))

CallsScript(op, passed) ==
  LET p == Prepared(op, passed)
  IN  /\ Bodied /\ (op \in {"call", "new"} => ~jsPending)
      /\ slots' = p.stack
      /\ frames' = Append(frames, Script(Op(op, passed[1]), p.passed, passed))
      /\ UNCHANGED <<jsPending, cppPending, terminated>>

(* The function, constructor or accessor is a bound one.                   *)
CallsNative(op, passed) ==
  LET p == Prepared(op, passed)
  IN  /\ Bodied /\ ~jsPending
      /\ op \in {"call", "new", "get", "set"}
      /\ Invoked(Op(op, passed[1]), p.stack, p.passed, passed)
      /\ UNCHANGED <<jsPending, cppPending, terminated>>

(* The function returns the Local with index i, 0 when it is empty. Only   *)
(* an EngineScope that has entered the engine cuts the stack back.         *)
ReturnedBelow(f, i) ==                  \* mutant: the slot of the result is cut off
  LET s == [slots EXCEPT ![f.ret] = IF i = 0 THEN Undefined ELSE slots[i]]
  IN  IF f.entered THEN Cut(s, f.ret - 1) ELSE s
Returned(f, i) ==
  LET s == [slots EXCEPT ![f.ret] = IF i = 0 THEN Undefined ELSE slots[i]]
  IN  IF f.entered THEN Cut(s, f.ret) ELSE s

Ended(phase, o) == [frames EXCEPT ![Depth].phase = phase, ![Depth].sent = o]

NativeReturns(i) ==
  LET f == Caller
  IN  /\ Bodied /\ ~jsPending /\ Depth > 1
      /\ "earlierResult" \in Troubles \/ f.entered \/ i = Top
           \/ (Top = f.ret /\ (i = 0 \/ i >= f.base))
      /\ slots' = Returned(f, i)
      /\ frames' = Ended("ended", [how |-> "value", value |-> IF i = 0 THEN Undefined ELSE slots[i]])
      /\ UNCHANGED <<jsPending, cppPending, terminated>>

(* rethrowException. exception() makes Locals, for which there must be an  *)
(* EngineScope: without one std::logic_error leaves the function.          *)
NativeThrows(v) ==
  LET f == Caller
      s == IF f.entered THEN Cut(slots, f.ret) ELSE slots
  IN  /\ Bodied /\ ~jsPending /\ Depth > 1
      /\ f.entered => "throwsToEvents" \in Troubles
      /\ cppPending' = TRUE
      /\ slots' = IF f.entered THEN Append(s, v) ELSE s \o <<v, v>>
      /\ frames' = Ended(IF f.entered THEN "escaped" ELSE "ended", [how |-> "error", value |-> v])
      /\ UNCHANGED <<jsPending, terminated>>

-----------------------------------------------------------------------------
(* JavaScript                                                              *)

Scripted == Caller.kind = "script" /\ Caller.phase = "runs"

ScriptCalls(passed) ==
  /\ Scripted
  /\ Invoked(ByScript, slots, passed, passed)
  /\ UNCHANGED <<jsPending, cppPending, terminated>>

ScriptEnds(o) ==
  /\ Scripted /\ Depth > 1
  /\ o.how = "error" => Caller.via.op \in Ops \ ({"is", "clear"} \ Troubles)
  /\ frames' = Ended("ended", o)
  /\ UNCHANGED <<slots, jsPending, cppPending, terminated>>

ScriptLeaves ==
  /\ Caller.kind = "script" /\ Caller.phase = "ended"
  /\ Arrive(slots, Caller.sent)
  /\ UNCHANGED cppPending

(* The rest of the wrapper: _ScriptX_checkException, the value on top, and *)
(* the finally clause.                                                     *)
WrapperEndsPending ==                   \* mutant: the flag is not reset
  LET f == Caller
      o == IF cppPending THEN [how |-> "error", value |-> Last(slots)]
           ELSE [how |-> "value", value |-> Last(slots)]
  IN  /\ f.kind = "native" /\ f.phase = "ended"
      /\ UNCHANGED cppPending
      /\ Arrive(Cut(slots, f.base - 1), o)
WrapperEndsEarly ==                     \* mutant: finally comes first
  LET f == Caller
      s == Cut(slots, f.base - 1)
      o == [how |-> IF cppPending THEN "error" ELSE "value",
            value |-> IF s = << >> THEN Undefined ELSE Last(s)]
  IN  /\ f.kind = "native" /\ f.phase = "ended"
      /\ cppPending' = FALSE
      /\ Arrive(s, o)
WrapperEnds ==
  LET f == Caller
      o == CASE f.phase = "escaped" -> [how |-> "error", value |-> Foreign]
             [] cppPending /\ f.phase = "ended" -> [how |-> "error", value |-> Last(slots)]
             [] OTHER               -> [how |-> "value", value |-> Last(slots)]
  IN  /\ f.kind = "native" /\ f.phase # "runs"
      /\ cppPending' = (cppPending /\ f.phase = "escaped")
      /\ Arrive(Cut(slots, f.base - 1), o)

-----------------------------------------------------------------------------

Room(n) == Top + n <= MaxSlots
Deeper(n) == Depth + n <= MaxFrames

Next ==
  /\ ~terminated
  /\ \/ Room(1) /\ \E v \in Values : PushLocal(v)
     \/ Bodied /\ \E top \in Caller.ret..Top : EndFrame(top)
     \/ Deeper(1) /\ \E op \in Ops, this \in Values, args \in Lists(1) :
          /\ Takes(op, 1 + Len(args)) /\ Room(3 + Len(args))
          /\ CallsScript(op, <<this>> \o args) \/ CallsNative(op, <<this>> \o args)
     \/ \E i \in 0..Top : NativeReturns(i)
     \/ Room(2) /\ \E v \in Values : NativeThrows(v)
     \/ Deeper(1) /\ \E this \in Values, args \in Lists(1) :
          Room(2 + Len(args)) /\ ScriptCalls(<<this>> \o args)
     \/ \E how \in {"value", "error"}, v \in Values \cup {Undefined} :
          ScriptEnds([how |-> how, value |-> v])
     \/ ScriptLeaves
     \/ WrapperEnds

WasmCallsSpec == Init /\ [][Next]_vars

-----------------------------------------------------------------------------

FrameTypeOK(f) ==
  /\ f.kind \in {"script", "native"} /\ f.phase \in {"runs", "ended", "escaped"}
  /\ f.via.op \in Ops \cup {"none"} /\ f.via.saved \in Seq(Slot)
  /\ {f.got, f.sent} \subseteq Outcome
  /\ f.kind = "script" => f.passed \in Seq(Values)
  /\ f.kind = "native" => f.ret = f.base + f.argc /\ f.ret <= Top

CallsTypeOK ==
  /\ slots \in Seq(Slot)
  /\ {jsPending, cppPending, terminated} \subseteq BOOLEAN
  /\ \A i \in 1..Depth : FrameTypeOK(frames[i])

(* While a function of either language runs no exception is pending: each  *)
(* was thrown by the call that made it (Exception.md:5, "continuing to     *)
(* execute the logic in the event of an exception").                       *)
NothingPends ==
  (Bodied => ~jsPending) /\ (Bodied \/ Scripted => ~cppPending)

(* No exception leaves a function that is declared noexcept: top, setTop   *)
(* and the predicates of Stack (WasmHelper.h).                             *)
NoexceptHolds == ~terminated

(* A call gives the stack back as it was: to JavaScript exactly, to C++    *)
(* with the result or the exception on top, however the callees ended.     *)
StackIsGivenBack ==
  [][Len(frames') < Depth =>
       LET before == Caller.via.saved
       IN  /\ Len(slots') - Len(before) \in IF Caller.via.op = "none" THEN {0} ELSE 0..1
           /\ Cut(slots', Len(before)) = before]_vars

(* Arguments are read from the stack, while the function pushes, calls and *)
(* cuts back: they are what its caller passed as long as it runs.          *)
Passed(f) ==
  IF f.kind = "script" THEN f.passed
  ELSE SubSeq(slots, f.base, f.base + f.argc - 1)
ArgumentsStay ==
  \A i \in 1..Depth :
    frames[i].phase = "runs" => Passed(frames[i]) = frames[i].asked

(* The functions that run, with what each got and sent.                    *)
WantsOf(i) == IF i = 1 THEN "nothing" ELSE Wants(frames[i].via.op)

Abstracted ==
  [i \in 1..Depth |->
     [wants |-> WantsOf(i), passed |-> frames[i].asked, got |-> frames[i].got,
      sent |-> frames[i].sent]]

Calls == INSTANCE ScriptCalls WITH calls <- Abstracted

(* Results and exceptions of functions arrive, once, at their callers.     *)
CallsArrive == Calls!CallsSpec

(* Together.                                                               *)
CallsAreKept ==
  CallsArrive /\ StackIsGivenBack /\ [](NothingPends /\ ArgumentsStay /\ NoexceptHolds)
=============================================================================
