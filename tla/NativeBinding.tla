--------------------------- MODULE NativeBinding ---------------------------
(***************************************************************************)
(* Calls from scripts to bound C++ functions, getters and setters: how the *)
(* callbacks that Native.hpp makes of them convert arguments and results,  *)
(* choose among overloads, and let exceptions through, and where the       *)
(* backends catch those. The state is the C++ stack of one thread: scripts *)
(* and the native bodies that they call and that call them.                *)
(***************************************************************************)
EXTENDS Backend, SequencesExt

CONSTANT BindDepth   \* bound: frames on the stack

VARIABLES
  frames,
  result   \* what the frame that was left gives the innermost one

bindVars == <<backend, frames, result>>

Results ==
  {"none",       \* no frame was left
   "value", "null",
   "mismatch",   \* an Exception: an argument or a result cannot be converted
   "threw",      \* an Exception that a body or a script has thrown
   "overload",   \* OverloadInvalidArguments
   "noInstance", \* an object of a class without a native instance
   "escaped"}    \* a C++ exception leaves for the frames of the engine

(* What can be bound. converts: the signature is not the callback's own.   *)
Raw(member, role) ==
  [member |-> member, role |-> role, converts |-> FALSE,
   nothrow |-> FALSE, throwForOverload |-> FALSE, funcs |-> <<>>]
Converting(member, role, nothrow) ==
  [Raw(member, role) EXCEPT !.converts = TRUE, !.nothrow = nothrow]

bindStaticFunc(nothrow, throwForOverload) ==
  [Converting("static", "function", nothrow) EXCEPT !.throwForOverload = throwForOverload]
bindInstanceFunc(nothrow, throwForOverload) ==
  [Converting("instance", "function", nothrow) EXCEPT !.throwForOverload = throwForOverload]

bindStaticGet(nothrow)   == Converting("static", "getter", nothrow)
bindInstanceGet(nothrow) == Converting("instance", "getter", nothrow)
bindStaticSet(nothrow)   == Converting("static", "setter", nothrow)
bindInstanceSet(nothrow) == Converting("instance", "setter", nothrow)

Adapted(member, functions) ==
  [Raw(member, "overloads") EXCEPT !.funcs = functions]

(* Every alternative is bound with nothrow off and throwForOverload on, but*)
(* a callback, an adapted one too, which is taken as it is.                *)
adaptOverLoadedFunction ==
  LET alternatives == {bindStaticFunc(FALSE, TRUE), Raw("static", "function")}
      inner == Adapted("static", <<bindStaticFunc(FALSE, TRUE)>>)
  IN {Adapted("static", <<f, g>>) : f \in alternatives \cup {inner}, g \in alternatives}
adaptOverloadedInstanceFunction ==
  {Adapted("instance", <<f, g>>) : f, g \in {bindInstanceFunc(FALSE, TRUE),
                                           Raw("instance", "function")}}

(* Mutant: throwForOverload also for a function that stands alone.         *)
MembersForOverload ==
  {Raw("static", role) : role \in {"function", "getter", "setter"}}
    \cup {bindStaticFunc(nothrow, TRUE) : nothrow \in BOOLEAN}
    \cup adaptOverLoadedFunction

(* The members that builders of classes and newFunction make.              *)
CallbackMembers ==
  {Raw(member, role) : member \in {"static", "instance"},
                         role \in {"function", "getter", "setter"}}
    \cup {Raw("instance", "constructor")}
BoundMembers(nothrow) ==
  {bindStaticFunc(nothrow, FALSE), bindInstanceFunc(nothrow, FALSE),
   bindStaticGet(nothrow), bindInstanceGet(nothrow),
   bindStaticSet(nothrow), bindInstanceSet(nothrow)}

Members ==
  CallbackMembers \cup BoundMembers(TRUE) \cup BoundMembers(FALSE)
    \cup adaptOverLoadedFunction \cup adaptOverloadedInstanceFunction

-----------------------------------------------------------------------------
(* Frames. A script's remembers the member it calls, how many bodies have  *)
(* run for that call, and whether one of them threw; a body's whether its  *)
(* arguments were converted; an adapted function's what it is trying.      *)

NoMember == Raw("static", "none")
Frame(at, member) ==
  [at |-> at, member |-> member, bodies |-> 0, bodyThrew |-> FALSE,
   args |-> TRUE, trying |-> 0]

ScriptFrame == Frame("script", NoMember)
Top == Last(frames)
Running(at) == result = "none" /\ Top.at = at
Back(at) == result # "none" /\ Top.at = at

Push(frame) == frames' = Append(frames, frame) /\ result' = "none"
Leave(with) == frames' = Front(frames) /\ result' = with

Caller == SelectLastInSubSeq(frames, 1, Len(frames), LAMBDA frame : frame.at = "script")
Called(frame) == [frames EXCEPT ![Caller].bodies = @ + 1, ![Len(frames)] = frame]

BindInit == backend \in BackendNames /\ frames = <<ScriptFrame>> /\ result = "none"

Failed == {"mismatch", "threw", "overload"}

(* The members whose callback a backend calls inside the try that makes an *)
(* Exception one of the script's.                                          *)
Roles == {"function", "overloads", "getter", "setter", "constructor"}

QjsGuarded == Roles
V8StaticGuarded == Roles \ {"getter"}
V8InstanceGuarded == Roles \ {"getter"}
JscStaticGuarded   == Roles
JscInstanceGuarded == Roles
LuaStaticGuarded   == Roles
LuaInstanceGuarded == Roles
PyStaticGuarded   == Roles
PyInstanceGuarded == Roles \ {"constructor"}   \* tp_init has no try
WasmGuarded == Roles

Guarded(member) ==
  LET static == member.member = "static"
  IN member.role \in
       CASE backend = "QuickJs"        -> QjsGuarded
         [] backend = "V8"             -> IF static THEN V8StaticGuarded ELSE V8InstanceGuarded
         [] backend = "JavaScriptCore" -> IF static THEN JscStaticGuarded ELSE JscInstanceGuarded
         [] backend = "Lua"            -> IF static THEN LuaStaticGuarded ELSE LuaInstanceGuarded
         [] backend = "Python"         -> IF static THEN PyStaticGuarded ELSE PyInstanceGuarded
         [] backend = "WebAssembly"    -> WasmGuarded

(* Python's callbacks catch everything, the others script::Exception.      *)
Catches(member, with) == Guarded(member) /\ (with = "overload" => backend = "Python")

(* What a member has left, or a script the script called, comes back: the  *)
(* script goes on, or lets an exception through to what called it.         *)
CallReturns ==
  /\ Back("script")
  /\ result \in Failed => Catches(Top.member, result)
  /\ \/ frames' = [frames EXCEPT ![Len(frames)] = ScriptFrame] /\ result' = "none"
     \/ result \in Failed /\ Len(frames) > 1 /\ Leave("threw")

(* Nothing between the callback and the engine catches it. The model stops.*)
Escapes ==
  /\ Back("script") /\ result \in Failed
  /\ ~Catches(Top.member, result)
  /\ result' = "escaped" /\ UNCHANGED frames

ScriptCalls ==
  /\ Running("script") /\ Len(frames) + 3 <= BindDepth
  /\ \E member \in Members :
       /\ frames' = Append([frames EXCEPT ![Len(frames)].member = member],
                           Frame(IF member.role = "overloads" THEN "overloads" ELSE "call",
                                 member))
       /\ result' = "none"

(* The script called by a body, itself or through a function's wrapper.    *)
ScriptEnds ==
  /\ Running("script") /\ Len(frames) > 1
  /\ \E with \in {"value", "threw"} : Leave(with)

-----------------------------------------------------------------------------
(* The call of a bound function: conversion of arguments, body, result.    *)

EnterBody(args) ==
  /\ frames' = Called([Top EXCEPT !.at = "body", !.args = args])
  /\ result' = "none"

handleException(member, with) == IF member.nothrow THEN "null" ELSE with

handleParamConvertFailure(member) ==
  IF ~member.nothrow /\ member.throwForOverload THEN "overload"
  ELSE handleException(member, "mismatch")

ArgumentsFit ==
  /\ Running("call")
  /\ EnterBody(TRUE)

(* A wrong count of arguments, or one that cannot be converted.            *)
FunctionMismatch ==
  /\ Running("call") /\ Top.member.converts /\ Top.member.role = "function"
  /\ Leave(handleParamConvertFailure(Top.member))

(* A setter bound with nothrow goes on to its body, with nothing to pass.  *)
SetterMismatch ==
  /\ Running("call") /\ Top.member.converts /\ Top.member.role = "setter"
  /\ IF Top.member.nothrow THEN EnterBody(FALSE) ELSE Leave("mismatch")

(* A constructor returns null: all but Lua's look.                         *)
NullInstance == IF backend = "Lua" THEN "noInstance" ELSE "threw"

BodyReturns ==
  /\ Running("body")
  /\ \/ Leave(IF Top.member.role = "setter" THEN "null" ELSE "value")
     \/ Top.member.role = "constructor" /\ Leave(NullInstance)
     \/ Top.member.converts /\ Top.member.role # "setter"
        /\ Leave(handleException(Top.member, "mismatch"))

Threw == [frames EXCEPT ![Caller].bodyThrew = TRUE]

(* Mutant: the call of every body is inside the try.                       *)
BodyExceptionSwallowed(member) == handleException(member, "threw")

(* An instance getter is called inside the try that converts its result.   *)
BodyException(member) ==
  IF member.role = "getter" /\ member.member = "instance" THEN handleException(member, "threw")
  ELSE "threw"

BodyThrows ==
  /\ Running("body")
  /\ frames' = Front(Threw)
  /\ result' = BodyException(Top.member)

BodyCallsScript ==
  /\ Running("body") /\ Len(frames) < BindDepth
  /\ Push(ScriptFrame)

(* A std::function made by createFunctionWrapper.                          *)
BodyCallsWrapper ==
  /\ Running("body") /\ Len(frames) + 2 <= BindDepth
  /\ frames' = frames \o <<Frame("wrapper", NoMember), ScriptFrame>>
  /\ result' = "none"
WrapperReturns ==
  /\ Back("wrapper")
  /\ \E with \in {result} \cup (IF result = "value" THEN {"mismatch"} ELSE {}) : Leave(with)

(* The body has what it called for: it goes on, or an exception leaves it. *)
BodyResumes ==
  /\ Back("body")
  /\ \/ frames' = frames /\ result' = "none"
     \/ /\ result \in Failed
        /\ frames' = Front(Threw)
        /\ result' = BodyException(Top.member)

-----------------------------------------------------------------------------
(* The loop over the alternatives of an adapted function.                  *)

TryNext ==
  /\ Running("overloads")
  /\ LET i == Top.trying + 1
         f == Top.member.funcs[i]
     IN frames' = Append([frames EXCEPT ![Len(frames)].trying = i],
                         Frame(IF f.role = "overloads" THEN "overloads" ELSE "call", f))
  /\ result' = "none"

(* Mutant: any exception of an alternative sends the call to the next one. *)
AlternativeEndsAny ==
  /\ Back("overloads")
  /\ LET last == Top.trying = Len(Top.member.funcs)
     IN IF result \in Failed /\ ~last THEN frames' = frames /\ result' = "none"
        ELSE Leave(IF result = "overload" THEN "mismatch" ELSE result)

AlternativeEnds ==
  /\ Back("overloads")
  /\ LET last == Top.trying = Len(Top.member.funcs)
     IN IF result = "overload" /\ ~last THEN frames' = frames /\ result' = "none"
        ELSE Leave(IF result = "overload" THEN "mismatch" ELSE result)

BindStep ==
  \/ ScriptCalls \/ ScriptEnds \/ CallReturns \/ Escapes
  \/ ArgumentsFit \/ FunctionMismatch \/ SetterMismatch
  \/ BodyReturns \/ BodyThrows \/ BodyResumes
  \/ BodyCallsScript \/ BodyCallsWrapper \/ WrapperReturns
  \/ TryNext \/ AlternativeEnds

BindNext == result # "escaped" /\ BindStep /\ UNCHANGED backend

BindSpec == BindInit /\ [][BindNext]_bindVars

BindTypeOK ==
  /\ backend \in BackendNames
  /\ result \in Results
  /\ Len(frames) \in 1..BindDepth
  /\ \A i \in DOMAIN frames :
       /\ frames[i].at \in {"script", "overloads", "call", "body", "wrapper"}
       /\ frames[i].bodies \in 0..1
       /\ frames[i].trying \in 0..Len(frames[i].member.funcs)
       /\ frames[i].member \in Members \cup {NoMember}
            \cup (UNION {ToSet(m.funcs) : m \in Members})
            \cup (UNION {UNION {ToSet(f.funcs) : f \in ToSet(m.funcs)} : m \in Members})

-----------------------------------------------------------------------------
(* PROPERTIES *)

Answered == Back("script") /\ Top.member # NoMember

(* A call that a script makes runs one body, or none and ends with an      *)
(* exception, or, only when bound with nothrow, with null: an adapted      *)
(* function never goes on to another alternative once a body has run, and  *)
(* no call is answered with a value that no body has made.                 *)
OneBodyAnswers ==
  Answered /\ result # "escaped" =>
    \/ Top.bodies = 1
    \/ Top.bodies = 0 /\ result = "mismatch"
    \/ Top.bodies = 0 /\ result = "null" /\ Top.member.nothrow

(* What a body throws, however deep the scripts and bodies are nested,     *)
(* reaches the script that called it, unless the body is an instance getter*)
(* bound with nothrow.                                                     *)
BodyExceptionsArrive ==
  Answered /\ Top.bodyThrew /\ result # "escaped" =>
    \/ result = "threw"
    \/ Top.member.role = "getter" /\ Top.member.member = "instance" /\ Top.member.nothrow

(* Only from getters of V8 and constructors of Python does a C++ exception *)
(* leave for the engine's frames; OverloadInvalidArguments, which is no    *)
(* script::Exception and which no backend but Python would catch, never    *)
(* leaves the loop of adaptOverLoadedFunction.                             *)
EscapesAreKnown ==
  /\ result = "overload" => Top.at = "overloads"
  /\ result = "escaped" =>
       \/ backend = "V8" /\ Top.member.role = "getter"
       \/ backend = "Python" /\ Top.member.role = "constructor"

(* Together.                                                               *)
CallsAreAnswered == OneBodyAnswers /\ BodyExceptionsArrive /\ EscapesAreKnown
=============================================================================
