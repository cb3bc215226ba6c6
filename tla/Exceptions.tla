----------------------------- MODULE Exceptions -----------------------------
(***************************************************************************)
(* script::Exception: what is thrown in scripts becomes one in C++, what   *)
(* is thrown in C++ becomes a value of the script, and the fields, the     *)
(* value and the message, are filled when they are first asked for. All of *)
(* it happens in the scope of one engine.                                  *)
(***************************************************************************)
EXTENDS Backend, Naturals

CONSTANTS
  Slots,      \* variables of the program that hold an Exception
  Texts,      \* messages
  Lost,       \* any text that is not the message that was thrown
  NoText,
  MaxValues   \* bound: values thrown or made in one behaviour

ASSUME ExceptionAssumption == NoText \notin Texts \cup {Lost} /\ MaxValues \in Nat

VARIABLES
  excs,     \* the ExceptionFields of each slot, and where they come from
  thrown,   \* what is thrown in the script: a value, and where it comes from
  values    \* how many values there are

excVars == <<backend, excs, thrown, values>>

JsBackends == {"QuickJs", "V8", "JavaScriptCore", "WebAssembly"}

(* A text is the one that was given first, and what backends and engines   *)
(* have put in front of it since, counted.                                 *)
Bare(text) == [of |-> text, added |-> 0]
Prefixed(text) == [text EXCEPT !.added = @ + 1]
Unknown == Bare(Lost)
NoMessage == Bare(NoText)

(* A value of the script that is thrown: an "error" has a message and a    *)
(* stack, a "primitive" is its text. In Lua a "table" is one that a script *)
(* made, with a field message; Python's "other" are instances of exception *)
(* types whose constructors do not take one argument.                      *)
Kinds == CASE backend = "Lua"    -> {"primitive", "table"}
           [] backend = "Python" -> {"error", "other"}
           [] OTHER              -> {"error", "primitive"}

Value(kind, text, id) == [kind |-> kind, text |-> text, id |-> id]
NoValue == Value("none", NoMessage, 0)

(* Where an exception comes from: its text, the value that was thrown      *)
(* first, and whether it was of a kind that some backend has no message of;*)
(* hops counts, for the properties, how often it was caught in C++ or      *)
(* thrown by Lua's error.                                                  *)
Origin(text, id, odd) == [text |-> text, id |-> id, odd |-> odd, hops |-> 0]
Crossed(origin) == [origin EXCEPT !.hops = @ + 1]

Exc(value, message, origin) ==
  [value |-> value, message |-> message, hasMessage |-> message # NoMessage, origin |-> origin]
NoExc == Exc(NoValue, NoMessage, Origin(NoText, 0, FALSE))
NotThrown == [value |-> NoValue, origin |-> Origin(NoText, 0, FALSE)]

ExcInit ==
  /\ backend \in BackendNames
  /\ excs = [x \in Slots |-> NoExc]
  /\ thrown = NotThrown
  /\ values = 0

Held == {x \in Slots : excs[x] # NoExc}
Fresh == values + 1

-----------------------------------------------------------------------------
(* Constructors.                                                           *)

(* Exception(std::string).                                                 *)
NewFromText ==
  /\ values < MaxValues
  /\ \E x \in Slots, text \in Texts :
       IF backend = "Python"   \* makes an instance of scriptxExceptionTypeObj
       THEN /\ excs' = [excs EXCEPT ![x] = Exc(Value("error", Bare(text), Fresh), NoMessage,
                                               Origin(text, Fresh, FALSE))]
            /\ values' = Fresh
       ELSE /\ excs' = [excs EXCEPT ![x] = Exc(NoValue, Bare(text), Origin(text, 0, FALSE))]
            /\ UNCHANGED values
  /\ UNCHANGED <<backend, thrown>>

(* Exception(const Local<String>&): the text in QuickJs, the string itself *)
(* in Lua, an error in the others.                                         *)
NewFromString ==
  /\ backend # "QuickJs" /\ values < MaxValues
  /\ \E x \in Slots, text \in Texts :
       excs' = [excs EXCEPT ![x] =
                  Exc(Value(IF backend = "Lua" THEN "primitive" ELSE "error", Bare(text), Fresh),
                      NoMessage, Origin(text, Fresh, FALSE))]
  /\ values' = Fresh
  /\ UNCHANGED <<backend, thrown>>

(* Exception(const Local<Value>&).                                         *)
NewFromValue ==
  /\ \E x \in Held, y \in Slots :
       /\ excs[x].value # NoValue
       /\ excs' = [excs EXCEPT ![y] = Exc(excs[x].value, NoMessage, excs[x].origin)]
  /\ UNCHANGED <<backend, thrown, values>>

Copy ==
  /\ \E x \in Held, y \in Slots : excs' = [excs EXCEPT ![y] = excs[x]]
  /\ UNCHANGED <<backend, thrown, values>>

-----------------------------------------------------------------------------
(* Members.                                                                *)

(* The message of a value. JavaScript: that of an object; V8 has the engine*)
(* describe it ("Uncaught Error: ..."), and Lua describes what is no table,*)
(* or has no message; Python's is the argument the instance was made with. *)
QjsMessage(value) == IF value.kind = "error" THEN value.text ELSE Unknown
V8Message(value) == IF value.kind # "primitive" THEN Prefixed(value.text) ELSE Unknown
JscMessage(value) == IF value.kind = "error" THEN value.text ELSE Unknown
WasmMessage(value) == IF value.kind = "error" THEN value.text ELSE Unknown
LuaMessage(value) == IF value.kind # "table" THEN value.text ELSE Unknown
PyMessage(value) == IF value.kind # "other" THEN value.text ELSE Unknown

MessageIn(value) ==
  [QuickJs |-> QjsMessage(value), V8 |-> V8Message(value), JavaScriptCore |-> JscMessage(value),
   Lua |-> LuaMessage(value), Python |-> PyMessage(value), WebAssembly |-> WasmMessage(value)]

(* Mutant: no message of a value that is no object, in any backend.        *)
MessageOfObject(value) == QjsMessage(value)

MessageOf(value) == MessageIn(value)[backend]

fillMessage(exc) ==
  IF exc.hasMessage THEN exc
  ELSE [exc EXCEPT !.message = MessageOf(exc.value), !.hasMessage = TRUE]

(* message(), what().                                                      *)
GetMessage ==
  /\ \E x \in Held : excs' = [excs EXCEPT ![x] = fillMessage(@)]
  /\ UNCHANGED <<backend, thrown, values>>

(* exception(): a value made of the message, a new error or in Lua the text*)
(* itself. Python's exceptions always have their value.                    *)
Made(kind, exc) ==
  [exc EXCEPT !.value = Value(kind, exc.message, Fresh),
              !.origin.id = IF @ = 0 THEN Fresh ELSE @]
QjsMade(exc) == Made("error", exc)
V8Made(exc) == Made("error", exc)
JscMade(exc) == Made("error", exc)
WasmMade(exc) == Made("error", exc)
LuaMade(exc) == Made("primitive", exc)

fillValue(exc) ==
  IF exc.value # NoValue THEN exc
  ELSE CASE backend = "QuickJs"        -> QjsMade(exc)
         [] backend = "V8"             -> V8Made(exc)
         [] backend = "JavaScriptCore" -> JscMade(exc)
         [] backend = "WebAssembly"    -> WasmMade(exc)
         [] backend = "Lua"            -> LuaMade(exc)

GetValue ==
  /\ values < MaxValues
  /\ \E x \in Held : excs' = [excs EXCEPT ![x] = fillValue(@)]
  /\ values' = Fresh
  /\ UNCHANGED <<backend, thrown>>

-----------------------------------------------------------------------------
(* An Exception leaves a callback for the script that called it. Lua throws*)
(* its message.                                                            *)
LeaveCallback ==
  /\ thrown = NotThrown /\ values < MaxValues
  /\ \E x \in Held :
       LET exc == IF backend = "Lua" THEN fillMessage(excs[x]) ELSE fillValue(excs[x])
           value == IF backend = "Lua" THEN Value("primitive", exc.message, Fresh) ELSE exc.value
       IN /\ thrown' = [value |-> value, origin |-> exc.origin]
          /\ excs' = [excs EXCEPT ![x] = NoExc]
  /\ values' = Fresh
  /\ UNCHANGED backend

ScriptThrows ==
  /\ thrown = NotThrown /\ values < MaxValues
  /\ \E kind \in Kinds, text \in Texts :
       thrown' = [value |-> Value(kind, Bare(text), Fresh),
                  origin |-> Origin(text, Fresh,
                                    kind \in {"table", "other"} \/ (kind = "primitive" /\ backend # "Lua"))]
  /\ values' = Fresh
  /\ UNCHANGED <<backend, excs>>

(* The program has passed exception() to a script, which throws it.        *)
ScriptThrowsPassed ==
  /\ thrown = NotThrown
  /\ \E x \in Held :
       /\ excs[x].value # NoValue
       /\ thrown' = [value |-> excs[x].value,
                     origin |-> [excs[x].origin EXCEPT
                                   !.odd = @ \/ (backend = "Lua" /\ excs[x].value.kind # "primitive")]]
  /\ UNCHANGED <<backend, excs, values>>

(* Lua's error, called with a string, the first one or the one of an error *)
(* that the script has caught, puts the position in front of it.           *)
LuaThrowsOn ==
  /\ backend = "Lua" /\ thrown.value.kind = "primitive" /\ values < MaxValues
  /\ thrown' = [value  |-> Value("primitive", Prefixed(thrown.value.text), Fresh),
                origin |-> Crossed(thrown.origin)]
  /\ values' = Fresh
  /\ UNCHANGED <<backend, excs>>

ScriptCatches ==
  /\ thrown # NotThrown
  /\ thrown' = NotThrown
  /\ UNCHANGED <<backend, excs, values>>

(* The Exception that C++ gets when a script throws value.                 *)
Kept(value, origin) == Exc(value, NoMessage, origin)

(* Mutant: the value that is dropped has no substitute.                    *)
QjsCaughtNothing(value, origin) ==
  IF value.kind = "primitive" THEN Exc(NoValue, NoMessage, origin) ELSE Kept(value, origin)
(* What is no object is dropped: "Unknown Error".                          *)
QjsCaught(value, origin) ==
  IF value.kind = "primitive" THEN Exc(NoValue, Unknown, origin) ELSE Kept(value, origin)
V8Caught(value, origin) == Kept(value, origin)
(* Mutant: only the message is kept.                                       *)
JscCaughtAsText(value, origin) == Exc(NoValue, JscMessage(value), origin)
JscCaught(value, origin) == Kept(value, origin)
(* The constructor makes an error of what is no object.                    *)
WasmCaught(value, origin) ==
  Kept(IF value.kind = "primitive" THEN Value("error", value.text, Fresh) ELSE value, origin)
(* What is no table becomes the message of one; a table that has a message *)
(* gets itself as its message.                                             *)
LuaCaught(value, origin) ==
  Kept(IF value.kind = "primitive" THEN Value("error", value.text, Fresh)
       ELSE [value EXCEPT !.kind = "table"], origin)
(* A new instance of the type, with the name of the type in front of the   *)
(* message each time, or, when that fails, another error.                  *)
PyCaught(value, origin) ==
  Kept(Value("error", IF value.kind = "error" THEN Prefixed(value.text) ELSE Unknown, Fresh),
       origin)

Caught(value, origin) ==
  CASE backend = "QuickJs"        -> QjsCaught(value, origin)
    [] backend = "V8"             -> V8Caught(value, origin)
    [] backend = "JavaScriptCore" -> JscCaught(value, origin)
    [] backend = "WebAssembly"    -> WasmCaught(value, origin)
    [] backend = "Lua"            -> LuaCaught(value, origin)
    [] backend = "Python"         -> PyCaught(value, origin)

(* The call of the script returns to C++ with an Exception.                *)
CatchInCpp ==
  /\ thrown # NotThrown /\ values < MaxValues
  /\ \E x \in Slots : excs' = [excs EXCEPT ![x] = Caught(thrown.value, Crossed(thrown.origin))]
  /\ thrown' = NotThrown
  /\ values' = Fresh
  /\ UNCHANGED backend

ExcNext ==
  \/ NewFromText \/ NewFromString \/ NewFromValue \/ Copy \/ GetMessage \/ GetValue
  \/ LeaveCallback \/ ScriptThrows \/ ScriptThrowsPassed \/ LuaThrowsOn
  \/ ScriptCatches \/ CatchInCpp

ExcSpec == ExcInit /\ [][ExcNext]_excVars

-----------------------------------------------------------------------------
(* PROPERTIES *)

Messages == [of: Texts \cup {Lost, NoText}, added: Nat]
ExcValues ==
  [kind: {"none", "error", "primitive", "table", "other"}, text: Messages, id: 0..MaxValues]

(* Types; and an Exception without a value has its message, which is all   *)
(* that exception() has to make one of.                                    *)
ExcTypeOK ==
  /\ values \in 0..MaxValues
  /\ thrown.value \in ExcValues
  /\ \A x \in Held :
       /\ excs[x].value \in ExcValues
       /\ excs[x].message \in Messages
       /\ excs[x].value = NoValue => excs[x].hasMessage

(* How often something was put in front of a text on its way: V8 describes *)
(* a value whose message is read, but not what C++ gave as text; Python    *)
(* adds the name of the type at every crossing, and Lua the position where *)
(* error was used.                                                         *)
Added(origin) == CASE backend = "V8"     -> {0, 1}
                   [] backend = "Python" -> {origin.hops}
                   [] backend = "Lua"    -> 0..origin.hops
                   [] OTHER              -> {0}

(* However often an exception crosses between scripts and C++, and is      *)
(* copied and asked for its message and value on the way, its message      *)
(* contains that of what was thrown first, and in front of it only what    *)
(* this backend adds for as many crossings: in QuickJs, JavaScriptCore and *)
(* WebAssembly nothing. Not so what JavaScript throws that is no object (in*)
(* WebAssembly it is), Lua's tables, and Python's types that cannot be made*)
(* anew.                                                                   *)
MessagesArrive ==
  \A x \in Held :
    excs[x].hasMessage /\ (excs[x].origin.odd => backend = "WebAssembly") =>
      /\ excs[x].message.of = excs[x].origin.text
      /\ excs[x].message.added \in Added(excs[x].origin)

(* In JavaScript the value stays the object that was thrown first, or that *)
(* exception() has made.                                                   *)
ValuesKeepIdentity ==
  backend \in JsBackends =>
    \A x \in Held :
      excs[x].value # NoValue /\ ~excs[x].origin.odd => excs[x].value.id = excs[x].origin.id

(* Together.                                                               *)
ExceptionsArrive == MessagesArrive /\ ValuesKeepIdentity
=============================================================================
