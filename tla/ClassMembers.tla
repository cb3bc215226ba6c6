---------------------------- MODULE ClassMembers ----------------------------
(***************************************************************************)
(* The members of a native class: what a ClassDefineBuilder collects, what *)
(* build() refuses, where registration puts the members in each backend,   *)
(* and what scripts get that read, assign and call them. One class, one    *)
(* instance of it, one engine; scripts are not in JavaScript's strict mode.*)
(***************************************************************************)
EXTENDS Backend

CONSTANTS
  Names,      \* of members
  NoName,     \* the empty string
  MaxMembers  \* bound

VARIABLES
  define,   \* the builder's, then the ClassDefine's
  phase,
  object,   \* what the class object, the instance have themselves
  behind,   \* and what is found when they have not: prototype, metatable, type
  given,    \* what scripts have assigned where there is no property (ghost)
  answer    \* to the last thing a script did

memberVars == <<backend, define, phase, object, behind, given, answer>>

Sides == {"static", "instance"}

(* A function or a property; which of its callbacks are not null.          *)
Function(side, name, callback) ==
  [side |-> side, name |-> name, is |-> "function", getter |-> callback, setter |-> FALSE]
Property(side, name, getter, setter) ==
  [side |-> side, name |-> name, is |-> "property", getter |-> getter, setter |-> setter]
MembersOf(side) ==
  {Function(side, name, callback) : name \in Names \cup {NoName}, callback \in BOOLEAN}
    \cup {Property(side, name, getter, setter) :
            name \in Names \cup {NoName}, getter, setter \in BOOLEAN}

Of(d, side) == {m \in d.members : m.side = side}
At(d, side, name) == {m \in Of(d, side) : m.name = name}

-----------------------------------------------------------------------------
(* Definition. typed: T is a ScriptClass, not void.                        *)

AddMember(m) ==
  /\ phase = "building"
  /\ m.side = "instance" => define.typed
  /\ At(define, m.side, m.name) = {} /\ Cardinality(define.members) < MaxMembers
  /\ define' = [define EXCEPT !.members = @ \cup {m}]
  /\ UNCHANGED <<backend, phase, object, behind, given, answer>>

SetConstructor ==
  /\ phase = "building" /\ define.typed
  /\ define' = [define EXCEPT !.constructor = TRUE]
  /\ UNCHANGED <<backend, phase, object, behind, given, answer>>

Complete(m) ==
  /\ m.name # NoName
  /\ IF m.is = "function" THEN m.getter ELSE m.getter \/ m.setter

validateClassDefine(d) ==
  /\ d.named
  /\ d.constructor \/ d.members # {}
  /\ \A m \in Of(d, "static") : Complete(m)
  /\ IF d.constructor THEN d.typed /\ \A m \in Of(d, "instance") : Complete(m)
     ELSE Of(d, "instance") = {}

Build ==
  /\ phase = "building"
  /\ phase' = IF validateClassDefine(define) THEN "built" ELSE "refused"
  /\ UNCHANGED <<backend, define, object, behind, given, answer>>

-----------------------------------------------------------------------------
(* Registration. A slot holds a function, a property's two functions (the  *)
(* callback's, one that does nothing, or none) or a script's value.        *)

Slot(is, of, get, set) == [is |-> is, of |-> of, get |-> get, set |-> set]
NoMember == Property("static", NoName, FALSE, FALSE)
Empty    == Slot("nothing", NoMember, "none", "none")
OwnValue == Slot("value", NoMember, "none", "none")
Bare     == [name \in Names |-> Empty]

Bound(present, otherwise) == IF present THEN "callback" ELSE otherwise
Accessor(m, noGetter, noSetter) ==
  Slot("property", m, Bound(m.getter, noGetter), Bound(m.setter, noSetter))

V8Static(m)    == Accessor(m, "none", "empty")
V8Instance(m)  == Accessor(m, "none", "none")
QjsStatic(m)   == Accessor(m, "none", "none")
QjsInstance(m) == Accessor(m, "none", "none")
JscStatic(m)   == Accessor(m, "none", "none")
JscInstance(m) == Accessor(m, "none", "none")
WasmStatic(m)  == Accessor(m, "empty", "empty")   \* _ScriptX_Native_defineProperty
LuaStatic(m)   == Accessor(m, "empty", "empty")
LuaInstance(m) == Accessor(m, "empty", "empty")
PyStatic(m)    == Accessor(m, "empty", "empty")   \* emptyPyFunction
PyInstance(m)  == Accessor(m, "empty", "empty")

SlotOf(m) ==
  LET static == m.side = "static"
  IN  CASE m.is = "function"           -> Slot("function", m, Bound(m.getter, "null"), "none")
        [] backend = "V8"              -> IF static THEN V8Static(m) ELSE V8Instance(m)
        [] backend = "QuickJs"         -> IF static THEN QjsStatic(m) ELSE QjsInstance(m)
        [] backend = "JavaScriptCore"  -> IF static THEN JscStatic(m) ELSE JscInstance(m)
        [] backend = "WebAssembly"     -> WasmStatic(m)
        [] backend = "Lua"             -> IF static THEN LuaStatic(m) ELSE LuaInstance(m)
        [] backend = "Python"          -> IF static THEN PyStatic(m) ELSE PyInstance(m)

With(slots, members) ==
  [name \in Names |->
     IF \E m \in members : m.name = name
     THEN SlotOf(CHOOSE m \in members : m.name = name) ELSE slots[name]]

(* The constructor, or an object, has the static members; its prototype    *)
(* the others.                                                             *)
JsRegisters ==
  /\ object' = [object EXCEPT !.static = With(Bare, Of(define, "static"))]
  /\ behind' = [behind EXCEPT !.instance = With(Bare, Of(define, "instance"))]
  /\ phase' = "registered"

(* Properties are in the tables of a metatable's __index and __newindex,   *)
(* functions of instances in a table behind those.                         *)
LuaRegisters ==
  LET static(is) == {m \in Of(define, "static") : m.is = is}
  IN  /\ object' = [object EXCEPT !.static = With(Bare, static("function"))]
      /\ behind' = [static   |-> With(Bare, static("property")),
                    instance |-> With(Bare, Of(define, "instance"))]
      /\ phase' = "registered"

(* scriptx_type's tp_setattro: a static_property in the type is not        *)
(* replaced, but by another one: its setter is called.                     *)
IsStaticProperty(slot) == slot.is = "property" /\ slot.of.side = "static"
CallsSetter(type, name, slot) == IsStaticProperty(type[name]) /\ ~IsStaticProperty(slot)
Setattro(type, name, slot) ==
  IF CallsSetter(type, name, slot) THEN type ELSE [type EXCEPT ![name] = slot]

(* A type has both sides: static properties, then static functions, then   *)
(* instance properties and functions. A setter that is given a descriptor  *)
(* may throw.                                                              *)
PyGroup(type, side, is) ==
  [name \in Names |->
     LET members == {m \in At(define, side, name) : m.is = is}
     IN  IF members = {} THEN type[name]
         ELSE Setattro(type, name, SlotOf(CHOOSE m \in members : TRUE))[name]]
PyType ==
  PyGroup(PyGroup(PyGroup(PyGroup(Bare, "static", "property"), "static", "function"),
                  "instance", "property"), "instance", "function")
PyRegisters ==
  /\ object' = [object EXCEPT !.static = PyType]
  /\ UNCHANGED behind
  /\ \/ phase' = "registered"
     \/ /\ \E m \in Of(define, "instance") :
             \E p \in At(define, "static", m.name) : p.is = "property" /\ p.setter
        /\ phase' = "refused"

Register ==
  /\ phase = "built"
  /\ CASE backend = "Lua"    -> LuaRegisters
       [] backend = "Python" -> PyRegisters
       [] OTHER              -> JsRegisters
  /\ UNCHANGED <<backend, define, given, answer>>

-----------------------------------------------------------------------------
(* Scripts.                                                                *)

Answer(gives, of) == [gives |-> gives, of |-> of]
Read(slot) ==
  CASE slot.is = "value"    -> Answer("value", NoMember)
    [] slot.is = "function" -> Answer("function", slot.of)
    [] slot.get = "callback" -> Answer("got", slot.of)
    [] OTHER                -> Answer("nothing", NoMember)

(* What a setter is passed: the value is the last of its arguments.        *)
SetterArguments == CASE backend = "Lua"    -> <<"receiver", "key", "value">>
                     [] backend = "Python" -> <<"receiver", "value">>
                     [] OTHER              -> <<"value">>
SetterReads ==
  CASE backend = "Lua"    -> 3     \* arguments[2], after this args[1]
    [] backend = "Python" -> 2     \* PyTuple_GetItem(args, 1)
    [] OTHER              -> 1
Assigned(slot) ==
  IF slot.set = "callback" THEN Answer(SetterArguments[SetterReads], slot.of)
  ELSE Answer("nothing", NoMember)

(* Own properties first, then the prototype's; a metatable's __index and   *)
(* __newindex do the same when a table has no such key.                    *)
Found(side, name) ==
  IF object[side][name] # Empty THEN object[side][name] ELSE behind[side][name]

(* Properties of a type come before what an instance has, functions after. *)
PyFound(side, name) ==
  LET type == object.static[name]
  IN  CASE side = "static" /\ type.is = "property" /\ ~IsStaticProperty(type)
             -> Slot("value", NoMember, "none", "none")    \* the descriptor itself
        [] side = "static" \/ type.is = "property" \/ object.instance[name] = Empty
             -> type
        [] OTHER -> object.instance[name]

Member(side, name) == IF backend = "Python" THEN PyFound(side, name) ELSE Found(side, name)

Accessible(side, name) ==
  /\ phase = "registered"
  /\ side = "instance" => define.constructor
  /\ At(define, side, name) # {}

Asked(op, side, name, receiver, how) ==
  [op |-> op, side |-> side, name |-> name, receiver |-> receiver, answer |-> how]

Reads(side, name) ==
  /\ Accessible(side, name)
  /\ answer' = Asked("read", side, name, "own", Read(Member(side, name)))
  /\ UNCHANGED <<backend, define, phase, object, behind, given>>

(* A property is left where it is.                                         *)
Sets(side, name) ==
  LET member == Member(side, name)
      keeps  == IF backend = "Python" /\ side = "static"
                THEN CallsSetter(object.static, name, OwnValue) ELSE member.is = "property"
  IN  /\ Accessible(side, name)
      /\ object' = IF keeps THEN object ELSE [object EXCEPT ![side][name] = OwnValue]
      /\ answer' = Asked("write", side, name, "own",
                         IF keeps THEN Assigned(member) ELSE Answer("nothing", NoMember))
      /\ given' = IF \E m \in At(define, side, name) : m.is = "property" THEN given
                  ELSE given \cup {<<side, name>>}
      /\ UNCHANGED <<backend, define, phase, behind>>

(* Functions of instances look at their receiver, but in Python: one of    *)
(* the class, of another class, or no native instance.                     *)
Receivers == {"own", "other", "plain"}
NativeState(receiver) ==
  CASE receiver = "own"   -> [pointer |-> TRUE, define |-> "this"]
    [] receiver = "other" -> [pointer |-> TRUE, define |-> "another"]
    [] receiver = "plain" -> [pointer |-> FALSE, define |-> "none"]
ReceivedNonNull(receiver) ==            \* mutant: an instance of any class will do
  NativeState(receiver).pointer
Received(receiver) ==
  LET state == NativeState(receiver) IN state.pointer /\ state.define = "this"

Calls(side, name, receiver) ==
  LET member == Member(side, name)
  IN  /\ Accessible(side, name) /\ member.is = "function"
      /\ receiver # "own" => side = "instance" /\ backend # "Python"
      /\ answer' = Asked("call", side, name, receiver,
           CASE member.of.side = "instance" /\ ~Received(receiver) -> Answer("throws", NoMember)
             [] member.get = "callback" -> Answer(receiver, member.of)
             [] OTHER -> Answer("nullCallback", member.of))
      /\ UNCHANGED <<backend, define, phase, object, behind, given>>

-----------------------------------------------------------------------------

NoAnswer == Asked("none", "static", NoName, "own", Answer("nothing", NoMember))

MembersInit ==
  /\ define \in [named : BOOLEAN, typed : BOOLEAN, constructor : {FALSE}, members : {{}}]
  /\ phase = "building"
  /\ object = [side \in Sides |-> Bare] /\ behind = [side \in Sides |-> Bare]
  /\ given = {} /\ answer = NoAnswer

MembersNext ==
  \/ \E side \in Sides : \E m \in MembersOf(side) : AddMember(m)
  \/ SetConstructor \/ Build \/ Register
  \/ \E side \in Sides, name \in Names :
       \/ Reads(side, name) \/ Sets(side, name)
       \/ \E receiver \in Receivers : Calls(side, name, receiver)

MembersSpec == backend \in BackendNames /\ MembersInit /\ [][MembersNext]_memberVars

MembersTypeOK ==
  /\ backend \in BackendNames
  /\ phase \in {"building", "built", "refused", "registered"}
  /\ define.members \subseteq UNION {MembersOf(side) : side \in Sides}
  /\ DOMAIN object = Sides /\ DOMAIN behind = Sides
  /\ given \subseteq Sides \X Names

-----------------------------------------------------------------------------
(* PROPERTIES *)

(* What a member has to answer, by its definition and by what scripts have *)
(* assigned: a property always its callbacks, or nothing where it has none;*)
(* a function itself until something else was assigned to its name, and it *)
(* runs for instances of its class only.                                   *)
Promised(asked, m) ==
  LET name == <<asked.side, asked.name>>
  IN  CASE asked.op = "read" /\ m.is = "property" ->
             IF m.getter THEN Answer("got", m) ELSE Answer("nothing", NoMember)
        [] asked.op = "read" /\ m.is = "function" ->
             IF name \in given THEN Answer("value", NoMember) ELSE Answer("function", m)
        [] asked.op = "write" ->
             IF m.setter THEN Answer("value", m) ELSE Answer("nothing", NoMember)
        [] asked.op = "call" ->
             IF asked.receiver = "own" THEN Answer("own", m) ELSE Answer("throws", NoMember)

(* In Python the members of both sides share the names of one type.        *)
Shared(name) ==
  backend = "Python" /\ At(define, "static", name) # {} /\ At(define, "instance", name) # {}

(* Every backend answers for the members of a class that build() let pass  *)
(* as they were defined, whatever else has that name on the other side,    *)
(* whatever scripts have assigned before; no null callback is called.      *)
MembersAnswer ==
  answer.op # "none" /\ ~Shared(answer.name) =>
    \E m \in At(define, answer.side, answer.name) : answer.answer = Promised(answer, m)
=============================================================================
