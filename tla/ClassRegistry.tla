--------------------------- MODULE ClassRegistry ---------------------------
(***************************************************************************)
(* The registration of native classes: the engine's registries, those of   *)
(* the backends, and the objects of the script's namespaces, while scripts *)
(* assign to the same names and registrations fail half way. And what      *)
(* isInstanceOf and getNativeInstance say of the objects that scripts make *)
(* with the constructors they find there. One engine, one thread.          *)
(***************************************************************************)
EXTENDS Backend, SequencesExt

CONSTANTS
  Defines,   \* class defines: records of type, path (the namespace), name, instance
  NoDefine,
  MaxMade    \* bound: attempts to register

VARIABLES
  classDefineRegistry,         \* by type, those with an instance define
  staticClassDefineRegistry,
  nativeRegistry,              \* the backend's, by define: the constructor, or 0
  constructors,                \* one of each attempt
  names                        \* what is at each place of the script's namespaces

registryVars == <<backend, classDefineRegistry, staticClassDefineRegistry,
                  nativeRegistry, constructors, names>>

Types == {d.type : d \in Defines}
Place(d) == Append(d.path, d.name)
PrefixesOf(s) == Prefixes(s) \ {<<>>}
Places ==
  UNION {PrefixesOf(Place(d)) \cup {Append(p, d.name) : p \in PrefixesOf(d.path)} : d \in Defines}

(* Plain is the language's own object, a dict in Python; Throwing what     *)
(* cannot be assigned to without an exception: a property whose setter     *)
(* throws.                                                                 *)
At(is, made) == [is |-> is, made |-> made]
Absent    == At("absent", 0)
Plain     == At("plain", 0)
Namespace == At("namespace", 0)
Other     == At("other", 0)
Throwing  == At("throwing", 0)
Class(k)  == At("class", k)

RegistryInit ==
  /\ backend \in BackendNames
  /\ classDefineRegistry = [t \in Types |-> NoDefine]
  /\ staticClassDefineRegistry = {}
  /\ nativeRegistry = [d \in Defines |-> 0]
  /\ constructors = <<>>
  /\ names = [p \in Places |-> Absent]

-----------------------------------------------------------------------------
(* Mutant: what was below stays.                                           *)
PutOnly(tree, place, what) == [tree EXCEPT ![place] = what]

(* Names. What was below a place is gone with the object that was there.   *)

Put(tree, place, what) ==
  [p \in Places |-> IF p = place THEN what
                    ELSE IF IsStrictPrefix(place, p) THEN Absent ELSE tree[p]]

Done(tree) == [ok |-> TRUE, names |-> tree]
Throws(tree) == [ok |-> FALSE, names |-> tree]

Set(done, place, what) ==
  IF ~done.ok \/ done.names[place] = Throwing THEN Throws(done.names)
  ELSE Done(Put(done.names, place, what))

(* Mutant: whatever is no object yet is replaced.                          *)
NamespaceReplaced(done, place) ==
  IF done.ok /\ done.names[place] # Namespace THEN Set(done, place, Namespace) ELSE done

(* One part of a namespace: made where there is none, refused where there  *)
(* is no object.                                                           *)
NamespacePart(done, place) ==
  IF ~done.ok THEN done
  ELSE CASE done.names[place] = Absent -> Set(done, place, Namespace)
         [] done.names[place].is \in {"plain", "namespace", "class"} -> done
         [] OTHER -> Throws(done.names)

Parts(path) == [i \in DOMAIN path |-> SubSeq(path, 1, i)]

getNamespaceObject(path) == FoldLeft(NamespacePart, Done(names), Parts(path))

(* WebAssembly's is written in JavaScript, with the same answers.          *)
getNamespaceForRegister(path) == getNamespaceObject(path)

(* Python: attributes of objects of the namespace type or of classes. The  *)
(* class is put into every part on the way.                                *)
nameSpaceSet(d, k) ==
  LET Part(done, place) ==
        LET made == IF done.ok /\ done.names[place] = Absent
                    THEN Set(done, place, Namespace) ELSE done
        IN IF made.ok /\ made.names[place].is \in {"namespace", "class"}
           THEN Set(made, Append(place, d.name), Class(k))
           ELSE Throws(made.names)
  IN IF d.path = <<>> THEN Set(Done(names), Place(d), Class(k))
     ELSE FoldLeft(Part, Done(names), Parts(d.path))

-----------------------------------------------------------------------------
(* Registration: what becomes of the names, whether it throws, and whether *)
(* the backend's registry was given an entry by then.                      *)

Registered(done, enters) == [done |-> done, enters |-> enters]

V8Registers(d, k) ==
  LET ns == getNamespaceObject(d.path)
  IN Registered(Set(ns, Place(d), Class(k)), ns.ok)
QjsRegisters(d, k) ==
  LET ns == getNamespaceObject(d.path)
  IN Registered(Set(ns, Place(d), Class(k)), ns.ok /\ d.instance)
JscRegisters(d, k) ==
  LET set == Set(getNamespaceObject(d.path), Place(d), Class(k)) IN Registered(set, set.ok)
LuaRegisters(d, k) ==
  LET set == Set(getNamespaceObject(d.path), Place(d), Class(k)) IN Registered(set, set.ok)
WasmRegisters(d, k) ==
  LET set == Set(getNamespaceForRegister(d.path), Place(d), Class(k)) IN Registered(set, set.ok)
PyRegisters(d, k) == Registered(nameSpaceSet(d, k), TRUE)

performRegisterNativeClass(d, k) ==
  CASE backend = "V8"             -> V8Registers(d, k)
    [] backend = "QuickJs"        -> QjsRegisters(d, k)
    [] backend = "JavaScriptCore" -> JscRegisters(d, k)
    [] backend = "Lua"            -> LuaRegisters(d, k)
    [] backend = "Python"         -> PyRegisters(d, k)
    [] backend = "WebAssembly"    -> WasmRegisters(d, k)

(* Mutant: the type is not looked up.                                      *)
KnownByDefine(d) == ~d.instance /\ d \in staticClassDefineRegistry

AlreadyRegistered(d) ==
  \/ ~d.instance /\ d \in staticClassDefineRegistry
  \/ classDefineRegistry[d.type] # NoDefine

(* registerNativeClassInternal. emplace keeps an entry that is there.      *)
RegisterNativeClass(d) ==
  LET k == Len(constructors) + 1
      registered == performRegisterNativeClass(d, k)
  IN /\ k <= MaxMade
     /\ ~AlreadyRegistered(d)
     /\ names' = registered.done.names
     /\ constructors' = Append(constructors, [define |-> d, failed |-> ~registered.done.ok])
     /\ nativeRegistry' = IF registered.enters /\ nativeRegistry[d] = 0
                          THEN [nativeRegistry EXCEPT ![d] = k] ELSE nativeRegistry
     /\ IF ~registered.done.ok
        THEN UNCHANGED <<classDefineRegistry, staticClassDefineRegistry>>
        ELSE IF d.instance
        THEN /\ classDefineRegistry' = [classDefineRegistry EXCEPT ![d.type] = d]
             /\ UNCHANGED staticClassDefineRegistry
        ELSE /\ staticClassDefineRegistry' = staticClassDefineRegistry \cup {d}
             /\ UNCHANGED classDefineRegistry

(* A script, or the program: any value, or none, at a place whose parent   *)
(* it can assign to, or a property defined there anew.                     *)
Assignable == IF backend \in {"Python", "Lua"} THEN {Absent, Plain, Other}
              ELSE {Absent, Plain, Other, Throwing}
Holds(what) ==
  what.is \in IF backend = "Python" THEN {"namespace", "class"}
              ELSE {"plain", "namespace", "class"}

ScriptAssigns(place, what) ==
  /\ Len(place) > 1 => Holds(names[Front(place)])
  /\ names[place] # what
  /\ names' = Put(names, place, what)
  /\ UNCHANGED <<classDefineRegistry, staticClassDefineRegistry, nativeRegistry, constructors>>

RegistryNext ==
  /\ UNCHANGED backend
  /\ \/ \E d \in Defines : RegisterNativeClass(d)
     \/ \E place \in Places, what \in Assignable : ScriptAssigns(place, what)

RegistrySpec == RegistryInit /\ [][RegistryNext]_registryVars

RegistryTypeOK ==
  /\ backend \in BackendNames
  /\ classDefineRegistry \in [Types -> Defines \cup {NoDefine}]
  /\ staticClassDefineRegistry \subseteq Defines
  /\ nativeRegistry \in [Defines -> 0..Len(constructors)]
  /\ \A k \in DOMAIN constructors : constructors[k].define \in Defines
  /\ \A p \in Places :
       /\ names[p] \in {Absent, Plain, Namespace, Other, Throwing}
                         \cup {Class(k) : k \in DOMAIN constructors}
       /\ names[p] # Absent /\ Len(p) > 1 =>
            names[Front(p)].is \in {"plain", "namespace", "class"}
  /\ \A t \in Types : LET d == classDefineRegistry[t]
                      IN d # NoDefine => d.type = t /\ d.instance

-----------------------------------------------------------------------------
(* The objects scripts make: with a constructor that they may have got     *)
(* hold of, whole, or one whose native constructor has not returned (it    *)
(* gave thiz away, and may have thrown since), or with the constructor's   *)
(* prototype only.                                                         *)

Reached ==
  {k \in DOMAIN constructors :
     /\ constructors[k].define.instance
     /\ ~constructors[k].failed \/ \E p \in Places : names[p] = Class(k)}
Prototypes == backend \in {"V8", "QuickJs", "JavaScriptCore", "WebAssembly"}

ObjectsOf(k) ==
  [made : {k}, is : {"whole", "unfinished"} \cup (IF Prototypes THEN {"heir"} ELSE {})]

(* Mutant: the tables of Lua are marked before the constructor is called.  *)
EarlyMarks(object) == IF object.is = "heir" THEN {} ELSE {"class"}

(* What an object has before its native constructor returns; the pointer   *)
(* of the instance comes after it.                                         *)
V8Marks(object)   == IF object.is = "heir" THEN {} ELSE {"class"}
JscMarks(object)  == IF object.is = "heir" THEN {} ELSE {"class"}
QjsMarks(object)  == {"class"}   \* the prototype
PyMarks(object)   == {"class"}   \* the type
LuaMarks(object)  == IF object.is = "whole" THEN {"class"} ELSE {}
WasmMarks(object) == IF object.is = "whole" THEN {"class"} ELSE {}

Marks(object) ==
  CASE backend = "V8"             -> V8Marks(object)
    [] backend = "QuickJs"        -> QjsMarks(object)
    [] backend = "JavaScriptCore" -> JscMarks(object)
    [] backend = "Lua"            -> LuaMarks(object)
    [] backend = "Python"         -> PyMarks(object)
    [] backend = "WebAssembly"    -> WasmMarks(object)

(* What an object's mark is compared with. QuickJs and JavaScriptCore look *)
(* the define up when they construct, so the entry's prototype or class is *)
(* every constructor's; Lua and WebAssembly mark with the define.          *)
MarkOf(object, d) ==
  CASE backend \in {"V8", "Python"} -> nativeRegistry[d] = object.made
    [] backend = "QuickJs" /\ object.is = "heir" -> nativeRegistry[d] = object.made
    [] OTHER -> constructors[object.made].define = d

performIsInstanceOf(object, d) == "class" \in Marks(object) /\ MarkOf(object, d)

(* A null pointer that is used: the opaque pointer of QuickJs, the private *)
(* one of JavaScriptCore. V8 leaves an internal field undefined. Python's  *)
(* and Lua's are null.                                                     *)
performGetNativeInstance(object, d) ==
  IF ~performIsInstanceOf(object, d) THEN IF backend = "Python" THEN "throws" ELSE "null"
  ELSE IF object.is = "whole" THEN "instance"
  ELSE IF backend \in {"QuickJs", "JavaScriptCore", "V8"} THEN "undefined" ELSE "null"

(* The entry of a define that is not registered throws.                    *)
performNewNativeClass(d) == [made |-> nativeRegistry[d], is |-> "whole"]

(* The ScriptEngine functions look the define up by type, and throw when   *)
(* there is none.                                                          *)
getClassDefine == {classDefineRegistry[t] : t \in Types} \ {NoDefine}

-----------------------------------------------------------------------------
(* PROPERTIES *)

(* An entry that a failed registration has left.                           *)
Stale(d) == nativeRegistry[d] # 0 /\ constructors[nativeRegistry[d]].failed

(* Once a class is registered, whatever was tried and whatever scripts did *)
(* to its names before and since: newNativeClass finds a constructor of    *)
(* that class, and what newNativeClass and scripts make with any of its    *)
(* constructors is an instance of this class and of no other. Only what a  *)
(* failed registration leaves in V8 and Python is an exception.            *)
RegisteredClassesWork ==
  \A d \in getClassDefine :
    /\ nativeRegistry[d] # 0
    /\ performIsInstanceOf(performNewNativeClass(d), d)
    /\ \A k \in Reached :
         LET object == [made |-> k, is |-> "whole"]
         IN \/ performIsInstanceOf(object, d) <=> constructors[k].define = d
            \/ backend \in {"V8", "Python"} /\ Stale(d)

(* isInstanceOf never promises more than getNativeInstance can give, but   *)
(* for an object without its native instance: such an object of V8,        *)
(* QuickJs, JavaScriptCore and Python, and an heir in QuickJs.             *)
LookupsAgree ==
  \A d \in getClassDefine : \A k \in Reached : \A object \in ObjectsOf(k) :
    performIsInstanceOf(object, d) =>
      \/ performGetNativeInstance(object, d) = "instance"
      \/ object.is = "unfinished" /\ backend \notin {"Lua", "WebAssembly"}
      \/ object.is = "heir" /\ backend = "QuickJs"

(* A class that is at its place stays there, and a namespace keeps what it *)
(* holds, until a script or the registration of a class assigns to that    *)
(* place or to one above; only Python also assigns to the class's name in  *)
(* the namespaces around its own.                                          *)
PlacesOf(d) ==
  {Place(d)} \cup IF backend = "Python" THEN {Append(p, d.name) : p \in PrefixesOf(d.path)} ELSE {}

Assigned(place) ==
  /\ names'[place] # names[place]
  /\ \/ names'[place] \in Assignable /\ ScriptAssigns(place, names'[place])
     \/ \E d \in Defines : place \in PlacesOf(d) /\ RegisterNativeClass(d)

KeepsNames ==
  \A p \in Places :
    names[p] = Absent \/ names'[p] = names[p] \/ \E q \in PrefixesOf(p) : Assigned(q)

NamesStay == [][KeepsNames]_registryVars
=============================================================================
