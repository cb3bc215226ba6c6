-------------------------- MODULE NativeInstances --------------------------
(***************************************************************************)
(* Instances of native classes (script::ScriptClass): made by constructors *)
(* that scripts call, or by the program, tied to a script object, and      *)
(* deleted by the finalizer of that object or when the engine goes.        *)
(***************************************************************************)
EXTENDS Backend

CONSTANTS
  ScriptObjects,
  Instances,     \* C++ objects
  Classes,       \* ClassDefines that are registered
  NoInstance,
  NoClass

ASSUME NativeAssumption == NoInstance \notin Instances /\ NoClass \notin Classes

VARIABLES
  engineGone,
  objectOf,   \* what the script object of each instance is like
  instances,
  managed,    \* V8's managedObject_
  doomed      \* whose deletion is a message, or a second pass, to come

nativeVars == <<engineGone, objectOf, instances, managed, doomed>>

(* held: a script or a reference can name it; kept: the message of         *)
(* extendLifeTimeToNextLoop keeps it, or a count that nobody releases.     *)
ScriptObject ==
  [state : {"none", "live", "collected"}, held : BOOLEAN, kept : BOOLEAN,
   instance : Instances \cup {NoInstance}, class : Classes \cup {NoClass}, owns : BOOLEAN]
Instance ==
  [state : {"none", "alive", "deleted", "deletedTwice"}, class : Classes \cup {NoClass},
   fromCpp : BOOLEAN]

NativeTypeOK ==
  /\ engineGone \in BOOLEAN
  /\ objectOf \in [ScriptObjects -> ScriptObject]
  /\ instances \in [Instances -> Instance]
  /\ managed \subseteq Instances /\ doomed \subseteq Instances

NativeInit ==
  /\ engineGone = FALSE
  /\ objectOf = [o \in ScriptObjects |->
       [state |-> "none", held |-> FALSE, kept |-> FALSE,
        instance |-> NoInstance, class |-> NoClass, owns |-> FALSE]]
  /\ instances = [i \in Instances |-> [state |-> "none", class |-> NoClass, fromCpp |-> FALSE]]
  /\ managed = {} /\ doomed = {}

-----------------------------------------------------------------------------
(* The object that a constructor leaves. i is NoInstance when the native   *)
(* constructor has thrown, or returned null.                               *)

New(i, class, held) ==
  [state |-> "live", held |-> held, kept |-> FALSE, instance |-> i, class |-> class,
   owns |-> TRUE]
ClassIfMade(i, c) == IF i = NoInstance THEN NoClass ELSE c

(* QuickJs and Python do not release the object of one that throws.        *)
QjsNew(i, c, fromCpp) ==
  [New(i, ClassIfMade(i, c), i # NoInstance) EXCEPT !.kept = fromCpp \/ i = NoInstance]
V8New(i, c, fromCpp) == New(i, c, i # NoInstance)
JscNew(i, c, fromCpp) == New(i, ClassIfMade(i, c), i # NoInstance)
(* A null instance is not noticed: the object is delivered without one.    *)
LuaNew(i, c, fromCpp) == New(i, c, TRUE)
PyNew(i, c, fromCpp) ==
  [New(i, c, i # NoInstance) EXCEPT !.kept = fromCpp \/ i = NoInstance, !.owns = ~fromCpp]
WasmNew(i, c, fromCpp) == New(i, ClassIfMade(i, c), i # NoInstance)

NewObject(i, c, fromCpp) ==
  CASE backend = "QuickJs"        -> QjsNew(i, c, fromCpp)
    [] backend = "V8"             -> V8New(i, c, fromCpp)
    [] backend = "JavaScriptCore" -> JscNew(i, c, fromCpp)
    [] backend = "Lua"            -> LuaNew(i, c, fromCpp)
    [] backend = "Python"         -> PyNew(i, c, fromCpp)
    [] backend = "WebAssembly"    -> WasmNew(i, c, fromCpp)

Construct(o, i, c, fromCpp) ==
  /\ objectOf[o].state = "none" /\ instances[i].state = "none"
  /\ objectOf' = [objectOf EXCEPT ![o] = NewObject(i, c, fromCpp)]
  /\ instances' = [instances EXCEPT ![i] =
                     [state |-> "alive", class |-> c, fromCpp |-> fromCpp]]
  /\ managed' = IF backend = "V8" THEN managed \cup {i} ELSE managed
  /\ UNCHANGED <<engineGone, doomed>>

(* Bound: not with JavaScriptCore, whose finalizer expects an instance; nor *)
(* when the program constructs, whose ~ScriptClass runs under the object.  *)
ConstructFailing(o, c) ==
  /\ backend # "JavaScriptCore"
  /\ objectOf[o].state = "none"
  /\ objectOf' = [objectOf EXCEPT ![o] = NewObject(NoInstance, c, FALSE)]
  /\ UNCHANGED <<engineGone, instances, managed, doomed>>

(* The last reference goes.                                                *)
LetGo(o) ==
  /\ objectOf[o].state = "live" /\ objectOf[o].held
  /\ objectOf' = [objectOf EXCEPT ![o].held = FALSE]
  /\ UNCHANGED <<engineGone, instances, managed, doomed>>

(* The message is handled.                                                 *)
ExtensionEnds(o) ==
  /\ objectOf[o].state = "live" /\ objectOf[o].kept /\ objectOf[o].instance # NoInstance
  /\ objectOf' = [objectOf EXCEPT ![o].kept = FALSE]
  /\ UNCHANGED <<engineGone, instances, managed, doomed>>

-----------------------------------------------------------------------------

(* delete: what is not alive is deleted again.                             *)
AfterDelete(set) ==
  [i \in Instances |->
     IF i \notin set THEN instances[i]
     ELSE [instances[i] EXCEPT !.state = IF @ = "alive" THEN "deleted" ELSE "deletedTwice"]]

InstanceOf(o) == {objectOf[o].instance} \ {NoInstance}
Collected(set) ==
  [o \in ScriptObjects |-> IF o \in set THEN [objectOf[o] EXCEPT !.state = "collected"]
                           ELSE objectOf[o]]

(* The finalizers. QuickJs and Lua delete the instance.                    *)
Finalize(o) == instances' = AfterDelete(InstanceOf(o)) /\ UNCHANGED <<managed, doomed>>

(* Mutant: the first pass leaves the entry.                                *)
V8FirstPassLeaving(o) ==
  /\ doomed' = doomed \cup InstanceOf(o)
  /\ UNCHANGED <<instances, managed>>

(* The entry goes in the first pass, the instance in the second.           *)
V8FirstPass(o) ==
  /\ doomed' = doomed \cup InstanceOf(o)
  /\ managed' = managed \ InstanceOf(o)
  /\ UNCHANGED instances

(* The instance is deleted as the message is released: when it is handled, *)
(* removed, or refused by a queue that was shut down.                      *)
JscFinalize(o) ==
  /\ \/ doomed' = doomed \cup InstanceOf(o) /\ UNCHANGED instances
     \/ instances' = AfterDelete(InstanceOf(o)) /\ UNCHANGED doomed
  /\ UNCHANGED managed

PyDealloc(o) ==
  /\ instances' = IF objectOf[o].owns THEN AfterDelete(InstanceOf(o)) ELSE instances
  /\ UNCHANGED <<managed, doomed>>

(* JavaScript collects without a word.                                     *)
WasmCollect(o) == UNCHANGED <<instances, managed, doomed>>

CollectObject(o) ==
  /\ objectOf[o].state = "live" /\ ~objectOf[o].held /\ ~objectOf[o].kept
  /\ objectOf' = Collected({o})
  /\ \/ backend \in {"QuickJs", "Lua"} /\ Finalize(o)
     \/ backend = "V8" /\ V8FirstPass(o)
     \/ backend = "JavaScriptCore" /\ JscFinalize(o)
     \/ backend = "Python" /\ PyDealloc(o)
     \/ backend = "WebAssembly" /\ WasmCollect(o)
  /\ UNCHANGED engineGone

(* The second pass, and the message of JavaScriptCore.                     *)
DeleteDoomed(i) ==
  /\ i \in doomed
  /\ instances' = AfterDelete({i})
  /\ doomed' = doomed \ {i}
  /\ UNCHANGED <<engineGone, objectOf, managed>>

(* ScriptX.destroyScriptClass, which a script calls.                       *)
destroyInstance(o) ==
  /\ backend = "WebAssembly"
  /\ objectOf[o].state = "live" /\ objectOf[o].held /\ objectOf[o].instance # NoInstance
  /\ instances' = AfterDelete(InstanceOf(o))
  /\ objectOf' = [objectOf EXCEPT ![o].instance = NoInstance, ![o].class = NoClass]
  /\ UNCHANGED <<engineGone, managed, doomed>>

-----------------------------------------------------------------------------
(* destroy. What is left when it is done.                                  *)

Live == {o \in ScriptObjects : objectOf[o].state = "live"}
LiveInstances == UNION {InstanceOf(o) : o \in Live}

(* QuickJs and Lua: freeing the context finalizes every object.            *)
FreeContext == instances' = AfterDelete(LiveInstances) /\ doomed' = {}
PyFinalization ==
  /\ instances' = AfterDelete(UNION {InstanceOf(o) : o \in {p \in Live : objectOf[p].owns}})
  /\ doomed' = {}

(* Dispose collects nothing. Whether it runs second passes whose task was  *)
(* removed with the messages is up to V8.                                  *)
V8Disposal ==
  \E ran \in SUBSET doomed :
    instances' = AfterDelete(managed \cup ran) /\ doomed' = doomed \ ran

(* Removing the messages deletes; finalizers that run later delete at once. *)
JscRelease == instances' = AfterDelete(doomed \cup LiveInstances) /\ doomed' = {}

DestroyNatives ==
  /\ \/ backend \in {"QuickJs", "Lua"} /\ FreeContext
     \/ backend = "V8" /\ V8Disposal
     \/ backend = "JavaScriptCore" /\ JscRelease
     \/ backend = "Python" /\ PyFinalization
  /\ engineGone' = TRUE
  /\ objectOf' = Collected(Live)
  /\ managed' = {}

NativeNext ==
  /\ ~engineGone
  /\ \/ \E o \in ScriptObjects :
          \/ \E i \in Instances, c \in Classes, fromCpp \in BOOLEAN : Construct(o, i, c, fromCpp)
          \/ \E c \in Classes : ConstructFailing(o, c)
          \/ LetGo(o) \/ ExtensionEnds(o) \/ CollectObject(o) \/ destroyInstance(o)
     \/ \E i \in Instances : DeleteDoomed(i)
     \/ DestroyNatives

-----------------------------------------------------------------------------

(* Whether a method or accessor of class c runs when it is called on o.    *)
(* V8 looks at the template of the object, JavaScriptCore at the instance. *)
Accepts(o, c) == objectOf[o].instance # NoInstance /\ objectOf[o].class = c
V8Accepts(o, c) == objectOf[o].class = c
JscAccepts(o, c) ==
  objectOf[o].instance # NoInstance /\ instances[objectOf[o].instance].class = c

(* Python does not look. Bound: methods are called on their instances.     *)
PyAccepts(o, c) == objectOf[o].class = c

Runs(o, c) ==
  CASE backend = "V8"             -> V8Accepts(o, c)
    [] backend = "JavaScriptCore" -> JscAccepts(o, c)
    [] backend = "Python"         -> PyAccepts(o, c)
    [] OTHER                      -> Accepts(o, c)

(* "The pointer is managed by the script object [...] NEVER delete the     *)
(* pointer, ScriptEngine does that on finalization" (Native.h:135): each   *)
(* instance is deleted once, never while a method could be called on it,   *)
(* and none is left when its object, or the engine, has gone. Except those *)
(* that Python leaves to the program, and what destroy() finds between the *)
(* passes of V8.                                                           *)
InstancesDeletedOnce ==
  /\ \A i \in Instances : instances[i].state # "deletedTwice"
  /\ \A o \in Live, c \in Classes :
       objectOf[o].held /\ Runs(o, c) =>
         /\ objectOf[o].instance # NoInstance
         /\ instances[objectOf[o].instance].state = "alive"
         /\ instances[objectOf[o].instance].class = c
  /\ backend # "WebAssembly" =>
       \A i \in Instances :
         instances[i].state = "alive" =>
           \/ i \in LiveInstances
           \/ i \in doomed /\ (engineGone => backend = "V8")
           \/ backend = "Python" /\ instances[i].fromCpp
=============================================================================
