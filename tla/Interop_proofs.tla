--------------------------- MODULE Interop_proofs ---------------------------
(***************************************************************************)
(* What passes between C++ and scripts, in six backends: the instances of  *)
(* native classes, for any numbers of objects; calls of bound functions,   *)
(* for any depth of the stack; exceptions, for any texts and any number of *)
(* crossings.                                                              *)
(***************************************************************************)
EXTENDS NativeInstances, NativeBinding, Exceptions, SequenceTheorems, FiniteSetTheorems, TLAPS

-----------------------------------------------------------------------------
(***************************************************************************)
(* Instances of native classes, in six backends.                           *)
(***************************************************************************)

NativeSpec ==
  /\ backend \in BackendNames /\ NativeInit
  /\ [][NativeNext /\ UNCHANGED backend]_<<backend, nativeVars>>

(* An object and its instance belong to each other while the object lives. *)
OneObjectEach ==
  \A o, p \in Live :
    objectOf[o].instance = objectOf[p].instance => o = p \/ objectOf[o].instance = NoInstance
Belongs(o, i) ==
  /\ instances[i].state = "alive"
  /\ instances[i].class = objectOf[o].class
  /\ backend = "Python" => objectOf[o].owns = ~instances[i].fromCpp
LiveHaveTheirs ==
  \A o \in Live : objectOf[o].instance # NoInstance => Belongs(o, objectOf[o].instance)

(* V8 and Python do not look for an instance when a method is called.      *)
HeldAreWhole ==
  backend \in {"V8", "Python"} =>
    \A o \in Live : objectOf[o].held => objectOf[o].instance # NoInstance

HasObject(i) == \E o \in Live : objectOf[o].instance = i
ManagedHaveObjects == backend = "V8" => \A i \in Instances : i \in managed <=> HasObject(i)
DoomedAreLeft ==
  \A i \in doomed :
    /\ instances[i].state = "alive" /\ ~HasObject(i)
    /\ backend \in {"V8", "JavaScriptCore"}
    /\ engineGone => backend = "V8"
NoneIsDeletedTwice == \A i \in Instances : instances[i].state # "deletedTwice"
LeftToProgram(i) == backend = "Python" /\ instances[i].fromCpp
AliveAreKept ==
  backend # "WebAssembly" =>
    \A i \in Instances :
      instances[i].state = "alive" => HasObject(i) \/ i \in doomed \/ LeftToProgram(i)

NativeInv ==
  /\ backend \in BackendNames
  /\ NativeTypeOK
  /\ OneObjectEach /\ LiveHaveTheirs /\ HeldAreWhole
  /\ ManagedHaveObjects /\ DoomedAreLeft
  /\ NoneIsDeletedTwice /\ AliveAreKept

LEMMA NativeInitInv == backend \in BackendNames /\ NativeInit => NativeInv
<1> SUFFICES ASSUME backend \in BackendNames, NativeInit PROVE NativeInv
  OBVIOUS
<1>1. NativeTypeOK
  BY DEF NativeInit, NativeTypeOK, ScriptObject, Instance
<1>2. Live = {} /\ managed = {} /\ doomed = {} /\ \A i \in Instances : instances[i].state = "none"
  BY DEF NativeInit, Live
<1> QED
  BY <1>1, <1>2
  DEF NativeInv, OneObjectEach, LiveHaveTheirs, HeldAreWhole, ManagedHaveObjects,
      DoomedAreLeft, NoneIsDeletedTwice, AliveAreKept, HasObject

LEMMA LiveInstancesHaveObjects ==
  ASSUME NativeTypeOK, NEW i \in Instances
  PROVE  i \in LiveInstances <=> HasObject(i)
  BY NativeAssumption DEF LiveInstances, HasObject, InstanceOf, Live, NativeTypeOK, ScriptObject

LEMMA InvKeepsPromise == NativeInv => InstancesDeletedOnce
<1> SUFFICES ASSUME NativeInv PROVE InstancesDeletedOnce
  OBVIOUS
<1>1. \A i \in Instances : instances[i].state # "deletedTwice"
  BY DEF NativeInv, NoneIsDeletedTwice
<1>2. ASSUME NEW o \in Live, NEW c \in Classes, objectOf[o].held, Runs(o, c)
      PROVE  /\ objectOf[o].instance # NoInstance
             /\ instances[objectOf[o].instance].state = "alive"
             /\ instances[objectOf[o].instance].class = c
  <2>1. objectOf[o].instance # NoInstance => Belongs(o, objectOf[o].instance)
    BY DEF NativeInv, LiveHaveTheirs
  <2>2. backend \in {"V8", "Python"} => objectOf[o].instance # NoInstance
    BY <1>2 DEF NativeInv, HeldAreWhole
  <2> QED
    BY <1>2, <2>1, <2>2
    DEF Runs, Accepts, V8Accepts, JscAccepts, PyAccepts, Belongs, NativeInv, BackendNames
<1>3. ASSUME backend # "WebAssembly", NEW i \in Instances, instances[i].state = "alive"
      PROVE  \/ i \in LiveInstances
             \/ i \in doomed /\ (engineGone => backend = "V8")
             \/ backend = "Python" /\ instances[i].fromCpp
  BY <1>3, LiveInstancesHaveObjects DEF NativeInv, AliveAreKept, DoomedAreLeft, LeftToProgram
<1> QED
  BY <1>1, <1>2, <1>3 DEF InstancesDeletedOnce

-----------------------------------------------------------------------------

(* What objects and instances are, one by one.                             *)
LEMMA ObjectFields ==
  ASSUME NativeTypeOK, NEW o \in ScriptObjects
  PROVE  /\ objectOf[o] \in ScriptObject
         /\ objectOf[o].state \in {"none", "live", "collected"}
         /\ objectOf[o].held \in BOOLEAN /\ objectOf[o].kept \in BOOLEAN
         /\ objectOf[o].instance \in Instances \cup {NoInstance}
         /\ objectOf[o].class \in Classes \cup {NoClass}
         /\ objectOf[o].owns \in BOOLEAN
  BY DEF NativeTypeOK, ScriptObject

(* A step that leaves instances, and the objects that live with theirs.    *)
LEMMA StillHeld ==
  ASSUME NativeInv,
         UNCHANGED <<backend, engineGone, instances, managed, doomed>>,
         objectOf' \in [ScriptObjects -> ScriptObject],
         \A o \in ScriptObjects :
           /\ objectOf'[o].state = objectOf[o].state
           /\ objectOf'[o].instance = objectOf[o].instance
           /\ objectOf'[o].class = objectOf[o].class
           /\ objectOf'[o].owns = objectOf[o].owns
           /\ objectOf'[o].held => objectOf[o].held
  PROVE  NativeInv'
<1>1. Live' = Live /\ \A o \in Live : o \in ScriptObjects
  BY DEF Live
<1>2. \A i : HasObject(i)' <=> HasObject(i)
  BY <1>1 DEF HasObject
<1>3. NativeTypeOK'
  BY DEF NativeInv, NativeTypeOK
<1>4. (OneObjectEach /\ LiveHaveTheirs /\ HeldAreWhole)'
  BY <1>1 DEF NativeInv, OneObjectEach, LiveHaveTheirs, HeldAreWhole, Belongs
<1>5. (ManagedHaveObjects /\ DoomedAreLeft /\ NoneIsDeletedTwice /\ AliveAreKept)'
  BY <1>2 DEF NativeInv, ManagedHaveObjects, DoomedAreLeft, NoneIsDeletedTwice, AliveAreKept, LeftToProgram
<1> QED
  BY <1>3, <1>4, <1>5 DEF NativeInv

LEMMA LetGoInv ==
  ASSUME NativeInv, NEW o \in ScriptObjects, LetGo(o) \/ ExtensionEnds(o), UNCHANGED backend
  PROVE  NativeInv'
<1>1. /\ objectOf \in [ScriptObjects -> ScriptObject]
      /\ objectOf[o] \in ScriptObject
  BY DEF NativeInv, NativeTypeOK
<1>2. UNCHANGED <<backend, engineGone, instances, managed, doomed>>
  BY DEF LetGo, ExtensionEnds
<1>3. PICK r \in ScriptObject :
        /\ objectOf' = [objectOf EXCEPT ![o] = r]
        /\ r.state = objectOf[o].state /\ r.instance = objectOf[o].instance
        /\ r.class = objectOf[o].class /\ r.owns = objectOf[o].owns
        /\ r.held => objectOf[o].held
  <2>1. CASE LetGo(o)
    <3> DEFINE r == [objectOf[o] EXCEPT !.held = FALSE]
    <3>1. objectOf' = [objectOf EXCEPT ![o] = r]
      BY <1>1, <2>1 DEF LetGo
    <3> QED
      BY <1>1, <3>1 DEF ScriptObject
  <2>2. CASE ExtensionEnds(o)
    <3> DEFINE r == [objectOf[o] EXCEPT !.kept = FALSE]
    <3>1. objectOf' = [objectOf EXCEPT ![o] = r]
      BY <1>1, <2>2 DEF ExtensionEnds
    <3>2. /\ r \in ScriptObject
          /\ r.state = objectOf[o].state /\ r.instance = objectOf[o].instance
          /\ r.class = objectOf[o].class /\ r.owns = objectOf[o].owns
          /\ r.held = objectOf[o].held
      BY <1>1 DEF ScriptObject
    <3> HIDE DEF r
    <3> QED
      BY <3>1, <3>2
  <2> QED
    BY <2>1, <2>2
<1>4. /\ objectOf' \in [ScriptObjects -> ScriptObject]
      /\ \A p \in ScriptObjects :
           /\ objectOf'[p].state = objectOf[p].state
           /\ objectOf'[p].instance = objectOf[p].instance
           /\ objectOf'[p].class = objectOf[p].class
           /\ objectOf'[p].owns = objectOf[p].owns
           /\ objectOf'[p].held => objectOf[p].held
  BY <1>1, <1>3
<1> QED
  BY <1>2, <1>4, StillHeld

(* What a constructor leaves.                                              *)
LEMMA NewObjectFields ==
  ASSUME backend \in BackendNames, NEW i \in Instances \cup {NoInstance},
         NEW c \in Classes, NEW fromCpp \in BOOLEAN
  PROVE  LET r == NewObject(i, c, fromCpp)
         IN  /\ r \in ScriptObject
             /\ r.state = "live" /\ r.instance = i
             /\ i # NoInstance => r.class = c
             /\ backend = "Python" => r.owns = ~fromCpp
             /\ backend \in {"V8", "Python"} /\ i = NoInstance => ~r.held
<1> DEFINE k == IF i = NoInstance THEN NoClass ELSE c
<1>1. k \in Classes \cup {NoClass} /\ (i # NoInstance => k = c)
  OBVIOUS
<1>2. CASE backend = "QuickJs"
  BY <1>1, <1>2 DEF NewObject, QjsNew, New, ClassIfMade, ScriptObject
<1>3. CASE backend = "V8"
  BY <1>3 DEF NewObject, V8New, New, ScriptObject
<1>4. CASE backend = "JavaScriptCore"
  BY <1>1, <1>4 DEF NewObject, JscNew, New, ClassIfMade, ScriptObject
<1>5. CASE backend = "Lua"
  BY <1>5 DEF NewObject, LuaNew, New, ScriptObject
<1>6. CASE backend = "Python"
  BY <1>6 DEF NewObject, PyNew, New, ScriptObject
<1>7. CASE backend = "WebAssembly"
  BY <1>1, <1>7 DEF NewObject, WasmNew, New, ClassIfMade, ScriptObject
<1> QED
  BY <1>2, <1>3, <1>4, <1>5, <1>6, <1>7 DEF BackendNames

(* An object that is born, with the instance i when that is not NoInstance.*)
LEMMA ObjectIsBorn ==
  ASSUME NativeInv, UNCHANGED <<backend, engineGone, doomed>>,
         NEW o \in ScriptObjects, objectOf[o].state = "none",
         NEW r \in ScriptObject, objectOf' = [objectOf EXCEPT ![o] = r],
         r.state = "live",
         backend \in {"V8", "Python"} /\ r.instance = NoInstance => ~r.held,
         \/ r.instance = NoInstance /\ UNCHANGED <<instances, managed>>
         \/ /\ r.instance \in Instances /\ instances[r.instance].state = "none"
            /\ \E c \in Classes, fromCpp \in BOOLEAN :
                 /\ instances' = [instances EXCEPT ![r.instance] =
                                    [state |-> "alive", class |-> c, fromCpp |-> fromCpp]]
                 /\ r.class = c
                 /\ backend = "Python" => r.owns = ~fromCpp
            /\ managed' = IF backend = "V8" THEN managed \cup {r.instance} ELSE managed
  PROVE  NativeInv'
<1> DEFINE i == r.instance
<1>1. /\ objectOf \in [ScriptObjects -> ScriptObject] /\ instances \in [Instances -> Instance]
      /\ i \in Instances \cup {NoInstance}
      /\ managed \subseteq Instances /\ doomed \subseteq Instances
  BY DEF NativeInv, NativeTypeOK, ScriptObject
<1>2. /\ Live' = Live \cup {o} /\ o \notin Live /\ Live \subseteq ScriptObjects
      /\ objectOf'[o] = r /\ \A p \in Live : objectOf'[p] = objectOf[p]
  BY <1>1 DEF Live
<1>3. /\ instances' \in [Instances -> Instance]
      /\ \A j \in Instances \ {i} : instances'[j] = instances[j]
      /\ i # NoInstance =>
           /\ instances[i].state = "none" /\ i \in Instances
           /\ instances'[i].state = "alive" /\ instances'[i].class = r.class
           /\ backend = "Python" => r.owns = ~instances'[i].fromCpp
  <2>1. CASE r.instance = NoInstance /\ UNCHANGED <<instances, managed>>
    BY <1>1, <2>1
  <2>2. CASE r.instance \in Instances /\ instances[r.instance].state = "none" /\ r.instance # NoInstance
    <3>1. PICK c \in Classes, fromCpp \in BOOLEAN :
            /\ instances' = [instances EXCEPT ![i] =
                               [state |-> "alive", class |-> c, fromCpp |-> fromCpp]]
            /\ r.class = c
            /\ backend = "Python" => r.owns = ~fromCpp
      BY <2>2
    <3> DEFINE n == [state |-> "alive", class |-> c, fromCpp |-> fromCpp]
    <3>2. n \in Instance /\ n.state = "alive" /\ n.class = c /\ n.fromCpp = fromCpp
      BY DEF Instance
    <3> HIDE DEF n
    <3>3. /\ instances' \in [Instances -> Instance] /\ instances'[i] = n
          /\ \A j \in Instances \ {i} : instances'[j] = instances[j]
      BY <1>1, <2>2, <3>1, <3>2 DEF n
    <3> QED
      BY <2>2, <3>1, <3>2, <3>3
  <2> QED
    BY <2>1, <2>2, NativeAssumption
<1>4. \A p \in Live : objectOf[p].instance # NoInstance => objectOf[p].instance \in Instances \ {i}
  BY <1>1, <1>2, <1>3 DEF NativeInv, LiveHaveTheirs, Belongs, ScriptObject
<1>5. NativeTypeOK'
  BY <1>1, <1>3 DEF NativeTypeOK, NativeInv
<1>6. OneObjectEach'
  BY <1>2, <1>4 DEF NativeInv, OneObjectEach
<1>7. LiveHaveTheirs'
  BY <1>2, <1>3, <1>4 DEF NativeInv, LiveHaveTheirs, Belongs
<1>8. HeldAreWhole'
  BY <1>2 DEF NativeInv, HeldAreWhole
<1>9. \A j \in Instances : HasObject(j)' <=> HasObject(j) \/ j = i
  BY <1>2 DEF HasObject
<1>10. i # NoInstance => ~HasObject(i)
  BY <1>4 DEF HasObject
<1>11. managed' = IF backend = "V8" /\ i # NoInstance THEN managed \cup {i} ELSE managed
  BY NativeAssumption
<1>12. ManagedHaveObjects'
  BY <1>1, <1>9, <1>11, NativeAssumption DEF NativeInv, ManagedHaveObjects
<1>0. backend' = backend /\ engineGone' = engineGone /\ doomed' = doomed
  OBVIOUS
<1>13. DoomedAreLeft'
  <2>1. \A j \in doomed :
          /\ j \in Instances /\ instances[j].state = "alive" /\ ~HasObject(j)
          /\ backend \in {"V8", "JavaScriptCore"}
          /\ engineGone => backend = "V8"
    BY <1>1 DEF NativeInv, DoomedAreLeft
  <2>2. \A j \in doomed : j # i
    BY <1>3, <2>1, NativeAssumption
  <2>3. \A j \in doomed : instances'[j].state = "alive" /\ ~HasObject(j)'
    BY <1>3, <1>9, <2>1, <2>2
  <2> QED
    BY <1>0, <2>1, <2>3 DEF DoomedAreLeft
<1>14. NoneIsDeletedTwice'
  <2>1. \A j \in Instances : instances[j].state # "deletedTwice"
    BY DEF NativeInv, NoneIsDeletedTwice
  <2>2. ASSUME NEW j \in Instances PROVE instances'[j].state # "deletedTwice"
    <3>1. CASE j = i
      <4>1. i # NoInstance
        BY <3>1, NativeAssumption
      <4>2. instances'[i].state = "alive"
        BY <1>3, <4>1
      <4> QED
        BY <3>1, <4>2
    <3>2. CASE j # i
      <4>1. instances'[j] = instances[j]
        BY <1>3, <3>2
      <4> QED
        BY <2>1, <4>1
    <3> QED
      BY <3>1, <3>2
  <2> QED
    BY <2>2 DEF NoneIsDeletedTwice
<1>15. AliveAreKept'
  <2> SUFFICES ASSUME backend' # "WebAssembly", NEW j \in Instances, instances'[j].state = "alive"
               PROVE  HasObject(j)' \/ j \in doomed' \/ LeftToProgram(j)'
    BY DEF AliveAreKept
  <2>1. CASE j = i
    BY <1>9, <2>1
  <2>2. CASE j # i
    <3>1. instances'[j] = instances[j]
      BY <1>3, <2>2
    <3> QED
      BY <1>0, <1>9, <3>1 DEF NativeInv, AliveAreKept, LeftToProgram
  <2> QED
    BY <2>1, <2>2
<1> QED
  BY <1>5, <1>6, <1>7, <1>8, <1>12, <1>13, <1>14, <1>15 DEF NativeInv

LEMMA ConstructInv ==
  ASSUME NativeInv, NEW o \in ScriptObjects, NEW i \in Instances, NEW c \in Classes,
         NEW fromCpp \in BOOLEAN, Construct(o, i, c, fromCpp), UNCHANGED backend
  PROVE  NativeInv'
<1> DEFINE r == NewObject(i, c, fromCpp)
<1>1. i # NoInstance /\ backend \in BackendNames
  BY NativeAssumption DEF NativeInv
<1>2. /\ r \in ScriptObject /\ r.state = "live" /\ r.instance = i /\ r.class = c
      /\ backend = "Python" => r.owns = ~fromCpp
  BY <1>1, NewObjectFields
<1>3. /\ UNCHANGED <<backend, engineGone, doomed>>
      /\ objectOf[o].state = "none" /\ instances[i].state = "none"
      /\ objectOf' = [objectOf EXCEPT ![o] = r]
      /\ instances' = [instances EXCEPT ![i] =
                         [state |-> "alive", class |-> c, fromCpp |-> fromCpp]]
      /\ managed' = IF backend = "V8" THEN managed \cup {i} ELSE managed
  BY DEF Construct
<1> HIDE DEF r
<1> QED
  BY <1>1, <1>2, <1>3, ObjectIsBorn

LEMMA ConstructFailingInv ==
  ASSUME NativeInv, NEW o \in ScriptObjects, NEW c \in Classes,
         ConstructFailing(o, c), UNCHANGED backend
  PROVE  NativeInv'
<1> DEFINE r == NewObject(NoInstance, c, FALSE)
<1>1. backend \in BackendNames
  BY DEF NativeInv
<1>2. /\ r \in ScriptObject /\ r.state = "live" /\ r.instance = NoInstance
      /\ backend \in {"V8", "Python"} => ~r.held
  BY <1>1, NewObjectFields
<1>3. /\ UNCHANGED <<backend, engineGone, doomed, instances, managed>>
      /\ objectOf[o].state = "none"
      /\ objectOf' = [objectOf EXCEPT ![o] = r]
  BY DEF ConstructFailing
<1> HIDE DEF r
<1> QED
  BY <1>2, <1>3, ObjectIsBorn

-----------------------------------------------------------------------------
(* Deletion. What is deleted while it is alive is deleted once.            *)
LEMMA Deletes ==
  ASSUME NativeInv, NEW set \in SUBSET Instances,
         \A i \in set : instances[i].state = "alive",
         instances' = AfterDelete(set)
  PROVE  /\ instances' \in [Instances -> Instance]
         /\ \A i \in Instances : i \notin set => instances'[i] = instances[i]
         /\ \A i \in set : instances'[i].state = "deleted"
         /\ NoneIsDeletedTwice'
<1>1. instances \in [Instances -> Instance]
  BY DEF NativeInv, NativeTypeOK
<1>2. ASSUME NEW i \in Instances
      PROVE  /\ instances'[i] \in Instance
             /\ i \notin set => instances'[i] = instances[i]
             /\ i \in set => instances'[i].state = "deleted"
             /\ instances'[i].state # "deletedTwice"
  <2>1. instances[i] \in Instance /\ instances[i].state # "deletedTwice"
    BY <1>1 DEF NativeInv, NoneIsDeletedTwice
  <2>2. CASE i \notin set
    BY <2>1, <2>2 DEF AfterDelete
  <2>3. CASE i \in set
    <3>1. instances[i].state = "alive"
      BY <2>3
    <3>2. instances'[i] = [instances[i] EXCEPT !.state = "deleted"]
      BY <2>3, <3>1 DEF AfterDelete
    <3> QED
      BY <2>1, <2>3, <3>2 DEF Instance
  <2> QED
    BY <2>2, <2>3
<1>3. instances' = [i \in Instances |-> instances'[i]]
  BY DEF AfterDelete
<1> QED
  BY <1>2, <1>3 DEF NoneIsDeletedTwice

(* Objects in gone are no longer alive, or have lost their instance; what  *)
(* was theirs is deleted or doomed.                                        *)
LEMMA ObjectsGo ==
  ASSUME NativeInv, backend' = backend,
         NEW gone \in SUBSET Live, NEW deleted \in SUBSET Instances,
         \A i \in deleted : instances[i].state = "alive",
         instances' = AfterDelete(deleted),
         objectOf' \in [ScriptObjects -> ScriptObject],
         Live' \subseteq Live,
         \A o \in Live \ gone : o \in Live' /\ objectOf'[o] = objectOf[o],
         \A o \in gone : o \in Live' => objectOf'[o].instance = NoInstance,
         gone \cap Live' # {} => backend = "WebAssembly",
         engineGone' \in BOOLEAN,
         \A i \in deleted : ~HasObject(i)' /\ i \notin doomed',
         doomed' \subseteq Instances,
         \A i \in doomed' :
           /\ i \in doomed \/ (instances[i].state = "alive" /\ ~HasObject(i)')
           /\ backend \in {"V8", "JavaScriptCore"}
           /\ engineGone' => backend = "V8",
         managed' \subseteq Instances,
         backend = "V8" => \A i \in Instances : i \in managed' <=> HasObject(i)',
         backend # "WebAssembly" =>
           \A i \in Instances :
             HasObject(i) \/ i \in doomed =>
               \/ HasObject(i)' \/ i \in doomed' \/ i \in deleted \/ LeftToProgram(i)
  PROVE  NativeInv'
<1>1. /\ instances' \in [Instances -> Instance]
      /\ \A i \in Instances : i \notin deleted => instances'[i] = instances[i]
      /\ \A i \in deleted : instances'[i].state = "deleted"
      /\ NoneIsDeletedTwice'
  BY Deletes
<1>2. /\ objectOf \in [ScriptObjects -> ScriptObject]
      /\ Live \subseteq ScriptObjects
      /\ \A o \in Live : objectOf[o].instance \in Instances \cup {NoInstance}
  BY DEF NativeInv, NativeTypeOK, Live, ScriptObject
<1>3. \A o \in Live' : objectOf'[o].instance # NoInstance =>
        /\ o \in Live \ gone /\ objectOf'[o] = objectOf[o]
        /\ objectOf[o].instance \in Instances
        /\ objectOf[o].instance \notin deleted
  <2> TAKE o \in Live'
  <2> HAVE objectOf'[o].instance # NoInstance
  <2>1. o \in Live \ gone /\ objectOf'[o] = objectOf[o]
    OBVIOUS
  <2>2. \A j \in deleted : objectOf'[o].instance # j
    BY DEF HasObject
  <2> QED
    BY <1>2, <2>1, <2>2
<1>4. NativeTypeOK'
  BY <1>1 DEF NativeTypeOK
<1>5. OneObjectEach'
  BY <1>3 DEF NativeInv, OneObjectEach
<1>6. LiveHaveTheirs'
  <2> SUFFICES ASSUME NEW o \in Live', objectOf'[o].instance # NoInstance
               PROVE  Belongs(o, objectOf[o].instance)' /\ objectOf'[o].instance = objectOf[o].instance
    BY DEF LiveHaveTheirs, Belongs
  <2>1. /\ o \in Live /\ objectOf'[o] = objectOf[o]
        /\ instances'[objectOf[o].instance] = instances[objectOf[o].instance]
    BY <1>1, <1>3
  <2>2. Belongs(o, objectOf[o].instance)
    BY <2>1 DEF NativeInv, LiveHaveTheirs
  <2> QED
    BY <2>1, <2>2 DEF Belongs
<1>7. HeldAreWhole'
  <2> SUFFICES ASSUME backend \in {"V8", "Python"}, NEW o \in Live', objectOf'[o].held
               PROVE  objectOf'[o].instance # NoInstance
    BY DEF HeldAreWhole
  <2>1. o \in Live \ gone
    OBVIOUS
  <2> QED
    BY <2>1 DEF NativeInv, HeldAreWhole
<1>8. \A i \in Instances : HasObject(i)' => HasObject(i)
  BY <1>3, NativeAssumption DEF HasObject
<1>9. DoomedAreLeft'
  <2> SUFFICES ASSUME NEW i \in doomed'
               PROVE  /\ instances'[i].state = "alive" /\ ~HasObject(i)'
                      /\ backend \in {"V8", "JavaScriptCore"}
                      /\ engineGone' => backend = "V8"
    BY DEF DoomedAreLeft
  <2>1. i \in Instances /\ i \notin deleted
    OBVIOUS
  <2>2. i \in doomed => instances[i].state = "alive" /\ ~HasObject(i)
    BY DEF NativeInv, DoomedAreLeft
  <2>3. instances[i].state = "alive" /\ ~HasObject(i)'
    BY <1>8, <2>1, <2>2
  <2> QED
    BY <1>1, <2>1, <2>3
<1>10. AliveAreKept'
  <2> SUFFICES ASSUME backend' # "WebAssembly", NEW i \in Instances, instances'[i].state = "alive"
               PROVE  HasObject(i)' \/ i \in doomed' \/ LeftToProgram(i)'
    BY DEF AliveAreKept
  <2>1. i \notin deleted /\ instances'[i] = instances[i]
    BY <1>1
  <2>2. HasObject(i) \/ i \in doomed \/ LeftToProgram(i)
    BY <2>1 DEF NativeInv, AliveAreKept
  <2>3. LeftToProgram(i) => LeftToProgram(i)'
    BY <2>1 DEF LeftToProgram
  <2> QED
    BY <2>1, <2>2, <2>3
<1>11. ManagedHaveObjects'
  BY DEF ManagedHaveObjects
<1>12. backend' \in BackendNames
  BY DEF NativeInv
<1> QED
  BY <1>1, <1>4, <1>5, <1>6, <1>7, <1>9, <1>10, <1>11, <1>12 DEF NativeInv

LEMMA DeletingNothing ==
  ASSUME NativeInv
  PROVE  AfterDelete({}) = instances
  BY DEF AfterDelete, NativeInv, NativeTypeOK

LEMMA ObjectsKeepAlive ==
  ASSUME NativeInv, NEW i \in Instances, HasObject(i)
  PROVE  instances[i].state = "alive" /\ i \notin doomed
<1>1. PICK o \in Live : objectOf[o].instance = i
  BY DEF HasObject
<1>2. Belongs(o, i)
  BY <1>1, NativeAssumption DEF NativeInv, LiveHaveTheirs
<1> QED
  BY <1>2 DEF Belongs, NativeInv, DoomedAreLeft

(* What collection leaves.                                                 *)
LEMMA CollectedLeaves ==
  ASSUME NativeInv, NEW set \in SUBSET Live, objectOf' = Collected(set)
  PROVE  /\ objectOf' \in [ScriptObjects -> ScriptObject]
         /\ Live' = Live \ set
         /\ \A o \in Live \ set : o \in Live' /\ objectOf'[o] = objectOf[o]
         /\ \A i \in Instances :
              HasObject(i)' <=> \E o \in Live \ set : objectOf[o].instance = i
<1>1. objectOf \in [ScriptObjects -> ScriptObject] /\ Live \subseteq ScriptObjects
  BY DEF NativeInv, NativeTypeOK, Live
<1>2. ASSUME NEW o \in ScriptObjects
      PROVE  /\ objectOf'[o] \in ScriptObject
             /\ o \in set => objectOf'[o].state = "collected"
             /\ o \notin set => objectOf'[o] = objectOf[o]
  <2>1. objectOf[o] \in ScriptObject
    BY <1>1
  <2>2. CASE o \in set
    <3>1. objectOf'[o] = [objectOf[o] EXCEPT !.state = "collected"]
      BY <2>2 DEF Collected
    <3> QED
      BY <2>1, <2>2, <3>1 DEF ScriptObject
  <2>3. CASE o \notin set
    BY <2>1, <2>3 DEF Collected
  <2> QED
    BY <2>2, <2>3
<1>3. objectOf' = [o \in ScriptObjects |-> objectOf'[o]]
  BY DEF Collected
<1>4. objectOf' \in [ScriptObjects -> ScriptObject]
  BY <1>2, <1>3
<1>5. Live' = Live \ set
  <2>1. Live' \subseteq Live \ set
    BY <1>2 DEF Live
  <2>2. Live \ set \subseteq Live'
    BY <1>2 DEF Live
  <2> QED
    BY <2>1, <2>2
<1>6. \A o \in Live \ set : o \in Live' /\ objectOf'[o] = objectOf[o]
  BY <1>1, <1>2, <1>5
<1> QED
  BY <1>4, <1>5, <1>6 DEF HasObject

(* An object's instance is deleted, doomed, or left.                       *)
LEMMA OneCollected ==
  ASSUME NativeInv, NEW o \in Live, objectOf' = Collected({o})
  PROVE  LET i == objectOf[o].instance
         IN  /\ i \in Instances \cup {NoInstance}
             /\ i # NoInstance => HasObject(i) /\ Belongs(o, i)
             /\ \A j \in Instances : HasObject(j)' <=> HasObject(j) /\ j # i
<1> DEFINE i == objectOf[o].instance
<1>1. i \in Instances \cup {NoInstance}
  BY DEF NativeInv, NativeTypeOK, ScriptObject, Live
<1>2. i # NoInstance => HasObject(i) /\ Belongs(o, i)
  BY DEF HasObject, NativeInv, LiveHaveTheirs
<1>3. \A j \in Instances : HasObject(j)' <=> \E p \in Live \ {o} : objectOf[p].instance = j
  BY CollectedLeaves
<1>4. \A j \in Instances :
        (\E p \in Live \ {o} : objectOf[p].instance = j) <=> HasObject(j) /\ j # i
  BY NativeAssumption DEF HasObject, NativeInv, OneObjectEach
<1> QED
  BY <1>1, <1>2, <1>3, <1>4

LEMMA CollectInv ==
  ASSUME NativeInv, NEW o \in ScriptObjects, CollectObject(o), ~engineGone, UNCHANGED backend
  PROVE  NativeInv'
<1> DEFINE i == objectOf[o].instance
           its == InstanceOf(o)
           deleted == IF instances' = instances THEN {} ELSE its
<1>1. /\ o \in Live /\ objectOf' = Collected({o})
      /\ backend' = backend /\ engineGone' = engineGone
  BY DEF CollectObject, Live
<1>2. /\ i \in Instances \cup {NoInstance}
      /\ i # NoInstance => HasObject(i) /\ Belongs(o, i)
      /\ \A j \in Instances : HasObject(j)' <=> HasObject(j) /\ j # i
  BY <1>1, OneCollected
<1>3. /\ objectOf' \in [ScriptObjects -> ScriptObject]
      /\ Live' = Live \ {o}
      /\ \A p \in Live \ {o} : p \in Live' /\ objectOf'[p] = objectOf[p]
  BY <1>1, CollectedLeaves
<1>4. /\ its \subseteq Instances /\ \A j \in its : j = i /\ j # NoInstance
      /\ i \in Instances => i \in its
  BY <1>2, NativeAssumption DEF InstanceOf
<1>5. \A j \in its : instances[j].state = "alive" /\ j \notin doomed /\ HasObject(j)
  BY <1>2, <1>4, ObjectsKeepAlive
<1>6. /\ doomed \subseteq Instances /\ managed \subseteq Instances /\ engineGone \in BOOLEAN
  BY DEF NativeInv, NativeTypeOK
<1>7. /\ \/ instances' = AfterDelete(its) /\ doomed' = doomed
         \/ instances' = AfterDelete({}) /\ doomed' = doomed \cup its
              /\ backend \in {"V8", "JavaScriptCore"}
         \/ instances' = AfterDelete({}) /\ doomed' = doomed
              /\ (backend # "WebAssembly" => \A j \in its : LeftToProgram(j))
      /\ managed' = IF backend = "V8" THEN managed \ its ELSE managed
  <2>1. CASE backend \in {"QuickJs", "Lua"} /\ Finalize(o)
    BY <2>1 DEF Finalize
  <2>2. CASE backend = "V8" /\ V8FirstPass(o)
    BY <2>2, DeletingNothing DEF V8FirstPass
  <2>3. CASE backend = "JavaScriptCore" /\ JscFinalize(o)
    BY <2>3, DeletingNothing DEF JscFinalize
  <2>4. CASE backend = "Python" /\ PyDealloc(o)
    <3>1. managed' = managed /\ doomed' = doomed
      BY <2>4 DEF PyDealloc
    <3>2. CASE objectOf[o].owns
      BY <2>4, <3>1, <3>2 DEF PyDealloc
    <3>3. CASE ~objectOf[o].owns
      <4>1. instances' = AfterDelete({})
        BY <2>4, <3>3, DeletingNothing DEF PyDealloc
      <4>2. \A j \in its : LeftToProgram(j)
        BY <1>2, <1>4, <2>4, <3>3 DEF Belongs, LeftToProgram
      <4> QED
        BY <2>4, <3>1, <4>1, <4>2
    <3> QED
      BY <3>2, <3>3
  <2>5. CASE backend = "WebAssembly" /\ WasmCollect(o)
    BY <2>5, DeletingNothing DEF WasmCollect
  <2> QED
    BY <2>1, <2>2, <2>3, <2>4, <2>5 DEF CollectObject
<1> HIDE DEF i, its
<1>8. backend = "V8" => \A j \in Instances : j \in managed' <=> HasObject(j)'
  BY <1>2, <1>4, <1>7, NativeAssumption DEF NativeInv, ManagedHaveObjects
<1>9. \A j \in doomed : backend \in {"V8", "JavaScriptCore"} /\ (engineGone' => backend = "V8")
  BY <1>1 DEF NativeInv, DoomedAreLeft
<1>10. \A j \in its : ~HasObject(j)'
  BY <1>2, <1>4
<1>11. \A j \in Instances : HasObject(j) => HasObject(j)' \/ j \in its
  BY <1>2, <1>4
<1> DEFINE gone == {o}
<1>12. /\ gone \in SUBSET Live /\ gone \cap Live' = {} /\ Live' \subseteq Live
       /\ \A p \in Live \ gone : p \in Live' /\ objectOf'[p] = objectOf[p]
       /\ \A p \in gone : p \in Live' => objectOf'[p].instance = NoInstance
       /\ engineGone' \in BOOLEAN /\ managed' \subseteq Instances
  BY <1>1, <1>3, <1>6, <1>7
<1> HIDE DEF gone
<1>13. CASE instances' = AfterDelete(its) /\ doomed' = doomed
  <2>1. \A j \in its : ~HasObject(j)' /\ j \notin doomed'
    BY <1>5, <1>10, <1>13
  <2>2. \A j \in doomed' :
          /\ j \in doomed \/ (instances[j].state = "alive" /\ ~HasObject(j)')
          /\ backend \in {"V8", "JavaScriptCore"}
          /\ engineGone' => backend = "V8"
    <3> TAKE j \in doomed'
    <3>1. j \in doomed
      BY <1>13
    <3> QED
      BY <1>9, <3>1
  <2>3. its \in SUBSET Instances /\ \A j \in its : instances[j].state = "alive"
    BY <1>4, <1>5
  <2>4. \A j \in Instances : HasObject(j) \/ j \in doomed =>
          HasObject(j)' \/ j \in doomed' \/ j \in its \/ LeftToProgram(j)
    BY <1>11, <1>13
  <2>5. doomed' \subseteq Instances /\ backend' = backend
    BY <1>1, <1>6, <1>13
  <2> QED
    BY <1>3, <1>8, <1>12, <1>13, <2>1, <2>2, <2>3, <2>4, <2>5, ObjectsGo
<1>14. CASE /\ instances' = AfterDelete({}) /\ doomed' = doomed \cup its
            /\ backend \in {"V8", "JavaScriptCore"}
  <2>1. ASSUME NEW j \in doomed'
        PROVE  /\ j \in doomed \/ (instances[j].state = "alive" /\ ~HasObject(j)')
               /\ backend \in {"V8", "JavaScriptCore"}
               /\ engineGone' => backend = "V8"
    <3>1. j \in doomed \/ j \in its
      BY <1>14
    <3>2. ~engineGone'
      BY <1>1
    <3>3. j \in its => instances[j].state = "alive" /\ ~HasObject(j)'
      BY <1>5, <1>10
    <3> QED
      BY <1>14, <3>1, <3>2, <3>3
  <2>2. doomed' \subseteq Instances /\ {} \in SUBSET Instances /\ backend' = backend
    BY <1>1, <1>4, <1>6, <1>14
  <2>3. \A j \in Instances : HasObject(j) \/ j \in doomed =>
          HasObject(j)' \/ j \in doomed' \/ j \in {} \/ LeftToProgram(j)
    BY <1>11, <1>14
  <2> DEFINE none == {}
  <2>4. /\ none \in SUBSET Instances /\ instances' = AfterDelete(none)
        /\ \A j \in none : instances[j].state = "alive"
        /\ \A j \in none : ~HasObject(j)' /\ j \notin doomed'
        /\ \A j \in Instances : HasObject(j) \/ j \in doomed =>
              HasObject(j)' \/ j \in doomed' \/ j \in none \/ LeftToProgram(j)
    BY <1>14, <2>3
  <2> HIDE DEF none
  <2> QED
    BY <1>3, <1>8, <1>12, <2>1, <2>2, <2>4, ObjectsGo
<1>15. CASE /\ instances' = AfterDelete({}) /\ doomed' = doomed
            /\ backend # "WebAssembly" => \A j \in its : LeftToProgram(j)
  <2> DEFINE none == {}
  <2>1. /\ none \in SUBSET Instances /\ instances' = AfterDelete(none)
        /\ \A j \in none : instances[j].state = "alive"
        /\ \A j \in none : ~HasObject(j)' /\ j \notin doomed'
    BY <1>15
  <2> HIDE DEF none
  <2>2. \A j \in doomed' :
          /\ j \in doomed \/ (instances[j].state = "alive" /\ ~HasObject(j)')
          /\ backend \in {"V8", "JavaScriptCore"}
          /\ engineGone' => backend = "V8"
    <3> TAKE j \in doomed'
    <3>1. j \in doomed
      BY <1>15
    <3> QED
      BY <1>9, <3>1
  <2>3. backend # "WebAssembly" => \A j \in Instances : HasObject(j) \/ j \in doomed =>
          HasObject(j)' \/ j \in doomed' \/ j \in none \/ LeftToProgram(j)
    BY <1>11, <1>15
  <2>4. doomed' \subseteq Instances /\ backend' = backend
    BY <1>1, <1>6, <1>15
  <2> QED
    BY <1>3, <1>8, <1>12, <2>1, <2>2, <2>3, <2>4, ObjectsGo
<1> QED
  BY <1>7, <1>13, <1>14, <1>15

LEMMA DeleteDoomedInv ==
  ASSUME NativeInv, NEW i \in Instances, DeleteDoomed(i), UNCHANGED backend
  PROVE  NativeInv'
<1> DEFINE gone == {}
           deleted == {i}
<1>1. /\ i \in doomed /\ instances' = AfterDelete(deleted) /\ doomed' = doomed \ {i}
      /\ backend' = backend /\ engineGone' = engineGone /\ managed' = managed
      /\ objectOf' = objectOf
  BY DEF DeleteDoomed
<1>2. /\ objectOf \in [ScriptObjects -> ScriptObject] /\ engineGone \in BOOLEAN
      /\ managed \subseteq Instances /\ doomed \subseteq Instances
  BY DEF NativeInv, NativeTypeOK
<1>3. Live' = Live
  BY <1>1 DEF Live
<1>4. \A j \in Instances : HasObject(j)' <=> HasObject(j)
  BY <1>1, <1>3 DEF HasObject
<1>5. \A j \in doomed :
        /\ instances[j].state = "alive" /\ ~HasObject(j)
        /\ backend \in {"V8", "JavaScriptCore"} /\ (engineGone => backend = "V8")
  BY DEF NativeInv, DoomedAreLeft
<1>6. /\ gone \in SUBSET Live /\ gone \cap Live' = {} /\ Live' \subseteq Live
      /\ \A p \in Live \ gone : p \in Live' /\ objectOf'[p] = objectOf[p]
      /\ \A p \in gone : p \in Live' => objectOf'[p].instance = NoInstance
      /\ engineGone' \in BOOLEAN /\ managed' \subseteq Instances
      /\ objectOf' \in [ScriptObjects -> ScriptObject]
  BY <1>1, <1>2, <1>3
<1>7. /\ deleted \in SUBSET Instances /\ doomed' \subseteq Instances
      /\ \A j \in deleted : instances[j].state = "alive"
      /\ \A j \in deleted : ~HasObject(j)' /\ j \notin doomed'
  BY <1>1, <1>2, <1>4, <1>5
<1>8. ASSUME NEW j \in doomed'
      PROVE  /\ j \in doomed \/ (instances[j].state = "alive" /\ ~HasObject(j)')
             /\ backend \in {"V8", "JavaScriptCore"}
             /\ engineGone' => backend = "V8"
  <2>1. j \in doomed
    BY <1>1
  <2> QED
    BY <1>1, <1>5, <2>1
<1>9. \A j \in Instances :
        HasObject(j) \/ j \in doomed =>
          HasObject(j)' \/ j \in doomed' \/ j \in deleted \/ LeftToProgram(j)
  BY <1>1, <1>4
<1>10. backend = "V8" => \A j \in Instances : j \in managed' <=> HasObject(j)'
  BY <1>1, <1>4 DEF NativeInv, ManagedHaveObjects
<1> HIDE DEF gone, deleted
<1> QED
  BY <1>1, <1>6, <1>7, <1>8, <1>9, <1>10, ObjectsGo

(* The script object lives on without its instance.                        *)
LEMMA DestroyInstanceInv ==
  ASSUME NativeInv, NEW o \in ScriptObjects, destroyInstance(o), UNCHANGED backend
  PROVE  NativeInv'
<1> DEFINE gone == {o}
           deleted == InstanceOf(o)
           r == [objectOf[o] EXCEPT !.instance = NoInstance, !.class = NoClass]
<1>1. /\ backend = "WebAssembly" /\ o \in Live /\ objectOf[o].instance # NoInstance
      /\ instances' = AfterDelete(deleted)
      /\ backend' = backend /\ engineGone' = engineGone
      /\ managed' = managed /\ doomed' = doomed
  BY DEF destroyInstance, Live
<1>2. /\ objectOf \in [ScriptObjects -> ScriptObject] /\ engineGone \in BOOLEAN
      /\ managed \subseteq Instances /\ doomed \subseteq Instances
      /\ objectOf[o] \in ScriptObject
  BY DEF NativeInv, NativeTypeOK, ScriptObject
<1>3. objectOf' = [objectOf EXCEPT ![o] = r]
  BY <1>2 DEF destroyInstance
<1>4. r \in ScriptObject /\ r.instance = NoInstance /\ r.state = "live"
  BY <1>1, <1>2 DEF ScriptObject, Live
<1> HIDE DEF r
<1>5. /\ objectOf' \in [ScriptObjects -> ScriptObject]
      /\ objectOf'[o] = r /\ \A p \in ScriptObjects \ {o} : objectOf'[p] = objectOf[p]
  BY <1>2, <1>3, <1>4
<1>6. Live' = Live
  BY <1>1, <1>4, <1>5 DEF Live
<1>7. PICK i \in Instances : i = objectOf[o].instance /\ deleted = {i}
  BY <1>1, <1>2 DEF InstanceOf, ScriptObject
<1>8. HasObject(i) /\ instances[i].state = "alive" /\ i \notin doomed
  BY <1>1, <1>7, ObjectsKeepAlive DEF HasObject
<1>9. ~HasObject(i)'
  <2>1. \A p \in Live : objectOf[p].instance = i => p = o
    BY <1>1, <1>7 DEF NativeInv, OneObjectEach
  <2>2. \A p \in Live : objectOf'[p].instance # i
    BY <1>4, <1>5, <1>7, <2>1, NativeAssumption DEF Live
  <2> QED
    BY <1>6, <2>2 DEF HasObject
<1>10. \A j \in doomed :
         /\ backend \in {"V8", "JavaScriptCore"} /\ (engineGone => backend = "V8")
  BY DEF NativeInv, DoomedAreLeft
<1>11. /\ gone \in SUBSET Live /\ Live' \subseteq Live
       /\ \A p \in Live \ gone : p \in Live' /\ objectOf'[p] = objectOf[p]
       /\ \A p \in gone : p \in Live' => objectOf'[p].instance = NoInstance
       /\ engineGone' \in BOOLEAN /\ managed' \subseteq Instances
  BY <1>1, <1>2, <1>4, <1>5, <1>6 DEF Live
<1>12. /\ deleted \in SUBSET Instances /\ doomed' \subseteq Instances
       /\ \A j \in deleted : instances[j].state = "alive"
       /\ \A j \in deleted : ~HasObject(j)' /\ j \notin doomed'
  BY <1>1, <1>2, <1>7, <1>8, <1>9
<1>13. ASSUME NEW j \in doomed'
       PROVE  /\ j \in doomed \/ (instances[j].state = "alive" /\ ~HasObject(j)')
              /\ backend \in {"V8", "JavaScriptCore"}
              /\ engineGone' => backend = "V8"
  <2>1. j \in doomed
    BY <1>1
  <2> QED
    BY <1>1, <1>10, <2>1
<1> HIDE DEF gone, deleted
<1> QED
  BY <1>1, <1>5, <1>11, <1>12, <1>13, ObjectsGo

(* destroy: what it deletes is alive, and nothing lives afterwards.        *)
LEMMA DestroyNativesInv ==
  ASSUME NativeInv, DestroyNatives, ~engineGone, UNCHANGED backend
  PROVE  NativeInv'
<1> DEFINE gone == Live
<1>1. /\ objectOf' = Collected(gone) /\ engineGone' = TRUE /\ managed' = {}
      /\ backend' = backend
  BY DEF DestroyNatives
<1>2. /\ objectOf' \in [ScriptObjects -> ScriptObject] /\ Live' = {}
      /\ \A j \in Instances : ~HasObject(j)'
  BY <1>1, CollectedLeaves
<1>3. /\ managed \subseteq Instances /\ doomed \subseteq Instances /\ NativeTypeOK
  BY DEF NativeInv, NativeTypeOK
<1>4. \A j \in doomed :
        /\ instances[j].state = "alive" /\ ~HasObject(j)
        /\ backend \in {"V8", "JavaScriptCore"}
  BY DEF NativeInv, DoomedAreLeft
<1>5. /\ LiveInstances \subseteq Instances
      /\ \A j \in Instances : j \in LiveInstances <=> HasObject(j)
  <2>1. LiveInstances \subseteq Instances
    BY <1>3 DEF LiveInstances, InstanceOf, Live, NativeTypeOK, ScriptObject
  <2> QED
    BY <1>3, <2>1, LiveInstancesHaveObjects
<1>6. \A j \in Instances : HasObject(j) => instances[j].state = "alive"
  BY ObjectsKeepAlive
<1>7. PICK deleted \in SUBSET Instances :
        /\ instances' = AfterDelete(deleted)
        /\ \A j \in deleted : HasObject(j) \/ j \in doomed
        /\ \A j \in deleted : j \notin doomed'
        /\ doomed' \subseteq doomed
        /\ backend # "V8" => doomed' = {}
        /\ \A j \in Instances : j \in doomed => j \in doomed' \/ j \in deleted
        /\ \A j \in Instances : HasObject(j) => j \in deleted \/ LeftToProgram(j)
  <2>1. CASE backend \in {"QuickJs", "Lua"} /\ FreeContext
    <3>1. doomed = {}
      BY <1>4, <2>1
    <3> QED
      BY <1>5, <2>1, <3>1 DEF FreeContext
  <2>2. CASE backend = "V8" /\ V8Disposal
    <3>1. PICK ran \in SUBSET doomed :
            instances' = AfterDelete(managed \cup ran) /\ doomed' = doomed \ ran
      BY <2>2 DEF V8Disposal
    <3>2. \A j \in Instances : j \in managed <=> HasObject(j)
      BY <2>2 DEF NativeInv, ManagedHaveObjects
    <3> DEFINE deleted == managed \cup ran
    <3>3. deleted \in SUBSET Instances
      BY <1>3
    <3>4. \A j \in deleted : HasObject(j) \/ j \in doomed
      BY <1>3, <3>2
    <3>5. \A j \in deleted : j \notin doomed'
      BY <1>3, <1>4, <3>1, <3>2
    <3> QED
      BY <2>2, <3>1, <3>2, <3>3, <3>4, <3>5
  <2>3. CASE backend = "JavaScriptCore" /\ JscRelease
    BY <1>3, <1>5, <2>3 DEF JscRelease
  <2>4. CASE backend = "Python" /\ PyFinalization
    <3> DEFINE deleted == UNION {InstanceOf(o) : o \in {p \in Live : objectOf[p].owns}}
    <3>1. doomed = {}
      BY <1>4, <2>4
    <3>2. deleted \subseteq LiveInstances
      BY DEF LiveInstances
    <3>3. ASSUME NEW j \in Instances, HasObject(j) PROVE j \in deleted \/ LeftToProgram(j)
      <4>1. PICK o \in Live : objectOf[o].instance = j
        BY <3>3 DEF HasObject
      <4>2. j \in InstanceOf(o) /\ Belongs(o, j)
        BY <4>1, NativeAssumption DEF InstanceOf, NativeInv, LiveHaveTheirs
      <4>3. CASE objectOf[o].owns
        BY <4>2, <4>3
      <4>4. CASE ~objectOf[o].owns
        BY <2>4, <4>2, <4>4 DEF Belongs, LeftToProgram
      <4> QED
        BY <4>3, <4>4
    <3>4. instances' = AfterDelete(deleted) /\ doomed' = {}
      BY <2>4 DEF PyFinalization
    <3> HIDE DEF deleted
    <3> QED
      BY <1>5, <3>1, <3>2, <3>3, <3>4
  <2> QED
    BY <2>1, <2>2, <2>3, <2>4 DEF DestroyNatives
<1>8. ASSUME NEW j \in doomed'
      PROVE  /\ j \in doomed \/ (instances[j].state = "alive" /\ ~HasObject(j)')
             /\ backend \in {"V8", "JavaScriptCore"}
             /\ engineGone' => backend = "V8"
  BY <1>4, <1>7
<1>9. /\ gone \in SUBSET Live /\ gone \cap Live' = {} /\ Live' \subseteq Live
      /\ \A p \in Live \ gone : p \in Live' /\ objectOf'[p] = objectOf[p]
      /\ \A p \in gone : p \in Live' => objectOf'[p].instance = NoInstance
      /\ engineGone' \in BOOLEAN /\ managed' \subseteq Instances
  BY <1>1, <1>2
<1>10. /\ \A j \in deleted : instances[j].state = "alive"
       /\ \A j \in deleted : ~HasObject(j)' /\ j \notin doomed'
       /\ doomed' \subseteq Instances
  BY <1>2, <1>3, <1>4, <1>6, <1>7
<1>11. \A j \in Instances :
         HasObject(j) \/ j \in doomed =>
           HasObject(j)' \/ j \in doomed' \/ j \in deleted \/ LeftToProgram(j)
  BY <1>7
<1>12. \A j \in Instances : j \in managed' <=> HasObject(j)'
  BY <1>1, <1>2
<1> HIDE DEF gone
<1> QED
  BY <1>1, <1>2, <1>7, <1>8, <1>9, <1>10, <1>11, <1>12, ObjectsGo

LEMMA NativeNextInv ==
  ASSUME NativeInv, [NativeNext /\ UNCHANGED backend]_<<backend, nativeVars>>
  PROVE  NativeInv'
<1>1. CASE NativeNext /\ UNCHANGED backend
  <2>1. ASSUME NEW o \in ScriptObjects, NEW i \in Instances, NEW c \in Classes,
               NEW fromCpp \in BOOLEAN, Construct(o, i, c, fromCpp)
        PROVE  NativeInv'
    BY <1>1, <2>1, ConstructInv
  <2>2. ASSUME NEW o \in ScriptObjects, NEW c \in Classes, ConstructFailing(o, c)
        PROVE  NativeInv'
    BY <1>1, <2>2, ConstructFailingInv
  <2>3. ASSUME NEW o \in ScriptObjects, LetGo(o) \/ ExtensionEnds(o) PROVE NativeInv'
    BY <1>1, <2>3, LetGoInv
  <2>4. ASSUME NEW o \in ScriptObjects, CollectObject(o), ~engineGone PROVE NativeInv'
    BY <1>1, <2>4, CollectInv
  <2>5. ASSUME NEW o \in ScriptObjects, destroyInstance(o) PROVE NativeInv'
    BY <1>1, <2>5, DestroyInstanceInv
  <2>6. ASSUME NEW i \in Instances, DeleteDoomed(i) PROVE NativeInv'
    BY <1>1, <2>6, DeleteDoomedInv
  <2>7. ASSUME DestroyNatives, ~engineGone PROVE NativeInv'
    BY <1>1, <2>7, DestroyNativesInv
  <2> QED
    BY <1>1, <2>1, <2>2, <2>3, <2>4, <2>5, <2>6, <2>7 DEF NativeNext
<1>2. CASE UNCHANGED <<backend, nativeVars>>
  <2>1. /\ backend' = backend /\ engineGone' = engineGone /\ objectOf' = objectOf
        /\ instances' = instances /\ managed' = managed /\ doomed' = doomed
    BY <1>2 DEF nativeVars
  <2>2. objectOf' \in [ScriptObjects -> ScriptObject]
    BY <2>1 DEF NativeInv, NativeTypeOK
  <2> QED
    BY <2>1, <2>2, StillHeld
<1> QED
  BY <1>1, <1>2

(* Each instance of a native class is deleted once, in six backends, never *)
(* while a method could be called on it, and none is left when its object  *)
(* or the engine has gone: constructors, finalizers that delete, defer or  *)
(* post the deletion, and destroy() agree on whose the instance is.        *)
THEOREM InstancesAreDeletedOnce == NativeSpec => []InstancesDeletedOnce
<1>1. NativeSpec => []NativeInv
  BY NativeInitInv, NativeNextInv, PTL DEF NativeSpec
<1> QED
  BY <1>1, InvKeepsPromise, PTL

(* What a script object refers to, and the state of each instance, are of  *)
(* their types in every backend.                                           *)
THEOREM InstancesAreTyped == NativeSpec => []NativeTypeOK
<1>1. NativeSpec => []NativeInv
  BY NativeInitInv, NativeNextInv, PTL DEF NativeSpec
<1>2. NativeInv => NativeTypeOK
  BY DEF NativeInv
<1> QED
  BY <1>1, <1>2, PTL

-----------------------------------------------------------------------------
(***************************************************************************)
(* Calls of bound functions, getters and setters.                          *)
(***************************************************************************)

(* What an adapted function may try.                                       *)
Plain ==
  {bindStaticFunc(FALSE, TRUE), bindInstanceFunc(FALSE, TRUE),
   Raw("static", "function"), Raw("instance", "function")}
Alternatives == Plain \cup {Adapted("static", <<bindStaticFunc(FALSE, TRUE)>>)}
Callable     == Members \cup Alternatives

BindFrames ==
  [at : {"script", "overloads", "call", "body", "wrapper"}, member : Callable \cup {NoMember},
   bodies : Nat, bodyThrew : BOOLEAN, args : BOOLEAN, trying : Nat]

LastScript(s) == SelectLastInSubSeq(s, 1, Len(s), LAMBDA frame : frame.at = "script")

(* Frame i is the script whose call frame j is about.                      *)
Serves(s, j, i) ==
  /\ i \in 1..(j - 1) /\ s[i].at = "script" /\ s[j].at # "script"
  /\ \A k \in (i + 1)..(j - 1) :
       s[k].at \in {"overloads", "body"} /\ (s[k].at = "body" => s[j].at = "wrapper")

(* A body that has not been left is the only one of its call.              *)
Served(s, j) ==
  s[j].at # "script" =>
    \E i \in 1..Len(s) :
      Serves(s, j, i) /\ (s[j].at = "body" => s[i].bodies = 1 /\ ~s[i].bodyThrew)

(* One frame has made another.                                             *)
Makes(f, g) ==
  /\ g.at = "script" => f.at \in {"body", "wrapper"}
  /\ g.at = "wrapper" => f.at = "body"
  /\ g.at \in {"overloads", "call", "body"} =>
       \/ f.at = "script" /\ g.member = f.member
       \/ f.at = "overloads" /\ f.trying \in 1..Len(f.member.funcs)
            /\ g.member = f.member.funcs[f.trying]

Placed(f) ==
  /\ f.at = "overloads" => f.member.role = "overloads" /\ f.trying \in 0..Len(f.member.funcs)
  /\ f.at \in {"call", "body"} => f.member.role # "overloads"
  /\ f.at \in {"overloads", "call", "body"} => f.member \in Callable

Stacked(s) ==
  /\ s \in Seq(BindFrames) /\ Len(s) >= 1
  /\ s[1].at = "script"
  /\ \A i \in 1..Len(s) : Placed(s[i])
  /\ \A i \in 1..(Len(s) - 1) : s[i].at = "script" => s[i].member \in Members
  /\ \A i \in 2..Len(s) : Makes(s[i - 1], s[i])
  /\ \A j \in 1..Len(s) : Served(s, j)

SilentGetter(member) == member.role = "getter" /\ member.member = "instance" /\ member.nothrow

(* What is known of a script's call when the script, or an adapted function*)
(* above it, is given a result.                                            *)
Settles(s, at, with) ==
  /\ \/ s.bodies = 1 /\ with # "overload"
     \/ s.bodies = 0 /\ with = "mismatch"
     \/ s.bodies = 0 /\ with = "overload" /\ at = "overloads"
     \/ s.bodies = 0 /\ with = "null" /\ at = "script" /\ s.member.nothrow
  /\ s.bodyThrew => \/ with = "threw"
                    \/ with = "null" /\ at = "script" /\ SilentGetter(s.member)

KnownToEscape(member) ==
  \/ backend = "V8" /\ member.role = "getter"
  \/ backend = "Python" /\ member.role = "constructor"

AtTop(s, with) ==
  LET top    == s[Len(s)]
      script == s[LastScript(s)]
  IN  /\ top.at = "script" => IF with = "none" THEN top = ScriptFrame ELSE top.member \in Members
      /\ with = "none" /\ top.at \in {"overloads", "call"} => script.bodies = 0 /\ ~script.bodyThrew
      /\ with = "none" /\ top.at = "overloads" => top.trying < Len(top.member.funcs)
      /\ with \notin {"none", "escaped"} /\ top.at \in {"script", "overloads"} =>
           Settles(script, top.at, with)
      /\ with = "overload" => top.at = "overloads"
      /\ with = "escaped" => top.at = "script"

StackOK(s, with) == Stacked(s) /\ with \in Results /\ AtTop(s, with)

BindInv ==
  /\ backend \in BackendNames /\ StackOK(frames, result)
  /\ result = "escaped" => KnownToEscape(Top.member)

-----------------------------------------------------------------------------
(* What can be bound.                                                      *)

LEMMA RawIs ==
  ASSUME NEW member, NEW role, NEW m, m = Raw(member, role)
  PROVE  m.role = role /\ ~m.converts /\ ~m.nothrow /\ ~m.throwForOverload
BY DEF Raw

LEMMA FunctionIs ==
  ASSUME NEW nothrow \in BOOLEAN, NEW throwForOverload \in BOOLEAN, NEW m,
         m \in {bindStaticFunc(nothrow, throwForOverload), bindInstanceFunc(nothrow, throwForOverload)}
  PROVE  m.role = "function" /\ m.nothrow = nothrow /\ m.throwForOverload = throwForOverload
<1>1. m.role = "function"
  BY DEF Raw, Converting, bindStaticFunc, bindInstanceFunc
<1>2. m.nothrow = nothrow
  BY DEF Raw, Converting, bindStaticFunc, bindInstanceFunc
<1>3. m.throwForOverload = throwForOverload
  BY DEF Raw, Converting, bindStaticFunc, bindInstanceFunc
<1> QED BY <1>1, <1>2, <1>3

LEMMA AdaptedIs ==
  ASSUME NEW member, NEW functions, NEW m, m = Adapted(member, functions)
  PROVE  m.role = "overloads" /\ ~m.nothrow /\ ~m.throwForOverload /\ m.funcs = functions
<1>1. m.role = "overloads" /\ ~m.nothrow /\ ~m.throwForOverload
  BY DEF Raw, Adapted
<1>2. m.funcs = functions
  BY DEF Raw, Adapted
<1> QED BY <1>1, <1>2

LEMMA PlainIs ==
  ASSUME NEW f \in Plain
  PROVE  f.role = "function" /\ ~f.nothrow
<1>1. CASE f \in {bindStaticFunc(FALSE, TRUE), bindInstanceFunc(FALSE, TRUE)}
  BY <1>1 DEF Raw, Converting, bindStaticFunc, bindInstanceFunc
<1>2. CASE f \in {Raw("static", "function"), Raw("instance", "function")}
  BY <1>2 DEF Raw
<1> QED BY <1>1, <1>2 DEF Plain

LEMMA AlternativeIs ==
  ASSUME NEW f \in Alternatives
  PROVE  /\ f.role \in {"function", "overloads"} /\ ~f.nothrow
         /\ f.role = "overloads" => f.funcs \in Seq(Alternatives) /\ Len(f.funcs) >= 1
<1>1. CASE f \in Plain
  BY <1>1, PlainIs
<1>2. CASE f = Adapted("static", <<bindStaticFunc(FALSE, TRUE)>>)
  <2> DEFINE g == bindStaticFunc(FALSE, TRUE)
             gs == <<g>>
  <2>1. g \in Alternatives
    BY DEF Alternatives, Plain
  <2>2. gs \in Seq(Alternatives) /\ Len(gs) = 1
    <3> HIDE DEF g
    <3> QED BY <2>1
  <2>3. f = Adapted("static", gs)
    BY <1>2
  <2> HIDE DEF gs
  <2>4. f.role = "overloads" /\ ~f.nothrow /\ f.funcs = gs
    BY <2>3, AdaptedIs
  <2> QED BY <2>2, <2>4
<1> QED BY <1>1, <1>2 DEF Alternatives

LEMMA PairIs ==
  ASSUME NEW f \in Alternatives, NEW g \in Alternatives, NEW member, NEW m,
         m = Adapted(member, <<f, g>>)
  PROVE  /\ m.role = "overloads" /\ ~m.throwForOverload
         /\ m.funcs \in Seq(Alternatives) /\ Len(m.funcs) >= 1
<1> DEFINE fs == <<f, g>>
<1>1. fs \in Seq(Alternatives) /\ Len(fs) = 2
  OBVIOUS
<1> HIDE DEF fs
<1>2. m.role = "overloads" /\ ~m.throwForOverload /\ m.funcs = fs
  BY AdaptedIs DEF fs
<1> QED BY <1>1, <1>2

LEMMA BoundIs ==
  ASSUME NEW nothrow \in BOOLEAN, NEW m \in BoundMembers(nothrow)
  PROVE  m.role \in {"function", "getter", "setter"} /\ ~m.throwForOverload
<1>1. CASE m = bindStaticFunc(nothrow, FALSE)
  BY <1>1 DEF bindStaticFunc, Converting, Raw
<1>2. CASE m = bindInstanceFunc(nothrow, FALSE)
  BY <1>2 DEF bindInstanceFunc, Converting, Raw
<1>3. CASE m = bindStaticGet(nothrow)
  BY <1>3 DEF bindStaticGet, Converting, Raw
<1>4. CASE m = bindInstanceGet(nothrow)
  BY <1>4 DEF bindInstanceGet, Converting, Raw
<1>5. CASE m = bindStaticSet(nothrow)
  BY <1>5 DEF bindStaticSet, Converting, Raw
<1>6. CASE m = bindInstanceSet(nothrow)
  BY <1>6 DEF bindInstanceSet, Converting, Raw
<1> QED BY <1>1, <1>2, <1>3, <1>4, <1>5, <1>6 DEF BoundMembers

LEMMA OverloadsAre ==
  ASSUME NEW m \in adaptOverLoadedFunction \cup adaptOverloadedInstanceFunction
  PROVE  /\ m.role = "overloads" /\ ~m.throwForOverload
         /\ m.funcs \in Seq(Alternatives) /\ Len(m.funcs) >= 1
<1>1. CASE m \in adaptOverLoadedFunction
  <2>1. PICK f \in {bindStaticFunc(FALSE, TRUE), Raw("static", "function")}
                     \cup {Adapted("static", <<bindStaticFunc(FALSE, TRUE)>>)},
             g \in {bindStaticFunc(FALSE, TRUE), Raw("static", "function")} :
          m = Adapted("static", <<f, g>>)
    BY <1>1 DEF adaptOverLoadedFunction
  <2>2. f \in Alternatives /\ g \in Alternatives
    BY DEF Alternatives, Plain
  <2> QED BY <2>1, <2>2, PairIs
<1>2. CASE m \in adaptOverloadedInstanceFunction
  <2>1. PICK f \in {bindInstanceFunc(FALSE, TRUE), Raw("instance", "function")},
             g \in {bindInstanceFunc(FALSE, TRUE), Raw("instance", "function")} :
          m = Adapted("instance", <<f, g>>)
    BY <1>2 DEF adaptOverloadedInstanceFunction
  <2>2. f \in Alternatives /\ g \in Alternatives
    BY DEF Alternatives, Plain
  <2> QED BY <2>1, <2>2, PairIs
<1> QED BY <1>1, <1>2

LEMMA MemberIs ==
  ASSUME NEW m \in Members
  PROVE  /\ m.role \in Roles /\ ~m.throwForOverload
         /\ m.role = "overloads" => m.funcs \in Seq(Alternatives) /\ Len(m.funcs) >= 1
<1>1. CASE m \in CallbackMembers
  <2>1. m.role \in {"function", "getter", "setter", "constructor"} /\ ~m.throwForOverload
    BY <1>1 DEF CallbackMembers, Raw
  <2> QED BY <2>1 DEF Roles
<1>2. CASE \E nothrow \in BOOLEAN : m \in BoundMembers(nothrow)
  <2>1. m.role \in {"function", "getter", "setter"} /\ ~m.throwForOverload
    BY <1>2, BoundIs
  <2> QED BY <2>1 DEF Roles
<1>3. CASE m \in adaptOverLoadedFunction \cup adaptOverloadedInstanceFunction
  <2>1. /\ m.role = "overloads" /\ ~m.throwForOverload
        /\ m.funcs \in Seq(Alternatives) /\ Len(m.funcs) >= 1
    BY <1>3, OverloadsAre
  <2> QED BY <2>1 DEF Roles
<1> QED BY <1>1, <1>2, <1>3 DEF Members

LEMMA CallableIs ==
  ASSUME NEW m \in Callable
  PROVE  /\ m.role \in {"function", "overloads", "getter", "setter", "constructor"}
         /\ m.role = "overloads" => m.funcs \in Seq(Alternatives) /\ Len(m.funcs) >= 1
BY MemberIs, AlternativeIs DEF Callable, Roles

-----------------------------------------------------------------------------
(* The stack.                                                              *)

LEMMA FrontIs ==
  ASSUME NEW S, NEW s \in Seq(S), Len(s) > 1
  PROVE  /\ Front(s) \in Seq(S) /\ Len(Front(s)) = Len(s) - 1
         /\ \A k \in 1..(Len(s) - 1) : Front(s)[k] = s[k]
BY SubSeqProperties DEF Front

LEMMA StackIs ==
  ASSUME NEW s, Stacked(s)
  PROVE  /\ s \in Seq(BindFrames) /\ Len(s) \in Nat /\ Len(s) >= 1
         /\ \A i \in 1..Len(s) : s[i] \in BindFrames /\ Placed(s[i]) /\ Served(s, i)
         /\ Last(s) = s[Len(s)] /\ s[Len(s)] \in BindFrames
BY DEF Stacked, Last

(* The frame that Caller designates.                                       *)
LEMMA LastScriptIs ==
  ASSUME NEW s \in Seq(BindFrames), NEW i \in 1..Len(s), s[i].at = "script",
         \A k \in (i + 1)..Len(s) : s[k].at # "script"
  PROVE  LastScript(s) = i
<1> DEFINE I == {k \in 1..Len(s) : s[k].at = "script"}
<1>1. i \in I /\ I # {} /\ \A k \in I : i >= k
  BY DEF I
<1>2. \A m \in I : (\A k \in I : m >= k) => m = i
  BY <1>1 DEF I
<1>3. (CHOOSE m \in I : \A k \in I : m >= k) = i
  BY <1>1, <1>2
<1>4. LastScript(s) = IF I # {} THEN Max(I) ELSE 0
  BY DEF LastScript, SelectLastInSubSeq, I
<1> QED BY <1>1, <1>3, <1>4 DEF Max

LEMMA ScriptIs ==
  ASSUME NEW s, Stacked(s)
  PROVE  /\ LastScript(s) \in 1..Len(s) /\ s[LastScript(s)].at = "script"
         /\ s[Len(s)].at = "script" => LastScript(s) = Len(s)
         /\ s[Len(s)].at # "script" => Serves(s, Len(s), LastScript(s))
         /\ s[Len(s)].at = "body" => s[LastScript(s)].bodies = 1 /\ ~s[LastScript(s)].bodyThrew
<1>1. s \in Seq(BindFrames) /\ Len(s) \in Nat /\ Len(s) >= 1
  BY StackIs
<1>2. CASE s[Len(s)].at = "script"
  <2>1. Len(s) \in 1..Len(s) /\ \A k \in (Len(s) + 1)..Len(s) : s[k].at # "script"
    BY <1>1
  <2>2. LastScript(s) = Len(s)
    BY <1>1, <1>2, <2>1, LastScriptIs
  <2> QED BY <1>2, <2>1, <2>2
<1>3. CASE s[Len(s)].at # "script"
  <2>1. PICK i \in 1..Len(s) :
          /\ Serves(s, Len(s), i)
          /\ s[Len(s)].at = "body" => s[i].bodies = 1 /\ ~s[i].bodyThrew
    BY <1>1, <1>3 DEF Stacked, Served
  <2>2. s[i].at = "script" /\ \A k \in (i + 1)..Len(s) : s[k].at # "script"
    BY <1>1, <2>1 DEF Serves
  <2>3. LastScript(s) = i
    BY <1>1, <2>2, LastScriptIs
  <2> QED BY <1>3, <2>1, <2>2, <2>3
<1> QED BY <1>2, <1>3

LEMMA ExceptIs ==
  ASSUME NEW S, NEW s \in Seq(S), NEW i \in 1..Len(s), NEW h \in S
  PROVE  LET u == [s EXCEPT ![i] = h]
         IN  /\ u \in Seq(S) /\ Len(u) = Len(s) /\ u[i] = h
             /\ \A k \in 1..Len(s) : k # i => u[k] = s[k]
OBVIOUS

LEMMA AppendIs ==
  ASSUME NEW S, NEW s \in Seq(S), NEW h \in S
  PROVE  LET u == Append(s, h)
         IN  /\ u \in Seq(S) /\ Len(u) = Len(s) + 1 /\ u[Len(s) + 1] = h
             /\ \A k \in 1..Len(s) : u[k] = s[k]
OBVIOUS

LEMMA SameSeq ==
  ASSUME NEW S, NEW s \in Seq(S), NEW u \in Seq(S), Len(s) = Len(u),
         \A k \in 1..Len(s) : s[k] = u[k]
  PROVE  s = u
OBVIOUS

(* A frame leaves.                                                         *)
LEMMA FrontKeeps ==
  ASSUME NEW s, Stacked(s), Len(s) > 1
  PROVE  /\ Stacked(Front(s)) /\ Front(s) \in Seq(BindFrames) /\ Len(Front(s)) = Len(s) - 1
         /\ \A k \in 1..(Len(s) - 1) : Front(s)[k] = s[k]
         /\ s[Len(s)].at # "script" =>
              LastScript(Front(s)) = LastScript(s) /\ LastScript(s) \in 1..(Len(s) - 1)
<1> DEFINE u == Front(s)
<1>1. /\ s \in Seq(BindFrames) /\ Len(s) \in Nat /\ u \in Seq(BindFrames) /\ Len(u) = Len(s) - 1
      /\ \A k \in 1..(Len(s) - 1) : u[k] = s[k]
  BY StackIs, FrontIs
<1> HIDE DEF u
<1>2. u[1].at = "script" /\ Len(u) >= 1
  BY <1>1 DEF Stacked
<1>3. \A i \in 1..Len(u) : Placed(u[i])
  BY <1>1 DEF Stacked
<1>4. \A i \in 1..(Len(u) - 1) : u[i].at = "script" => u[i].member \in Members
  <2> TAKE i \in 1..(Len(u) - 1)
  <2>1. i \in 1..(Len(s) - 1) /\ u[i] = s[i]
    BY <1>1
  <2> QED BY <2>1 DEF Stacked
<1>5. \A i \in 2..Len(u) : Makes(u[i - 1], u[i])
  <2> TAKE i \in 2..Len(u)
  <2>1. i \in 2..Len(s) /\ u[i] = s[i] /\ u[i - 1] = s[i - 1]
    BY <1>1
  <2> QED BY <2>1 DEF Stacked
<1>6. ASSUME NEW j \in 1..Len(u) PROVE Served(u, j)
  <2>1. j \in 1..Len(s) /\ u[j] = s[j] /\ Served(s, j)
    BY <1>1 DEF Stacked
  <2>2. SUFFICES ASSUME u[j].at # "script"
        PROVE  \E i \in 1..Len(u) :
                 Serves(u, j, i) /\ (u[j].at = "body" => u[i].bodies = 1 /\ ~u[i].bodyThrew)
    BY DEF Served
  <2>3. PICK i \in 1..Len(s) :
          Serves(s, j, i) /\ (s[j].at = "body" => s[i].bodies = 1 /\ ~s[i].bodyThrew)
    BY <2>1, <2>2 DEF Served
  <2>4. i \in 1..(j - 1) /\ i \in 1..Len(u) /\ u[i] = s[i]
    BY <1>1, <2>1, <2>3 DEF Serves
  <2>5. \A k \in (i + 1)..(j - 1) : u[k] = s[k]
    BY <1>1, <2>1, <2>4
  <2>6. Serves(u, j, i)
    BY <2>1, <2>3, <2>4, <2>5 DEF Serves
  <2> QED BY <2>1, <2>3, <2>4, <2>6
<1>7. Stacked(u)
  BY <1>1, <1>2, <1>3, <1>4, <1>5, <1>6 DEF Stacked
<1>8. ASSUME s[Len(s)].at # "script"
      PROVE  LastScript(u) = LastScript(s) /\ LastScript(s) \in 1..(Len(s) - 1)
  <2> DEFINE c == LastScript(s)
  <2>1. Serves(s, Len(s), c)
    BY <1>8, ScriptIs
  <2> HIDE DEF c
  <2>2. /\ c \in 1..(Len(s) - 1) /\ s[c].at = "script"
        /\ \A k \in (c + 1)..(Len(s) - 1) : s[k].at # "script"
    BY <2>1 DEF Serves
  <2>3. c \in 1..Len(u) /\ u[c].at = "script" /\ \A k \in (c + 1)..Len(u) : u[k].at # "script"
    BY <1>1, <2>2
  <2>4. LastScript(u) = c
    BY <1>1, <2>3, LastScriptIs
  <2> QED BY <2>2, <2>4 DEF c
<1> QED BY <1>1, <1>7, <1>8 DEF u

(* A frame comes.                                                          *)
LEMMA AppendKeeps ==
  ASSUME NEW s, Stacked(s), NEW g \in BindFrames, Placed(g), Makes(s[Len(s)], g),
         s[Len(s)].at = "script" => s[Len(s)].member \in Members,
         g.at = "body" => s[LastScript(s)].bodies = 1 /\ ~s[LastScript(s)].bodyThrew
  PROVE  /\ Stacked(Append(s, g)) /\ Len(Append(s, g)) = Len(s) + 1
         /\ Append(s, g)[Len(s) + 1] = g /\ \A k \in 1..Len(s) : Append(s, g)[k] = s[k]
         /\ g.at # "script" => LastScript(Append(s, g)) = LastScript(s)
<1> DEFINE u == Append(s, g)
           n == Len(s)
           c == LastScript(s)
<1>1. /\ s \in Seq(BindFrames) /\ n \in Nat /\ n >= 1 /\ u \in Seq(BindFrames) /\ Len(u) = n + 1
      /\ u[n + 1] = g /\ \A k \in 1..n : u[k] = s[k]
  BY StackIs, AppendIs
<1>2. /\ c \in 1..n /\ s[c].at = "script" /\ (s[n].at = "script" => c = n)
      /\ s[n].at # "script" => Serves(s, n, c)
  BY ScriptIs
<1> HIDE DEF u, n, c
<1>3. u[1].at = "script" /\ Len(u) >= 1
  BY <1>1 DEF Stacked
<1>4. \A i \in 1..Len(u) : Placed(u[i])
  <2> TAKE i \in 1..Len(u)
  <2>1. CASE i = n + 1
    BY <1>1, <2>1
  <2>2. CASE i # n + 1
    <3>1. i \in 1..n
      BY <1>1, <2>2
    <3> QED BY <1>1, <3>1 DEF Stacked, n
  <2> QED BY <2>1, <2>2
<1>5. \A i \in 1..(Len(u) - 1) : u[i].at = "script" => u[i].member \in Members
  <2> TAKE i \in 1..(Len(u) - 1)
  <2>1. i \in 1..n /\ u[i] = s[i]
    BY <1>1
  <2>2. CASE i = n
    BY <2>1, <2>2 DEF n
  <2>3. CASE i # n
    <3>1. i \in 1..(Len(s) - 1)
      BY <1>1, <2>1, <2>3 DEF n
    <3> QED BY <2>1, <3>1 DEF Stacked
  <2> QED BY <2>2, <2>3
<1>6. \A i \in 2..Len(u) : Makes(u[i - 1], u[i])
  <2> TAKE i \in 2..Len(u)
  <2>1. CASE i = n + 1
    <3>1. u[i] = g /\ u[i - 1] = s[n]
      BY <1>1, <2>1
    <3> QED BY <3>1 DEF n
  <2>2. CASE i # n + 1
    <3>1. i \in 2..Len(s) /\ u[i] = s[i] /\ u[i - 1] = s[i - 1]
      BY <1>1, <2>2 DEF n
    <3> QED BY <3>1 DEF Stacked
  <2> QED BY <2>1, <2>2
<1>7. ASSUME g.at # "script" PROVE Serves(u, n + 1, c)
  <2>1. CASE s[n].at = "script"
    <3>1. c = n
      BY <1>2, <2>1
    <3>2. n \in 1..((n + 1) - 1) /\ \A k \in (n + 1)..((n + 1) - 1) : FALSE
      BY <1>1
    <3>3. u[n].at = "script" /\ u[n + 1].at # "script"
      BY <1>1, <1>7, <2>1
    <3> QED BY <3>1, <3>2, <3>3 DEF Serves
  <2>2. CASE s[n].at # "script"
    <3>1. /\ c \in 1..(n - 1) /\ s[c].at = "script"
          /\ \A k \in (c + 1)..(n - 1) :
               s[k].at \in {"overloads", "body"} /\ (s[k].at = "body" => s[n].at = "wrapper")
      BY <1>2, <2>2 DEF Serves
    <3>2. g.at \in {"overloads", "call", "body", "wrapper"}
      BY <1>7 DEF BindFrames
    <3>3. s[n].at = "overloads" \/ (s[n].at = "body" /\ g.at = "wrapper")
      BY <2>2, <3>2 DEF Makes, n
    <3>4. ASSUME NEW k \in (c + 1)..((n + 1) - 1)
          PROVE  u[k].at \in {"overloads", "body"} /\ (u[k].at = "body" => g.at = "wrapper")
      <4>1. CASE k = n
        <5>1. u[k] = s[n]
          BY <1>1, <4>1
        <5> QED BY <3>3, <5>1
      <4>2. CASE k # n
        <5>1. k \in (c + 1)..(n - 1) /\ k \in 1..n
          BY <1>1, <3>1, <4>2
        <5>2. u[k] = s[k] /\ s[k].at = "overloads"
          BY <1>1, <3>1, <3>3, <5>1
        <5> QED BY <5>2
      <4> QED BY <4>1, <4>2
    <3>5. c \in 1..((n + 1) - 1) /\ u[c] = s[c] /\ u[n + 1] = g
      BY <1>1, <3>1
    <3> QED BY <1>7, <3>1, <3>4, <3>5 DEF Serves
  <2> QED BY <2>1, <2>2
<1>8. ASSUME NEW j \in 1..Len(u) PROVE Served(u, j)
  <2>1. SUFFICES ASSUME u[j].at # "script"
        PROVE  \E i \in 1..Len(u) :
                 Serves(u, j, i) /\ (u[j].at = "body" => u[i].bodies = 1 /\ ~u[i].bodyThrew)
    BY DEF Served
  <2>2. CASE j = n + 1
    <3>1. u[j] = g /\ u[c] = s[c] /\ c \in 1..Len(u)
      BY <1>1, <1>2, <2>2
    <3>2. Serves(u, j, c)
      BY <1>7, <2>1, <2>2, <3>1
    <3> QED BY <3>1, <3>2 DEF c
  <2>3. CASE j # n + 1
    <3>1. j \in 1..Len(s) /\ u[j] = s[j] /\ Served(s, j)
      BY <1>1, <2>3 DEF Stacked, n
    <3>2. PICK i \in 1..Len(s) :
            Serves(s, j, i) /\ (s[j].at = "body" => s[i].bodies = 1 /\ ~s[i].bodyThrew)
      BY <2>1, <3>1 DEF Served
    <3>3. i \in 1..(j - 1) /\ i \in 1..Len(u) /\ u[i] = s[i]
      BY <1>1, <3>1, <3>2 DEF Serves, n
    <3>4. \A k \in (i + 1)..(j - 1) : u[k] = s[k]
      BY <1>1, <3>1, <3>3 DEF n
    <3>5. Serves(u, j, i)
      BY <3>1, <3>2, <3>3, <3>4 DEF Serves
    <3> QED BY <3>1, <3>2, <3>3, <3>5
  <2> QED BY <2>2, <2>3
<1>9. Stacked(u)
  BY <1>1, <1>3, <1>4, <1>5, <1>6, <1>8 DEF Stacked
<1>10. ASSUME g.at # "script" PROVE LastScript(u) = c
  <2>1. u[n + 1].at # "script" /\ n + 1 = Len(u) /\ Serves(u, Len(u), c)
    BY <1>1, <1>7, <1>10
  <2>2. c \in 1..Len(u) /\ u[c].at = "script" /\ \A k \in (c + 1)..Len(u) : u[k].at # "script"
    BY <1>1, <2>1 DEF Serves
  <2> QED BY <1>1, <2>2, LastScriptIs
<1> QED BY <1>1, <1>9, <1>10 DEF u, n, c

(* A frame is rewritten.                                                   *)
LEMMA UpdateKeeps ==
  ASSUME NEW s, Stacked(s), NEW i \in 1..Len(s), NEW h \in BindFrames,
         h.at = s[i].at, Placed(h),
         i < Len(s) /\ h.at = "script" => h.member \in Members,
         i > 1 => Makes(s[i - 1], h),
         i < Len(s) => Makes(h, s[i + 1]),
         h.at = "script" =>
           \A j \in 1..Len(s) : s[j].at = "body" /\ Serves(s, j, i) => h.bodies = 1 /\ ~h.bodyThrew
  PROVE  LET u == [s EXCEPT ![i] = h]
         IN  /\ Stacked(u) /\ Len(u) = Len(s) /\ u[i] = h
             /\ \A k \in 1..Len(s) : k # i => u[k] = s[k]
             /\ LastScript(u) = LastScript(s)
<1> DEFINE u == [s EXCEPT ![i] = h]
           n == Len(s)
<1>1. /\ s \in Seq(BindFrames) /\ n \in Nat /\ n >= 1 /\ u \in Seq(BindFrames) /\ Len(u) = n
      /\ u[i] = h /\ \A k \in 1..n : k # i => u[k] = s[k]
  BY StackIs, ExceptIs
<1> HIDE DEF u
<1>2. \A k \in 1..n : u[k].at = s[k].at
  BY <1>1
<1>3. u[1].at = "script"
  BY <1>1, <1>2 DEF Stacked
<1>4. \A k \in 1..n : Placed(u[k])
  <2> TAKE k \in 1..n
  <2> QED BY <1>1 DEF Stacked
<1>5. \A k \in 1..(n - 1) : u[k].at = "script" => u[k].member \in Members
  <2> TAKE k \in 1..(n - 1)
  <2>1. CASE k = i
    BY <1>1, <2>1
  <2>2. CASE k # i
    BY <1>1, <2>2 DEF Stacked
  <2> QED BY <2>1, <2>2
<1>6. \A k \in 2..n : Makes(u[k - 1], u[k])
  <2> TAKE k \in 2..n
  <2>1. k - 1 \in 1..n /\ k \in 1..n /\ k - 1 # k /\ Makes(s[k - 1], s[k])
    BY <1>1 DEF Stacked
  <2>2. CASE k = i
    <3>1. u[k] = h /\ u[k - 1] = s[i - 1] /\ i > 1
      BY <1>1, <2>1, <2>2
    <3> QED BY <3>1
  <2>3. CASE k - 1 = i
    <3>1. u[k - 1] = h /\ u[k] = s[i + 1] /\ i < Len(s)
      BY <1>1, <2>1, <2>3
    <3> QED BY <3>1
  <2>4. CASE k # i /\ k - 1 # i
    <3>1. u[k - 1] = s[k - 1] /\ u[k] = s[k]
      BY <1>1, <2>1, <2>4
    <3> QED BY <2>1, <3>1
  <2> QED BY <2>2, <2>3, <2>4
<1>7. ASSUME NEW j \in 1..n PROVE Served(u, j)
  <2>1. SUFFICES ASSUME u[j].at # "script"
        PROVE  \E k \in 1..Len(u) :
                 Serves(u, j, k) /\ (u[j].at = "body" => u[k].bodies = 1 /\ ~u[k].bodyThrew)
    BY DEF Served
  <2>2. s[j].at # "script" /\ Served(s, j)
    BY <1>2, <2>1 DEF Stacked
  <2>3. PICK k \in 1..n :
          Serves(s, j, k) /\ (s[j].at = "body" => s[k].bodies = 1 /\ ~s[k].bodyThrew)
    BY <2>2 DEF Served
  <2>4. k \in 1..(j - 1) /\ s[k].at = "script"
        /\ \A l \in (k + 1)..(j - 1) :
             s[l].at \in {"overloads", "body"} /\ (s[l].at = "body" => s[j].at = "wrapper")
    BY <2>3 DEF Serves
  <2>5. \A l \in (k + 1)..(j - 1) : u[l].at = s[l].at
    BY <1>1, <1>2, <2>4
  <2>6. u[k].at = "script" /\ u[j].at = s[j].at
    BY <1>2, <2>4
  <2>7. Serves(u, j, k)
    BY <2>2, <2>4, <2>5, <2>6 DEF Serves
  <2>8. ASSUME s[j].at = "body" PROVE u[k].bodies = 1 /\ ~u[k].bodyThrew
    <3>1. CASE k = i
      <4>1. h.at = "script" /\ u[k] = h
        BY <1>1, <2>6, <3>1
      <4>2. h.bodies = 1 /\ ~h.bodyThrew
        BY <2>3, <2>8, <3>1, <4>1
      <4> QED BY <4>1, <4>2
    <3>2. CASE k # i
      BY <1>1, <2>3, <2>8, <3>2
    <3> QED BY <3>1, <3>2
  <2> QED BY <1>1, <2>6, <2>7, <2>8
<1>8. Stacked(u)
  BY <1>1, <1>3, <1>4, <1>5, <1>6, <1>7 DEF Stacked
<1>9. LastScript(u) = LastScript(s)
  <2> DEFINE c == LastScript(s)
  <2>1. /\ c \in 1..n /\ s[c].at = "script" /\ (s[n].at = "script" => c = n)
        /\ s[n].at # "script" => Serves(s, n, c)
    BY ScriptIs
  <2> HIDE DEF c
  <2>2. \A k \in (c + 1)..n : s[k].at # "script"
    <3>1. CASE s[n].at = "script"
      BY <1>1, <2>1, <3>1
    <3>2. CASE s[n].at # "script"
      <4>1. \A k \in (c + 1)..(n - 1) : s[k].at # "script"
        BY <2>1, <3>2 DEF Serves
      <4> QED BY <1>1, <2>1, <3>2, <4>1
    <3> QED BY <3>1, <3>2
  <2>3. c \in 1..Len(u) /\ u[c].at = "script" /\ \A k \in (c + 1)..Len(u) : u[k].at # "script"
    BY <1>1, <1>2, <2>1, <2>2
  <2>4. LastScript(u) = c
    BY <1>1, <2>3, LastScriptIs
  <2> QED BY <2>4 DEF c
<1> QED BY <1>1, <1>8, <1>9 DEF u

(* What a frame leaves to the one below.                                   *)
LEMMA GivesTo ==
  ASSUME NEW s, Stacked(s), NEW with \in Results \ {"none", "escaped"},
         with = "overload" => s[Len(s)].at = "overloads",
         s[Len(s)].at = "script" => s[Len(s)].member \in Members,
         s[Len(s)].at \in {"script", "overloads"} =>
           Settles(s[LastScript(s)], s[Len(s)].at, with)
  PROVE  StackOK(s, with)
BY DEF StackOK, AtTop

LEMMA LeaveKeeps ==
  ASSUME NEW s, Stacked(s), Len(s) > 1, NEW with \in Results \ {"none", "escaped"},
         with = "overload" => s[Len(s) - 1].at = "overloads",
         s[Len(s) - 1].at \in {"script", "overloads"} =>
           Settles(s[LastScript(s)], s[Len(s) - 1].at, with)
  PROVE  StackOK(Front(s), with)
<1> DEFINE n == Len(s)
<1>1. /\ Stacked(Front(s)) /\ Len(Front(s)) = n - 1 /\ n - 1 \in 1..(n - 1)
      /\ \A k \in 1..(n - 1) : Front(s)[k] = s[k]
      /\ s[n].at # "script" =>
           LastScript(Front(s)) = LastScript(s) /\ LastScript(s) \in 1..(n - 1)
  BY FrontKeeps, StackIs
<1>2. s[n - 1].at = "script" => s[n - 1].member \in Members
  BY <1>1 DEF Stacked
<1>3. Makes(s[n - 1], s[n])
  BY <1>1 DEF Stacked
<1>4. s[n - 1].at \in {"script", "overloads"} => s[n].at # "script"
  BY <1>3 DEF Makes
<1>5. Front(s)[Len(Front(s))] = s[n - 1]
  BY <1>1
<1> HIDE DEF n
<1>6. s[n - 1].at \in {"script", "overloads"} =>
        Settles(Front(s)[LastScript(Front(s))], s[n - 1].at, with)
  BY <1>1, <1>4 DEF n
<1> QED BY <1>1, <1>2, <1>5, <1>6, GivesTo DEF n

-----------------------------------------------------------------------------
(* The actions.                                                            *)

LEMMA NowIs ==
  ASSUME BindInv
  PROVE  /\ Stacked(frames) /\ result \in Results /\ AtTop(frames, result)
         /\ frames \in Seq(BindFrames) /\ Len(frames) \in Nat /\ Len(frames) >= 1
         /\ Top = frames[Len(frames)] /\ Top \in BindFrames /\ Placed(Top)
         /\ Caller = LastScript(frames)
<1>1. Stacked(frames) /\ result \in Results /\ AtTop(frames, result)
  BY DEF BindInv, StackOK
<1>2. Caller = LastScript(frames)
  BY DEF Caller, LastScript
<1>3. Top = frames[Len(frames)]
  BY <1>1, StackIs DEF Top
<1> QED BY <1>1, <1>2, <1>3, StackIs

(* A frame above another: which frames the one below can be.               *)
LEMMA BelowIs ==
  ASSUME NEW s, Stacked(s), s[Len(s)].at # "script"
  PROVE  LET n == Len(s)
             c == LastScript(s)
         IN  /\ Len(s) > 1 /\ n - 1 \in 1..n /\ Makes(s[n - 1], s[n])
             /\ s[n - 1] \in BindFrames /\ Placed(s[n - 1])
             /\ c \in 1..(n - 1) /\ s[c].at = "script" /\ s[c] \in BindFrames
             /\ s[c].member \in Members
             /\ s[n - 1].at = "script" => c = n - 1
<1> DEFINE n == Len(s)
           c == LastScript(s)
<1>1. n \in Nat /\ n >= 1 /\ s \in Seq(BindFrames) /\ s[1].at = "script"
  BY StackIs DEF Stacked
<1>2. Serves(s, n, c) /\ n > 1
  <2>1. Serves(s, n, c)
    BY ScriptIs
  <2>2. n # 1
    BY <1>1
  <2> QED BY <1>1, <2>1, <2>2
<1> HIDE DEF c
<1>3. c \in 1..(n - 1) /\ s[c].at = "script" /\ \A k \in (c + 1)..(n - 1) : s[k].at # "script"
  BY <1>2 DEF Serves
<1>4. s[c].member \in Members
  BY <1>3 DEF Stacked
<1>5. s[n - 1].at = "script" => c = n - 1
  BY <1>1, <1>2, <1>3
<1>6. Makes(s[n - 1], s[n])
  BY <1>1, <1>2 DEF Stacked
<1>7. s[n - 1] \in BindFrames /\ Placed(s[n - 1]) /\ s[c] \in BindFrames
  BY <1>1, <1>2, <1>3 DEF Stacked
<1> QED BY <1>1, <1>2, <1>3, <1>4, <1>5, <1>6, <1>7 DEF c

(* A member and the alternative of one that a call is about.               *)
LEMMA CalledIs ==
  ASSUME NEW s, Stacked(s), s[Len(s)].at \in {"overloads", "call", "body"}
  PROVE  LET n == Len(s)
             m == s[n].member
         IN  /\ s[n - 1].at = "script" => m = s[LastScript(s)].member /\ m \in Members
             /\ s[n - 1].at # "script" => s[n - 1].at = "overloads" /\ m \in Alternatives
<1> DEFINE n == Len(s)
           below == s[n - 1]
<1>1. /\ Makes(below, s[n]) /\ below \in BindFrames /\ Placed(below)
      /\ below.at = "script" => LastScript(s) = n - 1
      /\ s[LastScript(s)].member \in Members
  BY BelowIs
<1> HIDE DEF below
<1>2. \/ below.at = "script" /\ s[n].member = below.member
      \/ below.at = "overloads" /\ below.trying \in 1..Len(below.member.funcs)
           /\ s[n].member = below.member.funcs[below.trying]
  BY <1>1 DEF Makes
<1>3. CASE below.at = "script"
  BY <1>1, <1>2, <1>3 DEF below
<1>4. CASE below.at = "overloads"
  <2>1. below.member \in Callable /\ below.member.role = "overloads"
    BY <1>1, <1>4 DEF Placed
  <2>2. below.member.funcs \in Seq(Alternatives)
    BY <2>1, CallableIs
  <2>3. s[n].member \in Alternatives
    BY <1>2, <1>4, <2>2
  <2> QED BY <1>4, <2>3 DEF below
<1> QED BY <1>2, <1>3, <1>4

LEMMA FrameIs ==
  ASSUME NEW at \in {"script", "overloads", "call", "wrapper"}, NEW m \in Callable \cup {NoMember}
  PROVE  LET g == Frame(at, m)
         IN  /\ g \in BindFrames /\ g.at = at /\ g.member = m /\ g.bodies = 0
             /\ ~g.bodyThrew /\ g.trying = 0
BY DEF Frame, BindFrames

LEMMA ScriptFrameIs == ScriptFrame \in BindFrames /\ Placed(ScriptFrame) /\ ScriptFrame.at = "script"
                         /\ ScriptFrame.bodies = 0 /\ ~ScriptFrame.bodyThrew
BY DEF ScriptFrame, Frame, BindFrames, Placed

(* The frame of the callback of a member, and that of what it adapts.      *)
LEMMA CalleeIs ==
  ASSUME NEW m \in Callable
  PROVE  LET g == Frame(IF m.role = "overloads" THEN "overloads" ELSE "call", m)
         IN  /\ g \in BindFrames /\ Placed(g) /\ g.at \in {"overloads", "call"} /\ g.member = m
             /\ g.at = "overloads" => g.trying < Len(g.member.funcs)
<1> DEFINE at == IF m.role = "overloads" THEN "overloads" ELSE "call"
           g  == Frame(at, m)
<1>1. at \in {"overloads", "call"}
  OBVIOUS
<1>2. m.role = "overloads" => m.funcs \in Seq(Alternatives) /\ Len(m.funcs) >= 1
  BY CallableIs
<1>3. g \in BindFrames /\ g.at = at /\ g.member = m /\ g.trying = 0
  <2> HIDE DEF at
  <2> QED BY <1>1, FrameIs
<1> HIDE DEF g
<1>4. g.at = "overloads" => m.role = "overloads" /\ Len(m.funcs) \in Nat /\ Len(m.funcs) >= 1
  BY <1>2, <1>3
<1>5. g.at = "call" => m.role # "overloads"
  BY <1>3
<1>6. Placed(g)
  BY <1>1, <1>3, <1>4, <1>5 DEF Placed
<1> QED BY <1>1, <1>3, <1>4, <1>6 DEF g

LEMMA ScriptCallsKeeps ==
  ASSUME BindInv, ScriptCalls
  PROVE  StackOK(frames', result') /\ result' # "escaped"
<1> DEFINE n == Len(frames)
<1>1. /\ Stacked(frames) /\ AtTop(frames, result) /\ n \in Nat /\ n >= 1
      /\ frames \in Seq(BindFrames) /\ Top = frames[n] /\ Top \in BindFrames
  BY NowIs
<1>2. result = "none" /\ Top = ScriptFrame
  BY <1>1 DEF ScriptCalls, Running, AtTop
<1>3. PICK m \in Members :
        /\ frames' = Append([frames EXCEPT ![n].member = m],
                            Frame(IF m.role = "overloads" THEN "overloads" ELSE "call", m))
        /\ result' = "none"
  BY DEF ScriptCalls
<1> DEFINE h == [ScriptFrame EXCEPT !.member = m]
           g == Frame(IF m.role = "overloads" THEN "overloads" ELSE "call", m)
           u == [frames EXCEPT ![n] = h]
<1>4. h \in BindFrames /\ h.at = "script" /\ h.member = m /\ h.bodies = 0 /\ ~h.bodyThrew
  BY ScriptFrameIs DEF BindFrames, Callable
<1>5. m \in Callable
  BY DEF Callable
<1>6. /\ g \in BindFrames /\ Placed(g) /\ g.at \in {"overloads", "call"} /\ g.member = m
      /\ g.at = "overloads" => g.trying < Len(g.member.funcs)
  BY <1>5, CalleeIs
<1>7. frames' = Append(u, g)
  BY <1>1, <1>2, <1>3
<1> HIDE DEF h, g
<1>8. Placed(h)
  BY <1>4 DEF Placed
<1>9. n > 1 => Makes(frames[n - 1], h)
  <2>1. frames[n].at = "script"
    BY <1>1, <1>2, ScriptFrameIs
  <2>2. n > 1 => Makes(frames[n - 1], frames[n])
    BY <1>1 DEF Stacked
  <2> QED BY <1>4, <2>1, <2>2 DEF Makes
<1>10. \A j \in 1..n : ~Serves(frames, j, n)
  BY <1>1 DEF Serves
<1>11. /\ Stacked(u) /\ Len(u) = n /\ u[n] = h /\ LastScript(u) = LastScript(frames)
  <2>1. n \in 1..n /\ h.at = frames[n].at
    BY <1>1, <1>2, <1>4, ScriptFrameIs
  <2> QED BY <1>1, <1>4, <1>8, <1>9, <1>10, <2>1, UpdateKeeps
<1> HIDE DEF u, n
<1>12. Makes(h, g)
  BY <1>4, <1>6 DEF Makes
<1>13. LastScript(u) = n
  BY <1>4, <1>11, ScriptIs
<1> DEFINE v == Append(u, g)
<1>14. /\ Stacked(v) /\ Len(v) = n + 1 /\ v[n + 1] = g /\ \A k \in 1..n : v[k] = u[k]
       /\ LastScript(v) = n
  BY <1>4, <1>6, <1>11, <1>12, <1>13, AppendKeeps
<1> HIDE DEF v
<1>15. v[Len(v)] = g /\ v[LastScript(v)] = h
  BY <1>1, <1>11, <1>14 DEF n
<1>16. AtTop(v, "none")
  BY <1>4, <1>6, <1>15 DEF AtTop
<1> QED BY <1>3, <1>7, <1>14, <1>16 DEF StackOK, Results, v

LEMMA ScriptEndsKeeps ==
  ASSUME BindInv, ScriptEnds
  PROVE  StackOK(frames', result') /\ result' # "escaped"
<1> DEFINE n == Len(frames)
<1>1. Stacked(frames) /\ Top = frames[n] /\ n \in Nat
  BY NowIs
<1>2. PICK with \in {"value", "threw"} : frames' = Front(frames) /\ result' = with
  BY DEF ScriptEnds, Leave
<1>3. n > 1 /\ frames[n].at = "script"
  BY <1>1 DEF ScriptEnds, Running
<1>4. frames[n - 1].at \in {"body", "wrapper"}
  BY <1>1, <1>3 DEF Stacked, Makes
<1>5. with \in Results \ {"none", "escaped"} /\ with # "overload"
  BY DEF Results
<1>6. StackOK(Front(frames), with)
  BY <1>1, <1>3, <1>4, <1>5, LeaveKeeps
<1> QED BY <1>2, <1>5, <1>6

LEMMA CallReturnsKeeps ==
  ASSUME BindInv, CallReturns, result # "escaped"
  PROVE  StackOK(frames', result') /\ result' # "escaped"
<1> DEFINE n == Len(frames)
<1>1. Stacked(frames) /\ Top = frames[n] /\ n \in Nat /\ n >= 1 /\ frames \in Seq(BindFrames)
  BY NowIs
<1>2. frames[n].at = "script"
  BY <1>1 DEF CallReturns, Back
<1>3. n > 1 => Makes(frames[n - 1], frames[n])
  BY <1>1 DEF Stacked
<1>4. CASE frames' = [frames EXCEPT ![n] = ScriptFrame] /\ result' = "none"
  <2> DEFINE u == [frames EXCEPT ![n] = ScriptFrame]
  <2>1. n > 1 => Makes(frames[n - 1], ScriptFrame)
    BY <1>2, <1>3, ScriptFrameIs DEF Makes
  <2>2. \A j \in 1..n : ~Serves(frames, j, n)
    BY <1>1 DEF Serves
  <2>3. n \in 1..n
    BY <1>1
  <2>4. Stacked(u) /\ Len(u) = n /\ u[n] = ScriptFrame
    BY <1>1, <1>2, <2>1, <2>2, <2>3, ScriptFrameIs, UpdateKeeps
  <2> HIDE DEF u
  <2>5. AtTop(u, "none")
    BY <2>4, ScriptFrameIs DEF AtTop
  <2> QED BY <1>4, <2>4, <2>5 DEF StackOK, Results, u
<1>5. CASE n > 1 /\ Leave("threw")
  <2>1. frames[n - 1].at \in {"body", "wrapper"}
    BY <1>2, <1>3, <1>5 DEF Makes
  <2>2. "threw" \in Results \ {"none", "escaped"}
    BY DEF Results
  <2>3. StackOK(Front(frames), "threw")
    BY <1>1, <1>5, <2>1, <2>2, LeaveKeeps
  <2> QED BY <1>5, <2>3 DEF Leave
<1> QED BY <1>4, <1>5 DEF CallReturns

(* A call starts the body.                                                 *)
LEMMA EnterBodyKeeps ==
  ASSUME BindInv, Running("call"), NEW args \in BOOLEAN, EnterBody(args)
  PROVE  StackOK(frames', result') /\ result' # "escaped"
<1> DEFINE n == Len(frames)
           c == LastScript(frames)
           q == [frames[c] EXCEPT !.bodies = @ + 1]
           h == [frames[n] EXCEPT !.at = "body", !.args = args]
           f == Front(frames)
           u == [f EXCEPT ![c] = q]
           v == Append(u, h)
<1>1. /\ Stacked(frames) /\ AtTop(frames, result) /\ n \in Nat /\ n >= 1 /\ Caller = c
      /\ frames \in Seq(BindFrames) /\ Top = frames[n] /\ Top \in BindFrames /\ Placed(Top)
  BY NowIs
<1>2. result = "none" /\ frames[n].at = "call"
  BY <1>1 DEF Running
<1>3. /\ n > 1 /\ n - 1 \in 1..n /\ Makes(frames[n - 1], frames[n])
      /\ c \in 1..(n - 1) /\ frames[c].at = "script" /\ frames[c] \in BindFrames
      /\ frames[c].member \in Members
      /\ frames[n - 1].at = "script" => c = n - 1
      /\ frames[n - 1] \in BindFrames /\ Placed(frames[n - 1])
  BY <1>1, <1>2, BelowIs
<1>4. frames[c].bodies = 0 /\ ~frames[c].bodyThrew
  BY <1>1, <1>2 DEF AtTop
<1>5. /\ q \in BindFrames /\ q.at = "script" /\ q.member = frames[c].member /\ q.bodies = 1 /\ ~q.bodyThrew
  BY <1>3, <1>4 DEF BindFrames
<1>6. /\ h \in BindFrames /\ h.at = "body" /\ h.member = frames[n].member
  BY <1>1 DEF BindFrames
<1>7. /\ Stacked(f) /\ f \in Seq(BindFrames) /\ Len(f) = n - 1
      /\ \A k \in 1..(n - 1) : f[k] = frames[k]
      /\ LastScript(f) = c
  BY <1>1, <1>2, <1>3, FrontKeeps
<1>8. frames' = v /\ result' = "none"
  <2>1. /\ frames' = [frames EXCEPT ![c].bodies = @ + 1, ![n] = [frames[n] EXCEPT !.at = "body", !.args = args]]
        /\ result' = "none"
    BY <1>1 DEF EnterBody, Called
  <2>2. frames' = [[frames EXCEPT ![c] = q] EXCEPT ![n] = h]
    BY <1>1, <2>1
  <2> HIDE DEF c, q, h, f
  <2>3. /\ u \in Seq(BindFrames) /\ Len(u) = n - 1 /\ u[c] = q
        /\ \A k \in 1..(n - 1) : k # c => u[k] = frames[k]
    BY <1>1, <1>3, <1>5, <1>7, ExceptIs
  <2> HIDE DEF u
  <2>4. /\ v \in Seq(BindFrames) /\ Len(v) = n /\ v[n] = h /\ \A k \in 1..(n - 1) : v[k] = u[k]
    BY <1>1, <1>6, <2>3, AppendIs
  <2>5. /\ frames' \in Seq(BindFrames) /\ Len(frames') = n /\ frames'[n] = h /\ frames'[c] = q
        /\ \A k \in 1..n : k # c /\ k # n => frames'[k] = frames[k]
    BY <1>1, <1>3, <1>5, <1>6, <2>2
  <2>6. \A k \in 1..n : frames'[k] = v[k]
    BY <1>1, <1>3, <2>3, <2>4, <2>5
  <2>7. frames' = v
    BY <1>1, <2>4, <2>5, <2>6, SameSeq
  <2> QED BY <2>1, <2>7
<1> HIDE DEF n, c, q, h, f
<1>9. Placed(q) /\ Placed(h)
  BY <1>1, <1>2, <1>5, <1>6 DEF Placed
<1>10. c > 1 => Makes(f[c - 1], q)
  <2>1. c > 1 => Makes(f[c - 1], f[c])
    BY <1>3, <1>7 DEF Stacked
  <2>2. f[c] = frames[c]
    BY <1>3, <1>7
  <2> QED BY <1>3, <1>5, <2>1, <2>2 DEF Makes
<1>11. c < n - 1 => Makes(q, f[c + 1])
  <2>1. c < n - 1 => Makes(f[c], f[c + 1])
    BY <1>3, <1>7 DEF Stacked
  <2>2. f[c] = frames[c]
    BY <1>3, <1>7
  <2> QED BY <1>3, <1>5, <2>1, <2>2 DEF Makes
<1>12. q.at = f[c].at /\ c \in 1..Len(f)
  BY <1>3, <1>5, <1>7
<1>13. /\ Stacked(u) /\ Len(u) = n - 1 /\ u[c] = q /\ LastScript(u) = c
       /\ \A k \in 1..(n - 1) : k # c => u[k] = f[k]
  <2>1. q.member \in Members
    BY <1>3, <1>5
  <2> HIDE DEF u
  <2>2. c < Len(f) /\ q.at = "script" => q.member \in Members
    BY <2>1
  <2>3. c < Len(f) => Makes(q, f[c + 1])
    BY <1>7, <1>11
  <2>4. \A j \in 1..Len(f) : f[j].at = "body" /\ Serves(f, j, c) => q.bodies = 1 /\ ~q.bodyThrew
    BY <1>5
  <2>5. /\ Stacked(u) /\ Len(u) = Len(f) /\ u[c] = q /\ LastScript(u) = LastScript(f)
        /\ \A k \in 1..Len(f) : k # c => u[k] = f[k]
    <3>1. /\ Stacked(f) /\ c \in 1..Len(f) /\ q \in BindFrames /\ q.at = f[c].at /\ Placed(q)
      BY <1>5, <1>7, <1>9, <1>12
    <3> QED BY <3>1, <1>10, <2>2, <2>3, <2>4, UpdateKeeps, SMTT(30) DEF u
  <2> QED BY <1>7, <2>5
<1> HIDE DEF u
<1>14. Makes(u[n - 1], h)
  <2>1. CASE n - 1 = c
    <3>1. u[n - 1] = q /\ q.at = "script" /\ q.member = frames[n - 1].member
      BY <1>5, <1>13, <2>1
    <3>2. frames[n - 1].at = "script"
      BY <1>3, <2>1
    <3> QED BY <1>2, <1>3, <1>6, <3>1, <3>2 DEF Makes
  <2>2. CASE n - 1 # c
    <3>1. u[n - 1] = frames[n - 1]
      BY <1>1, <1>3, <1>7, <1>13, <2>2 DEF n
    <3> QED BY <1>2, <1>3, <1>6, <3>1 DEF Makes
  <2> QED BY <2>1, <2>2
<1>15. u[n - 1].at = "script" => u[n - 1].member \in Members
  <2>1. CASE n - 1 = c
    BY <1>3, <1>5, <1>13, <2>1
  <2>2. CASE n - 1 # c
    <3>1. u[n - 1] = frames[n - 1]
      BY <1>1, <1>3, <1>7, <1>13, <2>2 DEF n
    <3> QED BY <1>3, <2>2, <3>1
  <2> QED BY <2>1, <2>2
<1>16. Stacked(v) /\ Len(v) = n /\ v[n] = h
  <2>1. /\ Stacked(v) /\ Len(v) = (n - 1) + 1 /\ v[(n - 1) + 1] = h
    BY <1>5, <1>6, <1>9, <1>13, <1>14, <1>15, AppendKeeps
  <2> QED BY <1>1, <2>1 DEF n
<1> HIDE DEF v
<1>17. AtTop(v, "none")
  BY <1>6, <1>16 DEF AtTop
<1> QED BY <1>8, <1>16, <1>17 DEF StackOK, Results

(* What is known of the call whose callback or body is innermost.          *)
LEMMA CallIs ==
  ASSUME BindInv, Top.at \in {"overloads", "call", "body"}
  PROVE  LET n == Len(frames)
             m == Top.member
             below == frames[n - 1]
             script == frames[LastScript(frames)]
         IN  /\ Stacked(frames) /\ n \in Nat /\ n > 1 /\ m \in Callable
             /\ below.at \in {"script", "overloads"} /\ script \in BindFrames
             /\ below.at = "script" =>
                  m = script.member /\ ~m.throwForOverload
             /\ below.at = "overloads" => m.role \in {"function", "overloads"} /\ ~m.nothrow
             /\ Top.at = "call" /\ result = "none" => script.bodies = 0 /\ ~script.bodyThrew
             /\ Top.at = "body" => script.bodies = 1 /\ ~script.bodyThrew
<1> DEFINE n == Len(frames)
           below == frames[n - 1]
           script == frames[LastScript(frames)]
<1>1. /\ Stacked(frames) /\ AtTop(frames, result) /\ n \in Nat /\ Top = frames[n] /\ Placed(Top)
  BY NowIs
<1>2. frames[n].at \in {"overloads", "call", "body"} /\ frames[n].at # "script"
  BY <1>1
<1>3. /\ n > 1 /\ Makes(below, frames[n]) /\ below \in BindFrames /\ script \in BindFrames
  BY <1>1, <1>2, BelowIs
<1>4. /\ below.at = "script" => Top.member = script.member /\ Top.member \in Members
      /\ below.at # "script" => below.at = "overloads" /\ Top.member \in Alternatives
  BY <1>1, <1>2, CalledIs
<1>5. Top.at = "call" /\ result = "none" => script.bodies = 0 /\ ~script.bodyThrew
  BY <1>1 DEF AtTop
<1>6. Top.at = "body" => script.bodies = 1 /\ ~script.bodyThrew
  BY <1>1, ScriptIs
<1> HIDE DEF below, script
<1>7. below.at = "script" => ~Top.member.throwForOverload
  BY <1>4, MemberIs
<1>8. below.at = "overloads" => Top.member.role \in {"function", "overloads"} /\ ~Top.member.nothrow
  BY <1>4, AlternativeIs
<1>9. Top.member \in Callable
  BY <1>4 DEF Callable
<1> QED BY <1>1, <1>3, <1>4, <1>5, <1>6, <1>7, <1>8, <1>9 DEF below, script

(* It leaves with something for the frame below.                           *)
LEMMA CallLeaves ==
  ASSUME BindInv, Top.at \in {"overloads", "call", "body"},
         NEW with \in Results \ {"none", "escaped"}, Leave(with),
         with = "overload" => frames[Len(frames) - 1].at = "overloads",
         Settles(frames[LastScript(frames)], frames[Len(frames) - 1].at, with)
  PROVE  StackOK(frames', result') /\ result' # "escaped"
<1>1. Stacked(frames) /\ Len(frames) > 1
  BY CallIs
<1>2. StackOK(Front(frames), with)
  BY <1>1, LeaveKeeps
<1> QED BY <1>2 DEF Leave

LEMMA FunctionMismatchKeeps ==
  ASSUME BindInv, FunctionMismatch
  PROVE  StackOK(frames', result') /\ result' # "escaped"
<1> DEFINE below == frames[Len(frames) - 1]
           script == frames[LastScript(frames)]
           m == Top.member
           with == handleParamConvertFailure(m)
<1>1. Top.at = "call" /\ result = "none" /\ Leave(with)
  BY DEF FunctionMismatch, Running
<1>2. /\ below.at \in {"script", "overloads"}
      /\ below.at = "script" => m = script.member /\ ~m.throwForOverload
      /\ below.at = "overloads" => ~m.nothrow
      /\ script.bodies = 0 /\ ~script.bodyThrew
  BY <1>1, CallIs
<1> HIDE DEF below, script, m
<1>3. \/ with = "overload" /\ m.throwForOverload /\ ~m.nothrow
      \/ with = "null" /\ m.nothrow
      \/ with = "mismatch"
  BY DEF handleParamConvertFailure, handleException
<1> HIDE DEF with
<1>4. with \in Results \ {"none", "escaped"}
  BY <1>3 DEF Results
<1>5. with = "overload" => below.at = "overloads"
  BY <1>2, <1>3
<1>6. Settles(script, below.at, with)
  BY <1>2, <1>3 DEF Settles
<1> QED BY <1>1, <1>4, <1>5, <1>6, CallLeaves DEF below, script

LEMMA SetterMismatchKeeps ==
  ASSUME BindInv, SetterMismatch
  PROVE  StackOK(frames', result') /\ result' # "escaped"
<1> DEFINE below == frames[Len(frames) - 1]
           script == frames[LastScript(frames)]
<1>1. Top.at = "call" /\ result = "none" /\ Running("call")
  BY DEF SetterMismatch, Running
<1>2. CASE EnterBody(FALSE)
  BY <1>1, <1>2, EnterBodyKeeps
<1>3. CASE Leave("mismatch")
  <2>1. script.bodies = 0 /\ ~script.bodyThrew
    BY <1>1, CallIs
  <2>2. Settles(script, below.at, "mismatch")
    BY <2>1 DEF Settles
  <2>3. "mismatch" \in Results \ {"none", "escaped"}
    BY DEF Results
  <2> QED BY <1>1, <1>3, <2>2, <2>3, CallLeaves
<1> QED BY <1>2, <1>3 DEF SetterMismatch

LEMMA BodyReturnsKeeps ==
  ASSUME BindInv, BodyReturns
  PROVE  StackOK(frames', result') /\ result' # "escaped"
<1> DEFINE below == frames[Len(frames) - 1]
           script == frames[LastScript(frames)]
<1>1. Top.at = "body"
  BY DEF BodyReturns, Running
<1>2. script.bodies = 1 /\ ~script.bodyThrew
  BY <1>1, CallIs
<1>3. PICK with \in {"null", "value", "noInstance", "threw", "mismatch"} : Leave(with)
  BY DEF BodyReturns, NullInstance, handleException
<1>4. with \in Results \ {"none", "escaped"} /\ with # "overload"
  BY DEF Results
<1>5. Settles(script, below.at, with)
  BY <1>2, <1>4 DEF Settles
<1> QED BY <1>1, <1>3, <1>4, <1>5, CallLeaves

(* An exception leaves a body.                                             *)
LEMMA ExceptionLeaves ==
  ASSUME BindInv, Top.at = "body", frames' = Front(Threw), result' = BodyException(Top.member)
  PROVE  StackOK(frames', result') /\ result' # "escaped"
<1> DEFINE n == Len(frames)
           c == LastScript(frames)
           q == [frames[c] EXCEPT !.bodyThrew = TRUE]
           f == Front(frames)
           u == [f EXCEPT ![c] = q]
           m == Top.member
           below == frames[n - 1]
<1>1. /\ Stacked(frames) /\ n \in Nat /\ n >= 1 /\ Caller = c
      /\ frames \in Seq(BindFrames) /\ Top = frames[n]
  BY NowIs
<1>2. /\ n > 1 /\ n - 1 \in 1..n /\ Makes(below, frames[n])
      /\ c \in 1..(n - 1) /\ frames[c].at = "script" /\ frames[c] \in BindFrames
      /\ frames[c].member \in Members
      /\ below.at = "script" => c = n - 1
  BY <1>1, BelowIs
<1>3. /\ below.at \in {"script", "overloads"}
      /\ below.at = "script" => m = frames[c].member
      /\ below.at = "overloads" => m.role \in {"function", "overloads"} /\ ~m.nothrow
      /\ frames[c].bodies = 1
  BY CallIs
<1>4. Serves(frames, n, c)
  BY <1>1, ScriptIs
<1>5. /\ q \in BindFrames /\ q.at = "script" /\ q.member = frames[c].member /\ q.bodies = 1 /\ q.bodyThrew
  BY <1>2, <1>3 DEF BindFrames
<1>6. /\ Stacked(f) /\ f \in Seq(BindFrames) /\ Len(f) = n - 1
      /\ \A k \in 1..(n - 1) : f[k] = frames[k]
      /\ LastScript(f) = c
  BY <1>1, <1>2, FrontKeeps
<1>7. frames' = u
  <2>1. frames' = Front([frames EXCEPT ![c] = q])
    BY <1>1 DEF Threw
  <2> HIDE DEF c, q, f
  <2>2. /\ u \in Seq(BindFrames) /\ Len(u) = n - 1 /\ u[c] = q
        /\ \A k \in 1..(n - 1) : k # c => u[k] = frames[k]
    BY <1>1, <1>2, <1>5, <1>6, ExceptIs
  <2> HIDE DEF u
  <2> DEFINE w == [frames EXCEPT ![c] = q]
  <2>3. /\ w \in Seq(BindFrames) /\ Len(w) = n /\ w[c] = q
        /\ \A k \in 1..n : k # c => w[k] = frames[k]
    BY <1>1, <1>2, <1>5, ExceptIs
  <2> HIDE DEF w
  <2>4. /\ Front(w) \in Seq(BindFrames) /\ Len(Front(w)) = n - 1
        /\ \A k \in 1..(n - 1) : Front(w)[k] = w[k]
    BY <1>2, <2>3, FrontIs
  <2>5. \A k \in 1..(n - 1) : Front(w)[k] = u[k]
    BY <1>1, <1>2, <2>2, <2>3, <2>4
  <2>6. Front(w) = u
    BY <2>2, <2>4, <2>5, SameSeq
  <2> QED BY <2>1, <2>6 DEF w
<1> HIDE DEF n, c, q, f, m, below
<1>8. Placed(q)
  BY <1>5 DEF Placed
<1>9. c > 1 => Makes(f[c - 1], q)
  <2>1. c > 1 => Makes(f[c - 1], f[c])
    BY <1>2, <1>6 DEF Stacked
  <2>2. f[c] = frames[c]
    BY <1>2, <1>6
  <2> QED BY <1>2, <1>5, <2>1, <2>2 DEF Makes
<1>10. c < Len(f) => Makes(q, f[c + 1])
  <2>1. c < Len(f) => Makes(f[c], f[c + 1])
    BY <1>1, <1>2, <1>6 DEF Stacked
  <2>2. f[c] = frames[c]
    BY <1>2, <1>6
  <2> QED BY <1>2, <1>5, <2>1, <2>2 DEF Makes
<1>11. q.at = f[c].at /\ c \in 1..Len(f)
  BY <1>2, <1>5, <1>6
<1>12. ASSUME NEW j \in 1..Len(f), f[j].at = "body", Serves(f, j, c) PROVE FALSE
  <2>1. j \in 1..(n - 1) /\ j > c /\ frames[j].at = "body"
    BY <1>1, <1>2, <1>6, <1>12 DEF Serves, n
  <2>2. frames[j].at = "body" => frames[n].at = "wrapper"
    BY <1>1, <1>2, <1>4, <2>1 DEF Serves, n
  <2> QED BY <1>1, <2>1, <2>2
<1>13. /\ Stacked(u) /\ Len(u) = n - 1 /\ u[c] = q /\ LastScript(u) = c
       /\ \A k \in 1..(n - 1) : k # c => u[k] = f[k]
  <2>1. q.member \in Members
    BY <1>2, <1>5
  <2> HIDE DEF u
  <2>2. c < Len(f) /\ q.at = "script" => q.member \in Members
    BY <2>1
  <2>4. \A j \in 1..Len(f) : f[j].at = "body" /\ Serves(f, j, c) => q.bodies = 1 /\ ~q.bodyThrew
    BY <1>12
  <2>5. /\ Stacked(u) /\ Len(u) = Len(f) /\ u[c] = q /\ LastScript(u) = LastScript(f)
        /\ \A k \in 1..Len(f) : k # c => u[k] = f[k]
    <3>1. /\ Stacked(f) /\ c \in 1..Len(f) /\ q \in BindFrames /\ q.at = f[c].at /\ Placed(q)
      BY <1>5, <1>6, <1>8, <1>11
    <3> QED BY <3>1, <1>9, <1>10, <2>2, <2>4, UpdateKeeps, SMTT(30) DEF u
  <2> QED BY <1>6, <2>5
<1> HIDE DEF u
<1> DEFINE with == BodyException(m)
<1>14. \/ with = "threw"
       \/ with = "null" /\ SilentGetter(m)
  BY DEF BodyException, handleException, SilentGetter
<1> HIDE DEF with
<1>15. with \in Results \ {"none", "escaped", "overload"}
  BY <1>14 DEF Results
<1>16. u[n - 1].at = below.at /\ n - 1 \in 1..(n - 1) /\ (u[n - 1].at = "script" => u[n - 1] = q)
  BY <1>2, <1>5, <1>6, <1>13 DEF below, n
<1>17. Settles(q, u[n - 1].at, with)
  <2>1. CASE below.at = "script"
    <3>1. m = q.member
      BY <1>3, <1>5, <2>1
    <3> QED BY <1>5, <1>14, <1>15, <1>16, <2>1, <3>1 DEF Settles
  <2>2. CASE below.at = "overloads"
    <3>1. with = "threw"
      BY <1>3, <1>14, <2>2 DEF SilentGetter
    <3> QED BY <1>5, <3>1 DEF Settles
  <2> QED BY <1>3, <2>1, <2>2
<1>18. u[n - 1].at = "script" => u[n - 1].member \in Members
  BY <1>2, <1>5, <1>16
<1>19. StackOK(u, with)
  BY <1>13, <1>15, <1>17, <1>18, GivesTo
<1> QED BY <1>7, <1>15, <1>19 DEF with, m

LEMMA BodyThrowsKeeps ==
  ASSUME BindInv, BodyThrows
  PROVE  StackOK(frames', result') /\ result' # "escaped"
BY ExceptionLeaves DEF BodyThrows, Running

LEMMA BodyResumesKeeps ==
  ASSUME BindInv, BodyResumes
  PROVE  StackOK(frames', result') /\ result' # "escaped"
<1>1. Top.at = "body"
  BY DEF BodyResumes, Back
<1>2. CASE frames' = frames /\ result' = "none"
  <2>1. Stacked(frames) /\ frames[Len(frames)].at = "body"
    BY <1>1, NowIs
  <2>2. AtTop(frames, "none")
    BY <2>1 DEF AtTop
  <2> QED BY <1>2, <2>1, <2>2 DEF StackOK, Results
<1>3. CASE frames' = Front(Threw) /\ result' = BodyException(Top.member)
  BY <1>1, <1>3, ExceptionLeaves
<1> QED BY <1>2, <1>3 DEF BodyResumes

LEMMA BodyCallsScriptKeeps ==
  ASSUME BindInv, BodyCallsScript
  PROVE  StackOK(frames', result') /\ result' # "escaped"
<1> DEFINE n == Len(frames)
           u == Append(frames, ScriptFrame)
<1>1. Stacked(frames) /\ n \in Nat /\ frames[n].at = "body"
  BY NowIs DEF BodyCallsScript, Running
<1>2. Makes(frames[n], ScriptFrame)
  BY <1>1, ScriptFrameIs DEF Makes
<1>3. Stacked(u) /\ Len(u) = n + 1 /\ u[n + 1] = ScriptFrame
  BY <1>1, <1>2, ScriptFrameIs, AppendKeeps
<1>4. frames' = u /\ result' = "none"
  BY DEF BodyCallsScript, Push
<1> HIDE DEF u
<1>5. AtTop(u, "none")
  BY <1>3, ScriptFrameIs DEF AtTop
<1> QED BY <1>3, <1>4, <1>5 DEF StackOK, Results

LEMMA BodyCallsWrapperKeeps ==
  ASSUME BindInv, BodyCallsWrapper
  PROVE  StackOK(frames', result') /\ result' # "escaped"
<1> DEFINE n == Len(frames)
           w == Frame("wrapper", NoMember)
           u == Append(frames, w)
           v == Append(u, ScriptFrame)
<1>1. Stacked(frames) /\ n \in Nat /\ frames[n].at = "body" /\ frames \in Seq(BindFrames)
  BY NowIs DEF BodyCallsWrapper, Running
<1>2. w \in BindFrames /\ w.at = "wrapper"
  BY FrameIs
<1>3. frames' = v /\ result' = "none"
  <2>1. frames' = frames \o <<w, ScriptFrame>> /\ result' = "none"
    BY DEF BodyCallsWrapper
  <2> HIDE DEF w
  <2>2. frames \o <<w, ScriptFrame>> = Append(Append(frames, w), ScriptFrame)
    BY <1>1, <1>2, ScriptFrameIs
  <2> QED BY <2>1, <2>2
<1> HIDE DEF w
<1>4. Placed(w) /\ Makes(frames[n], w)
  BY <1>1, <1>2 DEF Placed, Makes
<1>5. Stacked(u) /\ Len(u) = n + 1 /\ u[n + 1] = w
  BY <1>1, <1>2, <1>4, AppendKeeps
<1> HIDE DEF u
<1>6. Makes(w, ScriptFrame)
  BY <1>2, ScriptFrameIs DEF Makes
<1>7. Stacked(v) /\ Len(v) = n + 2 /\ v[n + 2] = ScriptFrame
  <2>1. u[Len(u)] = w /\ u[Len(u)].at # "script"
    BY <1>2, <1>5
  <2>2. Stacked(v) /\ Len(v) = Len(u) + 1 /\ v[Len(u) + 1] = ScriptFrame
    BY <1>5, <1>6, <2>1, ScriptFrameIs, AppendKeeps
  <2> QED BY <1>1, <1>5, <2>2
<1> HIDE DEF v
<1>8. AtTop(v, "none")
  BY <1>7, ScriptFrameIs DEF AtTop
<1> QED BY <1>3, <1>7, <1>8 DEF StackOK, Results

LEMMA WrapperReturnsKeeps ==
  ASSUME BindInv, WrapperReturns, result # "escaped"
  PROVE  StackOK(frames', result') /\ result' # "escaped"
<1> DEFINE n == Len(frames)
<1>1. /\ Stacked(frames) /\ result \in Results /\ AtTop(frames, result) /\ n \in Nat
      /\ frames[n].at = "wrapper" /\ result # "none"
  BY NowIs DEF WrapperReturns, Back
<1>2. n > 1 /\ Makes(frames[n - 1], frames[n])
  BY <1>1, BelowIs
<1>3. frames[n - 1].at = "body"
  BY <1>1, <1>2 DEF Makes
<1>4. result # "overload"
  BY <1>1 DEF AtTop
<1>5. PICK with \in {result, "mismatch"} : frames' = Front(frames) /\ result' = with
  BY DEF WrapperReturns, Leave
<1>6. with \in Results \ {"none", "escaped"} /\ with # "overload"
  BY <1>1, <1>4 DEF Results
<1>7. StackOK(Front(frames), with)
  BY <1>1, <1>2, <1>3, <1>6, LeaveKeeps
<1> QED BY <1>5, <1>6, <1>7

LEMMA ArgumentsFitKeeps ==
  ASSUME BindInv, ArgumentsFit
  PROVE  StackOK(frames', result') /\ result' # "escaped"
BY EnterBodyKeeps DEF ArgumentsFit

LEMMA TryNextKeeps ==
  ASSUME BindInv, TryNext
  PROVE  StackOK(frames', result') /\ result' # "escaped"
<1> DEFINE n == Len(frames)
           c == LastScript(frames)
           top == frames[n]
           i == top.trying + 1
           m == top.member.funcs[i]
           h == [top EXCEPT !.trying = i]
           g == Frame(IF m.role = "overloads" THEN "overloads" ELSE "call", m)
           u == [frames EXCEPT ![n] = h]
           v == Append(u, g)
<1>1. /\ Stacked(frames) /\ AtTop(frames, result) /\ n \in Nat /\ n >= 1
      /\ frames \in Seq(BindFrames) /\ Top = top /\ top \in BindFrames /\ Placed(top)
  BY NowIs
<1>2. result = "none" /\ top.at = "overloads"
  BY <1>1 DEF TryNext, Running
<1>3. /\ frames[c].bodies = 0 /\ ~frames[c].bodyThrew /\ top.trying < Len(top.member.funcs)
  BY <1>1, <1>2 DEF AtTop
<1>4. /\ n > 1 /\ Makes(frames[n - 1], top) /\ c \in 1..(n - 1) /\ frames[c].at = "script"
  BY <1>1, <1>2, BelowIs
<1>5. top.member \in Callable /\ top.member.role = "overloads"
  BY <1>1, <1>2 DEF Placed
<1>6. top.member.funcs \in Seq(Alternatives)
  BY <1>5, CallableIs
<1>7. top.trying \in Nat /\ i \in 1..Len(top.member.funcs)
  BY <1>1, <1>3, <1>6 DEF BindFrames
<1>8. m \in Alternatives /\ m \in Callable
  BY <1>6, <1>7 DEF Callable
<1>9. /\ g \in BindFrames /\ Placed(g) /\ g.at \in {"overloads", "call"} /\ g.member = m
      /\ g.at = "overloads" => g.trying < Len(g.member.funcs)
  BY <1>8, CalleeIs
<1>10. /\ h \in BindFrames /\ h.at = "overloads" /\ h.member = top.member /\ h.trying = i
  <2>1. i \in Nat
    BY <1>7
  <2> HIDE DEF top, i
  <2> QED BY <1>1, <1>2, <2>1 DEF BindFrames
<1>11. frames' = v /\ result' = "none"
  <2>1. Top.member.funcs[Top.trying + 1] = m /\ Top.trying + 1 = i
    BY <1>1
  <2>2. /\ frames' = Append([frames EXCEPT ![n].trying = i], g) /\ result' = "none"
    BY <2>1 DEF TryNext
  <2>3. [frames EXCEPT ![n].trying = i] = u
    BY <1>1
  <2> QED BY <2>2, <2>3
<1> HIDE DEF n, c, top, i, m, h, g
<1>12. Placed(h)
  BY <1>5, <1>7, <1>10 DEF Placed
<1>13. Makes(frames[n - 1], h)
  BY <1>2, <1>4, <1>10 DEF Makes
<1>14. /\ Stacked(u) /\ Len(u) = n /\ u[n] = h /\ LastScript(u) = c
       /\ \A k \in 1..n : k # n => u[k] = frames[k]
  <2> HIDE DEF u
  <2>1. n \in 1..Len(frames) /\ h.at = frames[n].at /\ h.at # "script" /\ ~(n < Len(frames))
    BY <1>1, <1>2, <1>10 DEF n, top
  <2>2. /\ Stacked(u) /\ Len(u) = Len(frames) /\ u[n] = h /\ LastScript(u) = LastScript(frames)
        /\ \A k \in 1..Len(frames) : k # n => u[k] = frames[k]
    BY <1>1, <1>10, <1>12, <1>13, <2>1, UpdateKeeps DEF u
  <2> QED BY <2>2 DEF n, c
<1> HIDE DEF u
<1>15. Makes(h, g)
  BY <1>7, <1>9, <1>10 DEF Makes, m
<1>16. /\ Stacked(v) /\ Len(v) = n + 1 /\ v[n + 1] = g /\ \A k \in 1..n : v[k] = u[k]
       /\ LastScript(v) = c
  BY <1>9, <1>10, <1>14, <1>15, AppendKeeps
<1> HIDE DEF v
<1>17. v[c] = frames[c] /\ v[Len(v)] = g
  BY <1>1, <1>4, <1>14, <1>16
<1>18. AtTop(v, "none")
  BY <1>3, <1>9, <1>16, <1>17 DEF AtTop
<1> QED BY <1>11, <1>16, <1>18 DEF StackOK, Results

LEMMA AlternativeEndsKeeps ==
  ASSUME BindInv, AlternativeEnds, result # "escaped"
  PROVE  StackOK(frames', result') /\ result' # "escaped"
<1> DEFINE n == Len(frames)
           script == frames[LastScript(frames)]
           below == frames[n - 1]
           with == IF result = "overload" THEN "mismatch" ELSE result
<1>1. /\ Stacked(frames) /\ result \in Results /\ AtTop(frames, result)
      /\ Top = frames[n] /\ Top \in BindFrames /\ Placed(Top) /\ Top.at = "overloads" /\ result # "none"
  BY NowIs DEF AlternativeEnds, Back
<1>2. Settles(script, "overloads", result)
  BY <1>1 DEF AtTop
<1>3. CASE result = "overload" /\ Top.trying # Len(Top.member.funcs) /\ frames' = frames /\ result' = "none"
  <2>1. script.bodies = 0 /\ ~script.bodyThrew
    <3> HIDE DEF script
    <3> QED BY <1>2, <1>3 DEF Settles
  <2>2. Top.member \in Callable /\ Top.member.role = "overloads" /\ Top.trying \in 0..Len(Top.member.funcs)
    BY <1>1 DEF Placed
  <2>3. Top.member.funcs \in Seq(Alternatives)
    BY <2>2, CallableIs
  <2>4. Top.trying < Len(Top.member.funcs)
    BY <1>3, <2>2, <2>3
  <2>5. AtTop(frames, "none")
    BY <1>1, <2>1, <2>4 DEF AtTop
  <2> QED BY <1>1, <1>3, <2>5 DEF StackOK, Results
<1>4. CASE Leave(with)
  <2>1. with \in Results \ {"none", "escaped", "overload"}
    BY <1>1 DEF Results
  <2>2. Settles(script, below.at, with)
    <3> HIDE DEF script, below
    <3>1. CASE result = "overload"
      BY <1>2, <3>1 DEF Settles
    <3>2. CASE result # "overload"
      BY <1>2, <3>2 DEF Settles
    <3> QED BY <3>1, <3>2
  <2> HIDE DEF with
  <2> QED BY <1>1, <1>4, <2>1, <2>2, CallLeaves
<1> QED BY <1>3, <1>4 DEF AlternativeEnds

(* What no try makes one of the script's.                                  *)
LEMMA UnguardedIs ==
  ASSUME backend \in BackendNames, NEW m \in Members, ~Guarded(m)
  PROVE  KnownToEscape(m)
<1>1. m.role \in Roles
  BY MemberIs
<1>2. CASE backend = "V8"
  BY <1>1, <1>2 DEF Guarded, KnownToEscape, V8StaticGuarded, V8InstanceGuarded
<1>3. CASE backend = "Python"
  BY <1>1, <1>3 DEF Guarded, KnownToEscape, PyStaticGuarded, PyInstanceGuarded, Roles
<1>4. CASE backend \in {"QuickJs", "WebAssembly"}
  BY <1>1, <1>4 DEF Guarded, QjsGuarded, WasmGuarded
<1>5. CASE backend \in {"JavaScriptCore", "Lua"}
  BY <1>1, <1>5 DEF Guarded, JscStaticGuarded, JscInstanceGuarded, LuaStaticGuarded, LuaInstanceGuarded
<1> QED BY <1>2, <1>3, <1>4, <1>5 DEF BackendNames

LEMMA EscapesKeeps ==
  ASSUME BindInv, Escapes, result # "escaped"
  PROVE  StackOK(frames', result') /\ KnownToEscape(Top.member) /\ frames' = frames
<1>1. /\ Stacked(frames) /\ AtTop(frames, result) /\ Top = frames[Len(frames)] /\ Top.at = "script"
      /\ result # "none" /\ backend \in BackendNames
  BY NowIs DEF Escapes, Back, BindInv
<1>2. Top.member \in Members /\ result # "overload"
  BY <1>1 DEF AtTop
<1>3. ~Guarded(Top.member)
  BY <1>2 DEF Escapes, Catches
<1>4. KnownToEscape(Top.member)
  BY <1>1, <1>2, <1>3, UnguardedIs
<1>5. frames' = frames /\ result' = "escaped"
  BY DEF Escapes
<1>6. AtTop(frames, "escaped")
  BY <1>1, <1>2 DEF AtTop
<1> QED BY <1>1, <1>4, <1>5, <1>6 DEF StackOK, Results

LEMMA BindBegins ==
  ASSUME BindInit
  PROVE  BindInv
<1>1. backend \in BackendNames /\ frames = <<ScriptFrame>> /\ result = "none"
  BY DEF BindInit
<1> DEFINE s == <<ScriptFrame>>
<1>2. s \in Seq(BindFrames) /\ Len(s) = 1 /\ s[1] = ScriptFrame
  BY ScriptFrameIs
<1> HIDE DEF s
<1>3. Stacked(s)
  BY <1>2, ScriptFrameIs DEF Stacked, Served
<1>4. AtTop(s, "none")
  BY <1>2, ScriptFrameIs DEF AtTop
<1>5. StackOK(s, "none")
  BY <1>3, <1>4 DEF StackOK, Results
<1> QED BY <1>1, <1>5 DEF BindInv, s

LEMMA BindStays ==
  ASSUME BindInv, [BindNext]_bindVars
  PROVE  BindInv'
<1>1. CASE BindNext
  <2>1. BindStep /\ result # "escaped" /\ backend' = backend
    BY <1>1 DEF BindNext
  <2>2. CASE Escapes
    <3>1. StackOK(frames', result') /\ KnownToEscape(Top.member) /\ frames' = frames
      BY <2>1, <2>2, EscapesKeeps
    <3>2. Top' = Top
      BY <3>1 DEF Top
    <3> QED BY <2>1, <3>1, <3>2 DEF BindInv, KnownToEscape
  <2>3. CASE ~Escapes
    <3>1. \/ ScriptCalls \/ ScriptEnds \/ CallReturns
          \/ ArgumentsFit \/ FunctionMismatch \/ SetterMismatch
          \/ BodyReturns \/ BodyThrows \/ BodyResumes
          \/ BodyCallsScript \/ BodyCallsWrapper \/ WrapperReturns
          \/ TryNext \/ AlternativeEnds
      BY <2>1, <2>3 DEF BindStep
    <3>2. StackOK(frames', result') /\ result' # "escaped"
      BY <2>1, <3>1, ScriptCallsKeeps, ScriptEndsKeeps, CallReturnsKeeps, ArgumentsFitKeeps,
         FunctionMismatchKeeps, SetterMismatchKeeps, BodyReturnsKeeps, BodyThrowsKeeps,
         BodyResumesKeeps, BodyCallsScriptKeeps, BodyCallsWrapperKeeps, WrapperReturnsKeeps,
         TryNextKeeps, AlternativeEndsKeeps
    <3>3. backend \in BackendNames
      BY DEF BindInv
    <3> QED BY <2>1, <3>2, <3>3 DEF BindInv
  <2> QED BY <2>2, <2>3
<1>2. CASE UNCHANGED bindVars
  BY <1>2 DEF bindVars, BindInv, Top, KnownToEscape
<1> QED BY <1>1, <1>2

LEMMA BindShows ==
  ASSUME BindInv
  PROVE  CallsAreAnswered
<1> DEFINE n == Len(frames)
           c == LastScript(frames)
<1>1. /\ Stacked(frames) /\ AtTop(frames, result) /\ Top = frames[n]
  BY NowIs
<1>2. ASSUME Answered, result # "escaped"
      PROVE  Settles(Top, "script", result)
  <2>1. Top.at = "script" /\ result # "none"
    BY <1>2 DEF Answered, Back
  <2>2. c = n
    BY <1>1, <2>1, ScriptIs
  <2> QED BY <1>1, <1>2, <2>1, <2>2 DEF AtTop
<1>3. OneBodyAnswers
  BY <1>2 DEF OneBodyAnswers, Settles
<1>4. BodyExceptionsArrive
  BY <1>2 DEF BodyExceptionsArrive, Settles, SilentGetter
<1>5. EscapesAreKnown
  BY <1>1 DEF EscapesAreKnown, BindInv, KnownToEscape, AtTop
<1> QED BY <1>3, <1>4, <1>5 DEF CallsAreAnswered

(* A call that a script makes of a bound member runs one body or none, no  *)
(* alternative of an adapted function is tried after a body has run, what a*)
(* body throws reaches the script that called it but from an instance      *)
(* getter bound with nothrow, and nothing leaves for the engine's frames   *)
(* but from V8's getters and Python's constructors: with any nesting of    *)
(* scripts, bodies and wrappers, on every backend.                         *)
THEOREM CallsAlwaysAnswered == BindSpec => []CallsAreAnswered
<1>1. BindInit => BindInv
  BY BindBegins
<1>2. BindInv /\ [BindNext]_bindVars => BindInv'
  BY BindStays
<1>3. BindInv => CallsAreAnswered
  BY BindShows
<1> QED BY <1>1, <1>2, <1>3, PTL DEF BindSpec

-----------------------------------------------------------------------------
(***************************************************************************)
(* Exceptions.                                                             *)
(***************************************************************************)

Sources == Texts \cup {Lost, NoText}
Origins == [text : Sources, id : 0..MaxValues, odd : BOOLEAN, hops : Nat]
Excs    == [value : ExcValues, message : Messages, hasMessage : BOOLEAN, origin : Origins]

(* What was thrown first has a message that every crossing keeps.          *)
Tells(origin) == origin.odd => backend = "WebAssembly"

(* What can be in front of the text of a value: V8 describes what is read, *)
(* and changes no value.                                                   *)
ValueAdds(origin) == IF backend = "V8" THEN {0} ELSE Added(origin)

(* A value that C++ holds, one that scripts throw.                         *)
HeldKinds   == IF backend = "Lua" THEN {"error", "primitive"} ELSE {"error"}
ThrownKinds == CASE backend = "WebAssembly" -> {"error", "primitive"}
                 [] backend = "Lua"         -> {"primitive"}
                 [] OTHER                   -> {"error"}

IsOf(value, origin, kinds) ==
  /\ value.kind # "none"
  /\ Tells(origin) => /\ value.kind \in kinds
                      /\ value.text.of = origin.text /\ value.text.added \in ValueAdds(origin)
  /\ backend \in JsBackends /\ ~origin.odd => value.id = origin.id

IsThrown(value, origin) ==
  /\ IsOf(value, origin, ThrownKinds)
  /\ value.kind = "primitive" /\ backend # "Lua" => origin.odd

Faithful(exc) ==
  /\ exc.hasMessage /\ Tells(exc.origin) =>
       exc.message.of = exc.origin.text /\ exc.message.added \in Added(exc.origin)
  /\ exc.value # NoValue => IsOf(exc.value, exc.origin, HeldKinds)
  /\ exc.value = NoValue => /\ exc.hasMessage /\ backend # "Python"
                            /\ ~exc.origin.odd => exc.origin.id = 0
                            /\ Tells(exc.origin) => exc.message.added \in ValueAdds(exc.origin)

ExcTyped ==
  /\ backend \in BackendNames /\ values \in 0..MaxValues
  /\ excs \in [Slots -> Excs] /\ thrown \in [value : ExcValues, origin : Origins]

ExcInv ==
  /\ ExcTyped
  /\ \A x \in Slots : excs[x] # NoExc => Faithful(excs[x])
  /\ thrown # NotThrown => IsThrown(thrown.value, thrown.origin)

-----------------------------------------------------------------------------

LEMMA TextsAre ==
  ASSUME NEW text \in Sources
  PROVE  Bare(text) \in Messages /\ Bare(text).of = text /\ Bare(text).added = 0
BY DEF Bare, Messages, Sources

LEMMA PrefixedIs ==
  ASSUME NEW text \in Messages
  PROVE  /\ Prefixed(text) \in Messages /\ Prefixed(text).of = text.of
         /\ Prefixed(text).added = text.added + 1
BY DEF Prefixed, Messages

LEMMA ConstantTexts ==
  /\ NoMessage \in Messages /\ Unknown \in Messages /\ Unknown # NoMessage
  /\ \A text \in Texts : text \in Sources /\ Bare(text) \in Messages /\ Bare(text) # NoMessage
<1>1. NoText \in Sources /\ Lost \in Sources /\ Lost # NoText /\ NoText \notin Texts
  BY ExceptionAssumption DEF Sources
<1>2. \A text \in Texts : text \in Sources
  BY DEF Sources
<1> QED BY <1>1, <1>2, TextsAre DEF NoMessage, Unknown

LEMMA NothingIsTyped ==
  /\ NoValue \in ExcValues /\ NoValue.kind = "none" /\ NoExc \in Excs
  /\ NotThrown \in [value : ExcValues, origin : Origins]
<1>1. NoText \in Sources /\ 0 \in 0..MaxValues
  BY ExceptionAssumption DEF Sources
<1>2. Origin(NoText, 0, FALSE) \in Origins
  BY <1>1 DEF Origin, Origins
<1>3. NoValue \in ExcValues /\ NoValue.kind = "none"
  BY <1>1, ConstantTexts DEF NoValue, Value, ExcValues
<1>4. NoExc \in Excs
  BY <1>2, <1>3, ConstantTexts DEF NoExc, Exc, Excs
<1>5. NotThrown \in [value : ExcValues, origin : Origins]
  BY <1>2, <1>3 DEF NotThrown
<1> QED BY <1>3, <1>4, <1>5

LEMMA ValueIsTyped ==
  ASSUME NEW kind \in {"none", "error", "primitive", "table", "other"}, NEW text \in Messages,
         NEW id \in 0..MaxValues
  PROVE  /\ Value(kind, text, id) \in ExcValues /\ Value(kind, text, id).kind = kind
         /\ Value(kind, text, id).text = text /\ Value(kind, text, id).id = id
BY DEF Value, ExcValues

LEMMA UnreadIs ==
  ASSUME NEW value \in ExcValues, NEW origin \in Origins
  PROVE  /\ Exc(value, NoMessage, origin) \in Excs /\ Exc(value, NoMessage, origin).value = value
         /\ Exc(value, NoMessage, origin).hasMessage = FALSE
         /\ Exc(value, NoMessage, origin).origin = origin
BY ConstantTexts DEF Exc, Excs

LEMMA OriginIsTyped ==
  ASSUME NEW text \in Sources, NEW id \in 0..MaxValues, NEW odd \in BOOLEAN
  PROVE  /\ Origin(text, id, odd) \in Origins /\ Origin(text, id, odd).text = text
         /\ Origin(text, id, odd).id = id /\ Origin(text, id, odd).odd = odd
         /\ Origin(text, id, odd).hops = 0
BY DEF Origin, Origins

LEMMA CrossedIs ==
  ASSUME NEW origin \in Origins
  PROVE  /\ Crossed(origin) \in Origins /\ Crossed(origin).text = origin.text
         /\ Crossed(origin).id = origin.id /\ Crossed(origin).odd = origin.odd
         /\ Crossed(origin).hops = origin.hops + 1
BY DEF Crossed, Origins

(* Nothing is in front of a text that has not crossed; and what is in front*)
(* of a value may be in front of its message.                              *)
LEMMA AddsAre ==
  ASSUME NEW origin \in Origins
  PROVE  /\ origin.hops = 0 => 0 \in ValueAdds(origin) /\ 0 \in Added(origin)
         /\ ValueAdds(origin) \subseteq Added(origin)
<1>1. origin.hops \in Nat
  BY DEF Origins
<1>2. CASE backend = "V8"
  BY <1>2 DEF ValueAdds, Added
<1>3. CASE backend # "V8"
  BY <1>1, <1>3 DEF ValueAdds, Added
<1> QED BY <1>2, <1>3

(* What may be in front depends on the hops alone: exception() can give the*)
(* origin another value.                                                   *)
LEMMA AddsOfHops ==
  ASSUME NEW origin, NEW other, origin.hops = other.hops
  PROVE  ValueAdds(origin) = ValueAdds(other) /\ Added(origin) = Added(other)
BY DEF ValueAdds, Added

LEMMA HeldIs ==
  ASSUME ExcInv, NEW x \in Held
  PROVE  x \in Slots /\ excs[x] \in Excs /\ Faithful(excs[x])
BY DEF ExcInv, ExcTyped, Held

(* One Exception is written.                                               *)
LEMMA PutKeeps ==
  ASSUME ExcInv, NEW x \in Slots, NEW e \in Excs, e # NoExc => Faithful(e),
         excs' = [excs EXCEPT ![x] = e], UNCHANGED backend
  PROVE  /\ excs' \in [Slots -> Excs]
         /\ \A y \in Slots : (excs[y] # NoExc => Faithful(excs[y]))'
<1>1. excs \in [Slots -> Excs]
  BY DEF ExcInv, ExcTyped
<1>2. excs' \in [Slots -> Excs] /\ excs'[x] = e /\ \A y \in Slots \ {x} : excs'[y] = excs[y]
  BY <1>1
<1>3. ASSUME NEW y \in Slots, (excs[y] # NoExc)'
      PROVE  Faithful(excs[y])'
  <2> DEFINE f == excs'[y]
  <2>1. f # NoExc
    BY <1>3 DEF NoExc, NoValue, Exc, Origin, Value, NoMessage, Bare
  <2>2. Faithful(f)
    BY <1>2, <2>1 DEF ExcInv
  <2> QED BY <2>2 DEF Faithful, IsOf, Tells, HeldKinds, NoValue, Value, NoMessage, Bare,
          ValueAdds, Added
<1> QED BY <1>2, <1>3

LEMMA OnePut ==
  ASSUME ExcInv, NEW x \in Slots, NEW e \in Excs, e # NoExc => Faithful(e),
         excs' = [excs EXCEPT ![x] = e], UNCHANGED <<backend, thrown>>, values' \in 0..MaxValues
  PROVE  ExcInv'
<1>1. ExcTyped'
  BY PutKeeps DEF ExcInv, ExcTyped
<1>2. \A y \in Slots : (excs[y] # NoExc => Faithful(excs[y]))'
  BY PutKeeps DEF NoExc, NoValue, Exc, Origin, Value, NoMessage, Bare
<1>3. (thrown # NotThrown => IsThrown(thrown.value, thrown.origin))'
  BY DEF ExcInv, NotThrown, NoValue, Value, Origin, NoMessage, Bare, IsThrown, IsOf, ThrownKinds,
     Tells, ValueAdds, Added
<1> QED BY <1>1, <1>2, <1>3 DEF ExcInv

-----------------------------------------------------------------------------
(* The members of an Exception.                                            *)

LEMMA FilledMessage ==
  ASSUME ExcInv, NEW x \in Held, NEW e, e = fillMessage(excs[x])
  PROVE  e \in Excs /\ Faithful(e) /\ e.hasMessage /\ e.origin = excs[x].origin /\ e.value = excs[x].value
<1> DEFINE f == excs[x]
<1>1. f \in Excs /\ Faithful(f) /\ backend \in BackendNames
  <2>1. backend \in BackendNames
    BY DEF ExcInv, ExcTyped
  <2> QED BY <2>1, HeldIs
<1> HIDE DEF f
<1>2. CASE f.hasMessage
  BY <1>1, <1>2 DEF fillMessage, f
<1>3. CASE ~f.hasMessage
  <2>1. f.value # NoValue /\ f.value \in ExcValues
    BY <1>1, <1>3 DEF Faithful, Excs
  <2> DEFINE v == f.value
             o == f.origin
  <2>a. /\ v.text \in Messages /\ o \in Origins /\ IsOf(v, o, HeldKinds)
        /\ MessageOf(v) \in {v.text, Unknown, Prefixed(v.text)}
    <3>1. v.text \in Messages /\ o \in Origins /\ IsOf(v, o, HeldKinds)
      BY <2>1, <1>1 DEF ExcValues, Excs, Faithful
    <3>2. MessageOf(v) \in {v.text, Unknown, Prefixed(v.text)}
      BY <1>1 DEF MessageOf, MessageIn, BackendNames, QjsMessage, V8Message, JscMessage,
         WasmMessage, LuaMessage, PyMessage
    <3> QED BY <3>1, <3>2
  <2>b. ASSUME Tells(o)
        PROVE  MessageOf(v) = IF backend = "V8" THEN Prefixed(v.text) ELSE v.text
    <3>1. v.kind \in HeldKinds
      BY <2>a, <2>b DEF IsOf
    <3> HIDE DEF v, o
    <3> QED BY <3>1, <1>1 DEF MessageOf, MessageIn, BackendNames, QjsMessage, V8Message,
            JscMessage, WasmMessage, LuaMessage, PyMessage, HeldKinds
  <2>2. MessageOf(f.value) \in Messages
    BY <2>a, PrefixedIs, ConstantTexts
  <2>3. Tells(f.origin) => /\ MessageOf(f.value).of = f.origin.text
                           /\ MessageOf(f.value).added \in Added(f.origin)
    <3> SUFFICES ASSUME Tells(o)
                 PROVE  MessageOf(v).of = o.text /\ MessageOf(v).added \in Added(o)
      OBVIOUS
    <3>1. v.text.of = o.text /\ v.text.added \in ValueAdds(o)
      BY <2>a DEF IsOf
    <3>2. CASE backend = "V8"
      BY <2>a, <2>b, <3>1, <3>2, PrefixedIs DEF ValueAdds, Added
    <3>3. CASE backend # "V8"
      BY <2>a, <2>b, <3>1, <3>3, AddsAre
    <3> QED BY <3>2, <3>3
  <2>4. e = [f EXCEPT !.message = MessageOf(f.value), !.hasMessage = TRUE]
    BY <1>3 DEF fillMessage, f
  <2>5. /\ e \in Excs /\ e.hasMessage = TRUE /\ e.message = MessageOf(f.value) /\ e.origin = f.origin
        /\ e.value = f.value
    BY <2>2, <2>4, <1>1 DEF Excs
  <2> QED BY <2>1, <2>3, <2>5, <1>1 DEF Faithful, f
<1> QED BY <1>2, <1>3

LEMMA FilledValue ==
  ASSUME ExcInv, values < MaxValues, NEW x \in Held, NEW e, e = fillValue(excs[x])
  PROVE  e \in Excs /\ Faithful(e) /\ e.value # NoValue
<1> DEFINE f == excs[x]
<1>1. f \in Excs /\ Faithful(f) /\ backend \in BackendNames /\ Fresh \in 0..MaxValues
  BY HeldIs, ExceptionAssumption DEF ExcInv, ExcTyped, Fresh
<1> HIDE DEF f
<1>2. CASE f.value # NoValue
  BY <1>1, <1>2 DEF fillValue, f
<1>3. CASE f.value = NoValue
  <2>1. /\ f.hasMessage /\ backend # "Python" /\ (~f.origin.odd => f.origin.id = 0)
        /\ Tells(f.origin) => f.message.added \in ValueAdds(f.origin)
    BY <1>1, <1>3 DEF Faithful
  <2> DEFINE kind == IF backend = "Lua" THEN "primitive" ELSE "error"
  <2>2. e = Made(kind, f)
    BY <2>1, <1>1, <1>3 DEF fillValue, QjsMade, V8Made, JscMade, WasmMade, LuaMade, BackendNames, f
  <2> DEFINE v == Value(kind, f.message, Fresh)
             id == IF f.origin.id = 0 THEN Fresh ELSE f.origin.id
  <2>3. v \in ExcValues /\ v.kind = kind /\ v.text = f.message /\ v.id = Fresh
    BY <1>1, ValueIsTyped DEF Excs
  <2>4. e = [f EXCEPT !.value = v, !.origin.id = id]
    BY <2>2 DEF Made
  <2> HIDE DEF v
  <2>5. /\ e \in Excs /\ e.value = v /\ e.message = f.message /\ e.hasMessage = f.hasMessage
        /\ e.origin.text = f.origin.text /\ e.origin.odd = f.origin.odd /\ e.origin.id = id
        /\ e.origin.hops = f.origin.hops
    <3>1. f.origin \in Origins /\ id \in 0..MaxValues
      BY <1>1 DEF Excs, Origins
    <3> DEFINE o == [f.origin EXCEPT !.id = id]
    <3>2. /\ o \in Origins /\ o.text = f.origin.text /\ o.odd = f.origin.odd /\ o.id = id
          /\ o.hops = f.origin.hops
      BY <3>1 DEF Origins
    <3>3. e = [[f EXCEPT !.value = v] EXCEPT !.origin = o]
      BY <2>4
    <3> HIDE DEF o, id
    <3>4. e \in Excs /\ e.value = v /\ e.message = f.message /\ e.hasMessage = f.hasMessage /\ e.origin = o
      BY <1>1, <2>3, <3>2, <3>3 DEF Excs
    <3> QED BY <3>2, <3>4
  <2>6. v # NoValue
    BY <2>3, NothingIsTyped
  <2>7. Tells(e.origin) => v.text.of = e.origin.text /\ v.text.added \in ValueAdds(e.origin)
    BY <1>1, <2>1, <2>3, <2>5, AddsOfHops DEF Faithful, Tells
  <2>8. IsOf(v, e.origin, HeldKinds)
    BY <2>1, <2>3, <2>5, <2>7 DEF IsOf, HeldKinds, JsBackends
  <2>9. e.hasMessage /\ Tells(e.origin) =>
          e.message.of = e.origin.text /\ e.message.added \in Added(e.origin)
    BY <1>1, <2>1, <2>5, AddsOfHops DEF Faithful, Tells
  <2> QED BY <2>5, <2>6, <2>8, <2>9 DEF Faithful
<1> QED BY <1>2, <1>3

-----------------------------------------------------------------------------
(* The actions.                                                            *)

LEMMA FreshId == ASSUME ExcInv, values < MaxValues PROVE Fresh \in 0..MaxValues /\ Fresh # 0
BY ExceptionAssumption DEF ExcInv, ExcTyped, Fresh

LEMMA NewFromTextKeeps == ASSUME ExcInv, NewFromText PROVE ExcInv'
<1> PICK x \in Slots, text \in Texts :
      IF backend = "Python"
      THEN /\ excs' = [excs EXCEPT ![x] = Exc(Value("error", Bare(text), Fresh), NoMessage,
                                              Origin(text, Fresh, FALSE))]
           /\ values' = Fresh
      ELSE /\ excs' = [excs EXCEPT ![x] = Exc(NoValue, Bare(text), Origin(text, 0, FALSE))]
           /\ UNCHANGED values
  BY DEF NewFromText
<1>1. values < MaxValues /\ UNCHANGED <<backend, thrown>> /\ Fresh \in 0..MaxValues
  BY FreshId DEF NewFromText
<1>2. /\ text \in Sources /\ 0 \in 0..MaxValues /\ Bare(text) \in Messages /\ Bare(text) # NoMessage
      /\ Bare(text).of = text /\ Bare(text).added = 0
  BY ExceptionAssumption, ConstantTexts, TextsAre
<1>3. CASE backend = "Python"
  <2> DEFINE v == Value("error", Bare(text), Fresh)
             e == Exc(v, NoMessage, Origin(text, Fresh, FALSE))
  <2>1. v \in ExcValues /\ v.kind = "error" /\ v.text = Bare(text)
    BY <1>1, <1>2, ValueIsTyped
  <2> HIDE DEF v
  <2>2. /\ Origin(text, Fresh, FALSE) \in Origins /\ Origin(text, Fresh, FALSE).text = text
        /\ Origin(text, Fresh, FALSE).hops = 0
    BY <1>1, <1>2, OriginIsTyped
  <2>3. e \in Excs /\ e.value = v /\ e.hasMessage = FALSE /\ e.origin = Origin(text, Fresh, FALSE)
    BY <2>1, <2>2, UnreadIs
  <2>4. excs' = [excs EXCEPT ![x] = e] /\ values' = Fresh
    BY <1>3 DEF v
  <2> HIDE DEF e
  <2>5. Faithful(e)
    BY <1>2, <1>3, <2>1, <2>2, <2>3, NothingIsTyped, AddsAre DEF Faithful, IsOf, HeldKinds, JsBackends
  <2> QED BY <1>1, <2>3, <2>4, <2>5, OnePut
<1>4. CASE backend # "Python"
  <2> DEFINE e == Exc(NoValue, Bare(text), Origin(text, 0, FALSE))
  <2>1. /\ Origin(text, 0, FALSE) \in Origins /\ Origin(text, 0, FALSE).text = text
        /\ Origin(text, 0, FALSE).id = 0 /\ Origin(text, 0, FALSE).hops = 0
    BY <1>2, OriginIsTyped
  <2>2. /\ e \in Excs /\ e.value = NoValue /\ e.message = Bare(text) /\ e.hasMessage = TRUE
        /\ e.origin = Origin(text, 0, FALSE)
    BY <1>2, <2>1, NothingIsTyped DEF Exc, Excs
  <2>3. excs' = [excs EXCEPT ![x] = e] /\ values' = values
    BY <1>4
  <2> HIDE DEF e
  <2>4. Faithful(e)
    BY <1>2, <1>4, <2>1, <2>2, AddsAre DEF Faithful
  <2>5. values' \in 0..MaxValues
    BY <2>3 DEF ExcInv, ExcTyped
  <2> QED BY <1>1, <2>2, <2>3, <2>4, <2>5, OnePut
<1> QED BY <1>3, <1>4

LEMMA NewFromStringKeeps == ASSUME ExcInv, NewFromString PROVE ExcInv'
<1> DEFINE kind == IF backend = "Lua" THEN "primitive" ELSE "error"
<1> PICK x \in Slots, text \in Texts :
      excs' = [excs EXCEPT ![x] = Exc(Value(kind, Bare(text), Fresh), NoMessage, Origin(text, Fresh, FALSE))]
  BY DEF NewFromString
<1>1. values < MaxValues /\ UNCHANGED <<backend, thrown>> /\ Fresh \in 0..MaxValues /\ values' = Fresh
  BY FreshId DEF NewFromString
<1> DEFINE v == Value(kind, Bare(text), Fresh)
           o == Origin(text, Fresh, FALSE)
           e == Exc(v, NoMessage, o)
<1>2. text \in Sources /\ Bare(text) \in Messages /\ Bare(text).of = text /\ Bare(text).added = 0
  BY ConstantTexts, TextsAre
<1>3. v \in ExcValues /\ v.kind = kind /\ v.text = Bare(text) /\ v.id = Fresh
  BY <1>1, <1>2, ValueIsTyped
<1>4. o \in Origins /\ o.text = text /\ o.id = Fresh /\ o.hops = 0
  BY <1>1, <1>2, OriginIsTyped
<1> HIDE DEF v, o
<1>5. e \in Excs /\ e.value = v /\ e.hasMessage = FALSE /\ e.origin = o
  BY <1>3, <1>4, UnreadIs
<1>6. excs' = [excs EXCEPT ![x] = e]
  BY DEF v, o
<1> HIDE DEF e
<1>7. Faithful(e)
  BY <1>2, <1>3, <1>4, <1>5, NothingIsTyped, AddsAre DEF Faithful, IsOf, HeldKinds, JsBackends
<1> QED BY <1>1, <1>5, <1>6, <1>7, OnePut

LEMMA NewFromValueKeeps == ASSUME ExcInv, NewFromValue PROVE ExcInv'
<1> PICK x \in Held, y \in Slots :
      /\ excs[x].value # NoValue
      /\ excs' = [excs EXCEPT ![y] = Exc(excs[x].value, NoMessage, excs[x].origin)]
  BY DEF NewFromValue
<1> DEFINE f == excs[x]
           e == Exc(f.value, NoMessage, f.origin)
<1>1. f \in Excs /\ Faithful(f)
  BY HeldIs
<1>2. e \in Excs /\ e.value = f.value /\ e.hasMessage = FALSE /\ e.origin = f.origin
  <2>1. f.value \in ExcValues /\ f.origin \in Origins
    BY <1>1 DEF Excs
  <2> QED BY <2>1, UnreadIs
<1>3. Faithful(e)
  BY <1>1, <1>2 DEF Faithful
<1>4. UNCHANGED <<backend, thrown>> /\ values' \in 0..MaxValues
  BY DEF NewFromValue, ExcInv, ExcTyped
<1> QED BY <1>2, <1>3, <1>4, OnePut

LEMMA CopyKeeps == ASSUME ExcInv, Copy PROVE ExcInv'
<1> PICK x \in Held, y \in Slots : excs' = [excs EXCEPT ![y] = excs[x]]
  BY DEF Copy
<1>1. UNCHANGED <<backend, thrown>> /\ values' \in 0..MaxValues
  BY DEF Copy, ExcInv, ExcTyped
<1> QED BY <1>1, HeldIs, OnePut

LEMMA GetMessageKeeps == ASSUME ExcInv, GetMessage PROVE ExcInv'
<1> PICK x \in Held : excs' = [excs EXCEPT ![x] = fillMessage(@)]
  BY DEF GetMessage
<1>1. UNCHANGED <<backend, thrown>> /\ values' \in 0..MaxValues
  BY DEF GetMessage, ExcInv, ExcTyped
<1>2. x \in Slots /\ fillMessage(excs[x]) \in Excs /\ Faithful(fillMessage(excs[x]))
  BY HeldIs, FilledMessage
<1>3. excs' = [excs EXCEPT ![x] = fillMessage(excs[x])]
  OBVIOUS
<1> QED BY <1>1, <1>2, <1>3, OnePut

LEMMA GetValueKeeps == ASSUME ExcInv, GetValue PROVE ExcInv'
<1> PICK x \in Held : excs' = [excs EXCEPT ![x] = fillValue(@)]
  BY DEF GetValue
<1>1. UNCHANGED <<backend, thrown>> /\ values' \in 0..MaxValues /\ values < MaxValues
  BY FreshId DEF GetValue
<1>2. x \in Slots /\ fillValue(excs[x]) \in Excs /\ Faithful(fillValue(excs[x]))
  BY <1>1, HeldIs, FilledValue
<1>3. excs' = [excs EXCEPT ![x] = fillValue(excs[x])]
  OBVIOUS
<1> QED BY <1>1, <1>2, <1>3, OnePut

LEMMA LeaveCallbackKeeps == ASSUME ExcInv, LeaveCallback PROVE ExcInv'
<1> PICK x \in Held :
      LET exc == IF backend = "Lua" THEN fillMessage(excs[x]) ELSE fillValue(excs[x])
          value == IF backend = "Lua" THEN Value("primitive", exc.message, Fresh) ELSE exc.value
      IN /\ thrown' = [value |-> value, origin |-> exc.origin]
         /\ excs' = [excs EXCEPT ![x] = NoExc]
  BY DEF LeaveCallback
<1> DEFINE e == IF backend = "Lua" THEN fillMessage(excs[x]) ELSE fillValue(excs[x])
           v == IF backend = "Lua" THEN Value("primitive", e.message, Fresh) ELSE e.value
<1>1. /\ UNCHANGED backend /\ values' = Fresh /\ values < MaxValues
      /\ thrown' = [value |-> v, origin |-> e.origin]
      /\ excs' = [excs EXCEPT ![x] = NoExc]
  BY DEF LeaveCallback
<1>2. Fresh \in 0..MaxValues /\ x \in Slots
  BY <1>1, FreshId, HeldIs
<1>3. e \in Excs /\ Faithful(e)
  BY <1>1, FilledMessage, FilledValue
<1>4. backend = "Lua" => e.hasMessage
  BY FilledMessage
<1>5. backend # "Lua" => e.value # NoValue
  BY <1>1, FilledValue
<1> HIDE DEF e
<1>6. v \in ExcValues /\ IsThrown(v, e.origin)
  <2>1. CASE backend = "Lua"
    <3>1. e.message \in Messages
      BY <1>3 DEF Excs
    <3>2. v \in ExcValues /\ v.kind = "primitive" /\ v.text = e.message
      BY <1>2, <2>1, <3>1, ValueIsTyped
    <3> HIDE DEF v
    <3> QED BY <1>3, <1>4, <2>1, <3>2 DEF Faithful, IsThrown, IsOf, ThrownKinds, JsBackends, ValueAdds
  <2>2. CASE backend # "Lua"
    <3>1. v \in ExcValues
      BY <1>3, <2>2 DEF Excs
    <3> QED BY <1>3, <1>5, <2>2, <3>1 DEF Faithful, IsThrown, IsOf, ThrownKinds, HeldKinds, Tells
  <2> QED BY <2>1, <2>2
<1> HIDE DEF v
<1>7. ExcTyped' /\ \A y \in Slots : (excs[y] # NoExc => Faithful(excs[y]))'
  <2>1. NoExc \in Excs
    BY NothingIsTyped
  <2>2. thrown' \in [value : ExcValues, origin : Origins]
    BY <1>1, <1>3, <1>6 DEF Excs
  <2>3. backend' \in BackendNames
    BY <1>1 DEF ExcInv, ExcTyped
  <2>4. excs' \in [Slots -> Excs] /\ \A y \in Slots : (excs[y] # NoExc => Faithful(excs[y]))'
    BY <1>1, <1>2, <2>1, PutKeeps
  <2> QED BY <1>1, <1>2, <2>2, <2>3, <2>4 DEF ExcTyped, ExcValues, Origins, Excs, Messages, Sources
<1>8. (thrown # NotThrown => IsThrown(thrown.value, thrown.origin))'
  <2>1. thrown'.value = v /\ thrown'.origin = e.origin
    BY <1>1
  <2> QED BY <1>1, <1>6, <2>1 DEF IsThrown, IsOf, ThrownKinds, Tells, ValueAdds, Added
<1> QED BY <1>7, <1>8 DEF ExcInv

(* A step that leaves the Exceptions and throws something, or stops.       *)
LEMMA ThrownKeeps ==
  ASSUME ExcInv, UNCHANGED <<backend, excs>>, values' \in 0..MaxValues,
         thrown' \in [value : ExcValues, origin : Origins],
         thrown' = NotThrown \/ IsThrown(thrown'.value, thrown'.origin)
  PROVE  ExcInv'
<1>1. ExcTyped'
  BY DEF ExcInv, ExcTyped
<1>2. \A y \in Slots : (excs[y] # NoExc => Faithful(excs[y]))'
  BY DEF ExcInv, NoExc, NoValue, Exc, Origin, Value, NoMessage, Bare, Faithful, IsOf, Tells, HeldKinds,
     ValueAdds, Added
<1>3. (thrown # NotThrown => IsThrown(thrown.value, thrown.origin))'
  BY DEF NotThrown, NoValue, Value, Origin, NoMessage, Bare, IsThrown, IsOf, ThrownKinds, Tells,
     ValueAdds, Added
<1> QED BY <1>1, <1>2, <1>3 DEF ExcInv

LEMMA ScriptThrowsKeeps == ASSUME ExcInv, ScriptThrows PROVE ExcInv'
<1> PICK kind \in Kinds, text \in Texts :
      thrown' = [value |-> Value(kind, Bare(text), Fresh),
                 origin |-> Origin(text, Fresh,
                                   kind \in {"table", "other"} \/ (kind = "primitive" /\ backend # "Lua"))]
  BY DEF ScriptThrows
<1> DEFINE v == Value(kind, Bare(text), Fresh)
           odd == kind \in {"table", "other"} \/ (kind = "primitive" /\ backend # "Lua")
           o == Origin(text, Fresh, odd)
<1>1. Fresh \in 0..MaxValues /\ UNCHANGED <<backend, excs>> /\ values' = Fresh
  BY FreshId DEF ScriptThrows
<1>2. /\ text \in Sources /\ Bare(text) \in Messages /\ Bare(text).of = text /\ Bare(text).added = 0
      /\ backend \in BackendNames
  BY ConstantTexts, TextsAre DEF ExcInv, ExcTyped
<1>3. kind \in {"error", "primitive", "table", "other"}
  BY DEF Kinds
<1>4. v \in ExcValues /\ v.kind = kind /\ v.text = Bare(text) /\ v.id = Fresh
  BY <1>1, <1>2, <1>3, ValueIsTyped
<1>5. o \in Origins /\ o.text = text /\ o.id = Fresh /\ o.odd = odd /\ o.hops = 0
  BY <1>1, <1>2 DEF Origin, Origins
<1> HIDE DEF v, o
<1>6. Tells(o) => kind \in ThrownKinds
  BY <1>2, <1>5 DEF Tells, ThrownKinds, Kinds, BackendNames
<1>7. IsThrown(v, o)
  BY <1>2, <1>3, <1>4, <1>5, <1>6, AddsAre DEF IsThrown, IsOf
<1>8. thrown' = [value |-> v, origin |-> o]
  BY DEF v, o
<1> QED BY <1>1, <1>4, <1>5, <1>7, <1>8, ThrownKeeps

LEMMA ScriptThrowsPassedKeeps == ASSUME ExcInv, ScriptThrowsPassed PROVE ExcInv'
<1> PICK x \in Held :
      /\ excs[x].value # NoValue
      /\ thrown' = [value |-> excs[x].value,
                    origin |-> [excs[x].origin EXCEPT
                                  !.odd = @ \/ (backend = "Lua" /\ excs[x].value.kind # "primitive")]]
  BY DEF ScriptThrowsPassed
<1> DEFINE f == excs[x]
           odd == f.origin.odd \/ (backend = "Lua" /\ f.value.kind # "primitive")
           o == [f.origin EXCEPT !.odd = odd]
<1>1. f \in Excs /\ Faithful(f)
  BY HeldIs
<1>2. UNCHANGED <<backend, excs>> /\ values' \in 0..MaxValues
  BY DEF ScriptThrowsPassed, ExcInv, ExcTyped
<1>3. thrown' = [value |-> f.value, origin |-> o] /\ f.value # NoValue
  OBVIOUS
<1> HIDE DEF f
<1>4. f.value \in ExcValues /\ f.origin \in Origins
  BY <1>1 DEF Excs
<1>5. /\ o \in Origins /\ o.text = f.origin.text /\ o.id = f.origin.id /\ o.odd = odd
      /\ o.hops = f.origin.hops
  BY <1>4 DEF Origins
<1> HIDE DEF o
<1>6. IsThrown(f.value, o)
  BY <1>1, <1>3, <1>5, AddsOfHops DEF IsThrown, IsOf, Faithful, ThrownKinds, HeldKinds, Tells
<1> QED BY <1>2, <1>3, <1>4, <1>5, <1>6, ThrownKeeps

LEMMA ScriptCatchesKeeps == ASSUME ExcInv, ScriptCatches PROVE ExcInv'
<1>1. UNCHANGED <<backend, excs>> /\ values' \in 0..MaxValues /\ thrown' = NotThrown
  BY DEF ScriptCatches, ExcInv, ExcTyped
<1> QED BY <1>1, NothingIsTyped, ThrownKeeps

LEMMA LuaThrowsOnKeeps == ASSUME ExcInv, LuaThrowsOn PROVE ExcInv'
<1> DEFINE text == Prefixed(thrown.value.text)
           v == Value("primitive", text, Fresh)
           o == Crossed(thrown.origin)
<1>1. /\ backend = "Lua" /\ thrown.value.kind = "primitive" /\ UNCHANGED <<backend, excs>>
      /\ values' = Fresh /\ Fresh \in 0..MaxValues /\ thrown' = [value |-> v, origin |-> o]
  BY FreshId DEF LuaThrowsOn
<1>2. /\ thrown.value.text \in Messages /\ thrown.origin \in Origins
      /\ IsThrown(thrown.value, thrown.origin)
  <2>1. thrown # NotThrown
    <3>1. NotThrown.value = NoValue /\ NoValue.kind = "none"
      BY NothingIsTyped DEF NotThrown
    <3> QED BY <1>1, <3>1
  <2> QED BY <2>1 DEF ExcInv, ExcTyped, ExcValues
<1>3. /\ text \in Messages /\ text.of = thrown.value.text.of
      /\ text.added = thrown.value.text.added + 1
  BY <1>2, PrefixedIs
<1>4. /\ o \in Origins /\ o.text = thrown.origin.text /\ o.odd = thrown.origin.odd
      /\ o.hops = thrown.origin.hops + 1 /\ thrown.origin.hops \in Nat
  BY <1>2, CrossedIs DEF Origins
<1> HIDE DEF text, o
<1>5. v \in ExcValues /\ v.kind = "primitive" /\ v.text = text
  BY <1>1, <1>3, ValueIsTyped
<1> HIDE DEF v
<1>6. IsThrown(v, o)
  <2> SUFFICES ASSUME Tells(o)
               PROVE  v.text.of = o.text /\ v.text.added \in ValueAdds(o)
    BY <1>1, <1>5 DEF IsThrown, IsOf, ThrownKinds, JsBackends
  <2>1. /\ thrown.value.text.of = thrown.origin.text
        /\ thrown.value.text.added \in 0..thrown.origin.hops
    BY <1>1, <1>2, <1>4 DEF IsThrown, IsOf, Tells, ValueAdds, Added
  <2>2. text.added \in 0..o.hops
    BY <1>3, <1>4, <2>1
  <2> QED BY <1>1, <1>3, <1>4, <1>5, <2>1, <2>2 DEF ValueAdds, Added
<1> QED BY <1>1, <1>4, <1>5, <1>6, ThrownKeeps

LEMMA CaughtIs ==
  ASSUME ExcInv, thrown # NotThrown, values < MaxValues,
         NEW e, e = Caught(thrown.value, Crossed(thrown.origin))
  PROVE  e \in Excs /\ Faithful(e)
<1> DEFINE v == thrown.value
           p == thrown.origin
           o == Crossed(p)
<1>0. v \in ExcValues /\ p \in Origins /\ backend \in BackendNames /\ IsThrown(v, p)
  BY DEF ExcInv, ExcTyped
<1>1. /\ v \in ExcValues /\ o \in Origins /\ backend \in BackendNames
      /\ o.text = p.text /\ o.id = p.id /\ o.odd = p.odd
      /\ o.hops = p.hops + 1 /\ p.hops \in Nat
  BY <1>0, CrossedIs DEF Origins
<1>3. Fresh \in 0..MaxValues /\ Unknown \in Messages /\ v.text \in Messages /\ v.id \in 0..MaxValues
  BY <1>0, FreshId, ConstantTexts DEF ExcValues
<1> HIDE DEF v, p, o
<1>2. /\ v.kind # "none" /\ (v.kind = "primitive" /\ backend # "Lua" => o.odd)
      /\ Tells(o) => v.kind \in ThrownKinds /\ v.text.of = o.text
      /\ backend \in JsBackends /\ ~o.odd => v.id = o.id
  BY <1>0, <1>1 DEF IsThrown, IsOf, Tells
<1>a. Tells(o) /\ backend # "Python" => v.text.added \in ValueAdds(o)
  <2>1. Tells(o) => v.text.added \in ValueAdds(p)
    BY <1>0, <1>1 DEF IsThrown, IsOf, Tells
  <2>2. backend # "Python" => ValueAdds(p) \subseteq ValueAdds(o)
    BY <1>1 DEF ValueAdds, Added
  <2> QED BY <2>1, <2>2
<1>b. Tells(o) /\ backend = "Python" => v.text.added + 1 \in ValueAdds(o)
  <2>1. Tells(o) => v.text.added \in ValueAdds(p)
    BY <1>0, <1>1 DEF IsThrown, IsOf, Tells
  <2> QED BY <2>1, <1>1 DEF ValueAdds, Added
<1> HIDE DEF v, o
<1>4. v # NoValue
  BY <1>2, NothingIsTyped
<1>5. ASSUME NEW w \in ExcValues, e = Kept(w, o), IsOf(w, o, HeldKinds)
      PROVE  e \in Excs /\ Faithful(e)
  <2>1. e \in Excs /\ e.value = w /\ e.hasMessage = FALSE /\ e.origin = o
    <3>1. w \in ExcValues /\ o \in Origins /\ e = Exc(w, NoMessage, o)
      BY <1>1, <1>5 DEF Kept
    <3>2. /\ NoMessage \in Messages
          /\ e = [value |-> w, message |-> NoMessage, hasMessage |-> FALSE, origin |-> o]
      BY <3>1, ConstantTexts DEF Exc
    <3>3. e \in Excs
      BY <3>1, <3>2 DEF Excs
    <3>4. e.value = w
      BY <3>2
    <3>5. e.hasMessage = FALSE
      BY <3>2
    <3>6. e.origin = o
      BY <3>2
    <3> QED BY <3>3, <3>4, <3>5, <3>6
  <2>2. w # NoValue
    BY <1>5, NothingIsTyped DEF IsOf
  <2> QED BY <1>5, <2>1, <2>2 DEF Faithful
<1>6. CASE backend = "QuickJs" /\ v.kind = "primitive"
  <2>1. e = Exc(NoValue, Unknown, o)
    BY <1>6 DEF Caught, QjsCaught, v, o, p
  <2>2. e \in Excs /\ e.value = NoValue /\ e.hasMessage = TRUE /\ e.origin = o
    <3>1. Unknown # NoMessage
      BY ConstantTexts
    <3>2. e = [value |-> NoValue, message |-> Unknown, hasMessage |-> TRUE, origin |-> o]
      BY <2>1, <3>1 DEF Exc
    <3>3. e \in Excs
      BY <1>1, <1>3, <3>2, NothingIsTyped DEF Excs
    <3>4. e.value = NoValue
      BY <3>2
    <3>5. e.hasMessage = TRUE
      BY <3>2
    <3>6. e.origin = o
      BY <3>2
    <3> QED BY <3>3, <3>4, <3>5, <3>6
  <2>3. o.odd
    BY <1>2, <1>6
  <2> QED BY <1>6, <2>2, <2>3 DEF Faithful, Tells
<1>7. CASE backend \in {"QuickJs", "V8", "JavaScriptCore"} /\ ~(backend = "QuickJs" /\ v.kind = "primitive")
  <2>1. e = Kept(v, o)
    BY <1>7 DEF Caught, QjsCaught, V8Caught, JscCaught, v, o, p
  <2>2. IsOf(v, o, HeldKinds)
    BY <1>2, <1>a, <1>7 DEF IsOf, ThrownKinds, HeldKinds
  <2> QED BY <1>1, <1>5, <2>1, <2>2
<1>8. CASE backend = "WebAssembly"
  <2> DEFINE w == IF v.kind = "primitive" THEN Value("error", v.text, Fresh) ELSE v
  <2>1. e = Kept(w, o)
    BY <1>8 DEF Caught, WasmCaught, v, o, p
  <2>2. w \in ExcValues /\ w.text = v.text /\ w.kind = (IF v.kind = "primitive" THEN "error" ELSE v.kind)
    BY <1>1, <1>3, ValueIsTyped
  <2>3. ~o.odd => w.id = o.id
    BY <1>2, <1>8 DEF JsBackends
  <2>4. IsOf(w, o, HeldKinds)
    BY <1>2, <1>a, <1>8, <2>2, <2>3 DEF IsOf, ThrownKinds, HeldKinds
  <2> QED BY <1>5, <2>1, <2>2, <2>4
<1>9. CASE backend = "Lua"
  <2> DEFINE w == IF v.kind = "primitive" THEN Value("error", v.text, Fresh) ELSE [v EXCEPT !.kind = "table"]
  <2>1. e = Kept(w, o)
    BY <1>9 DEF Caught, LuaCaught, v, o, p
  <2>2. w \in ExcValues /\ w.text = v.text /\ w.kind = (IF v.kind = "primitive" THEN "error" ELSE "table")
    BY <1>1, <1>3, ValueIsTyped DEF ExcValues
  <2> HIDE DEF w
  <2>3. IsOf(w, o, HeldKinds)
    BY <1>2, <1>a, <1>9, <2>2 DEF IsOf, ThrownKinds, HeldKinds, JsBackends
  <2> QED BY <1>5, <2>1, <2>2, <2>3
<1>10. CASE backend = "Python"
  <2> DEFINE text == IF v.kind = "error" THEN Prefixed(v.text) ELSE Unknown
             w == Value("error", text, Fresh)
  <2>1. e = Kept(w, o)
    BY <1>10 DEF Caught, PyCaught, v, o, p
  <2>2. w \in ExcValues /\ w.text = text /\ w.kind = "error"
    <3>1. text \in Messages
      BY <1>3, PrefixedIs
    <3> HIDE DEF text
    <3> QED BY <1>3, <3>1, ValueIsTyped
  <2>4. v.kind = "error" => text.of = v.text.of /\ text.added = v.text.added + 1
    BY <1>3, PrefixedIs
  <2> HIDE DEF w, text
  <2>3. IsOf(w, o, HeldKinds)
    BY <1>2, <1>b, <1>10, <2>2, <2>4 DEF IsOf, ThrownKinds, HeldKinds, JsBackends
  <2> QED BY <1>5, <2>1, <2>2, <2>3
<1> QED BY <1>1, <1>6, <1>7, <1>8, <1>9, <1>10 DEF BackendNames

LEMMA CatchInCppKeeps == ASSUME ExcInv, CatchInCpp PROVE ExcInv'
<1> PICK x \in Slots : excs' = [excs EXCEPT ![x] = Caught(thrown.value, Crossed(thrown.origin))]
  BY DEF CatchInCpp
<1>1. thrown # NotThrown /\ values < MaxValues /\ UNCHANGED backend /\ thrown' = NotThrown /\ values' = Fresh
  BY DEF CatchInCpp
<1> DEFINE e == Caught(thrown.value, Crossed(thrown.origin))
<1>2. e \in Excs /\ Faithful(e)
  BY <1>1, CaughtIs
<1>3. excs' = [excs EXCEPT ![x] = e]
  OBVIOUS
<1> HIDE DEF e
<1>4. excs' \in [Slots -> Excs] /\ \A y \in Slots : (excs[y] # NoExc => Faithful(excs[y]))'
  BY <1>1, <1>2, <1>3, PutKeeps
<1>5. Fresh \in 0..MaxValues
  BY <1>1, FreshId
<1>6. backend' \in BackendNames /\ NotThrown' = NotThrown
  BY <1>1 DEF ExcInv, ExcTyped, NotThrown, NoValue, Value, Origin, NoMessage, Bare
<1>7. ExcTyped'
  BY <1>1, <1>4, <1>5, <1>6, NothingIsTyped DEF ExcTyped, ExcValues, Origins, Excs, Messages, Sources
<1> QED BY <1>1, <1>4, <1>6, <1>7 DEF ExcInv

-----------------------------------------------------------------------------

LEMMA ExcBegins == ExcInit => ExcInv
<1> SUFFICES ASSUME ExcInit
             PROVE  ExcInv
  OBVIOUS
<1>1. ExcTyped
  BY NothingIsTyped, ExceptionAssumption DEF ExcInit, ExcTyped
<1> QED BY <1>1 DEF ExcInit, ExcInv

LEMMA ExcStays == ExcInv /\ [ExcNext]_excVars => ExcInv'
<1> SUFFICES ASSUME ExcInv, [ExcNext]_excVars
             PROVE  ExcInv'
  OBVIOUS
<1>1. CASE UNCHANGED excVars
  <2>1. UNCHANGED <<backend, excs, thrown, values>>
    BY <1>1 DEF excVars
  <2>2. thrown \in [value : ExcValues, origin : Origins] /\ values \in 0..MaxValues
    BY DEF ExcInv, ExcTyped
  <2>3. thrown = NotThrown \/ IsThrown(thrown.value, thrown.origin)
    BY DEF ExcInv
  <2> QED BY <2>1, <2>2, <2>3, ThrownKeeps
<1>2. CASE ExcNext
  BY <1>2, NewFromTextKeeps, NewFromStringKeeps, NewFromValueKeeps, CopyKeeps, GetMessageKeeps,
     GetValueKeeps, LeaveCallbackKeeps, ScriptThrowsKeeps, ScriptThrowsPassedKeeps,
     LuaThrowsOnKeeps, ScriptCatchesKeeps, CatchInCppKeeps DEF ExcNext
<1> QED BY <1>1, <1>2

LEMMA FaithfulArrives == ExcInv => ExceptionsArrive
<1> SUFFICES ASSUME ExcInv
             PROVE  ExceptionsArrive
  OBVIOUS
<1>1. ASSUME NEW x \in Held
      PROVE  Faithful(excs[x])
  BY HeldIs
<1> QED BY <1>1 DEF ExceptionsArrive, MessagesArrive, ValuesKeepIdentity, Faithful, IsOf, Tells

LEMMA ExcTypesHold == ExcInv => ExcTypeOK
<1> SUFFICES ASSUME ExcInv
             PROVE  ExcTypeOK
  OBVIOUS
<1>1. ASSUME NEW x \in Held
      PROVE  /\ excs[x].value \in ExcValues /\ excs[x].message \in Messages
             /\ excs[x].value = NoValue => excs[x].hasMessage
  BY HeldIs DEF Excs, Faithful
<1>2. values \in 0..MaxValues /\ thrown.value \in ExcValues
  BY DEF ExcInv, ExcTyped
<1> QED BY <1>1, <1>2 DEF ExcTypeOK

(* The fields of an Exception have their types, and one without a value    *)
(* has a message that exception() can make one of.                         *)
THEOREM ExceptionsAreTyped == ExcSpec => []ExcTypeOK
BY ExcBegins, ExcStays, ExcTypesHold, PTL DEF ExcSpec

(* However many exceptions cross between scripts and C++ however often, in *)
(* any backend, a message that was read contains that of what was thrown   *)
(* first: QuickJs, JavaScriptCore and WebAssembly add nothing to it, V8 its*)
(* description at most once, Python the name of the type exactly once per  *)
(* crossing, Lua at most a position per use of error. And in JavaScript the*)
(* value stays the object that was thrown first.                           *)
THEOREM ExceptionsAlwaysArrive == ExcSpec => []ExceptionsArrive
BY ExcBegins, ExcStays, FaithfulArrives, PTL DEF ExcSpec
=============================================================================
