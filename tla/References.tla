---------------------------- MODULE References -----------------------------
(***************************************************************************)
(* script::Global and script::Weak of QuickJs (without its weak-reference  *)
(* patch), V8, JavaScriptCore, Lua and Python, with the records their      *)
(* engines keep of them. A GlobalWeakBookkeeping is a list of references   *)
(* that hold a value of the engine, which destroy() uses to reset them     *)
(* all; handle_ is a reference's node in it. Python has one refsKeeper, a  *)
(* map from references to engines. Assignment is made of smaller           *)
(* operations that update value, list and reference counts one after the   *)
(* other; here they are operators from a state s of all references to the  *)
(* next.                                                                   *)
(***************************************************************************)
EXTENDS Backend

CONSTANTS
  Objects,
  NoObject,
  HomeOf,        \* the engine an object lives in
  Globals,       \* the Global references of the program
  Weaks,         \* its Weak references
  TempGlobal,    \* the temporary of an assignment
  TempWeak

Handles == Globals \cup Weaks
Temps   == {TempGlobal, TempWeak}

ASSUME ReferencesAssumption ==
  /\ NoObject \notin Objects
  /\ HomeOf \in [Objects -> Engines]
  /\ Globals \cap Weaks = {}
  /\ TempGlobal \in Globals /\ TempWeak \in Weaks
  /\ IsFiniteSet(Globals) /\ IsFiniteSet(Weaks)

VARIABLES
  refs,     \* engine_, ref_ (or index) and handle_ of each reference; the
            \* nodes of each engine's list (Python: its keys in refsKeeper);
            \* the references counted on objects
  made,     \* the references whose lifetime has begun and not ended
  running,  \* the engines that are not destroyed
  present   \* the objects that are not collected

refsVars == <<refs, made, running, present>>

RefState ==
  [engine : [Handles -> Engines \cup {NoEngine}],
   object : [Handles -> Objects \cup {NoObject}],
   handle : [Handles -> Engines \cup {NoEngine}],
   nodes  : [Engines -> [Handles -> Int]],
   strong : [Objects -> Int]]

RefsTypeOK ==
  /\ refs \in RefState
  /\ made \subseteq Handles
  /\ running \subseteq Engines
  /\ present \subseteq Objects

RefsInit ==
  /\ refs = [engine |-> [h \in Handles |-> NoEngine],
             object |-> [h \in Handles |-> NoObject],
             handle |-> [h \in Handles |-> NoEngine],
             nodes  |-> [e \in Engines |-> [h \in Handles |-> 0]],
             strong |-> [o \in Objects |-> 0]]
  /\ made = {}
  /\ running = Engines
  /\ present = Objects

-----------------------------------------------------------------------------
(* Values of references                                                    *)

(* isEmpty() of each backend. V8 empties the ref_ of a Weak whose object   *)
(* is collected, so its Weak asks engine_.                                 *)
ByEngine(h) == backend = "QuickJs" \/ (backend = "V8" /\ h \in Weaks)
IsEmpty(s, h) == IF ByEngine(h) THEN s.engine[h] = NoEngine ELSE s.object[h] = NoObject

(* A Global keeps its object; so does a Weak of an unpatched QuickJs.      *)
Keeps(h) == h \in Globals \/ backend = "QuickJs"

(* dupValue and freeValue, JSValueProtect and JSValueUnprotect, the        *)
(* lifetime of a v8::Global, an entry of Lua's registry table.             *)
Count(s, h, n) ==
  IF Keeps(h) /\ s.object[h] # NoObject
  THEN [s EXCEPT !.strong[s.object[h]] = @ + n] ELSE s
Retain(s, h)  == Count(s, h, 1)
Release(s, h) == Count(s, h, -1)

SetValue(s, h, e, o) == [s EXCEPT !.engine[h] = e, !.object[h] = o]

(* Assigning ref_ and engine_: what h held is released, the new value kept.*)
Replace(s, h, e, o) == Retain(SetValue(Release(s, h), h, e, o), h)

-----------------------------------------------------------------------------
(* GlobalWeakBookkeeping                                                   *)

Add(s, e, h) == [s EXCEPT !.nodes[e][h] = @ + 1, !.handle[h] = e]

(* The node that handle_ points to is erased, whichever list is asked.     *)
Remove(s, h) ==
  IF s.handle[h] = NoEngine THEN s
  ELSE [s EXCEPT !.nodes[s.handle[h]][h] = @ - 1, !.handle[h] = NoEngine]

Keep(s, h) ==
  IF s.engine[h] # NoEngine /\ ~IsEmpty(s, h) THEN Add(s, s.engine[h], h) ELSE s

(* Helper: the list of the engine of the first reference, or of the second.*)
Keeper(s, a, b) == IF s.engine[a] # NoEngine THEN s.engine[a] ELSE s.engine[b]

AfterCopy(s, wasEmpty, a, b) ==
  IF a = b \/ Keeper(s, a, b) = NoEngine \/ wasEmpty = IsEmpty(s, a) THEN s
  ELSE IF wasEmpty THEN Add(s, Keeper(s, a, b), a) ELSE Remove(s, a)

(* Mutant: a moved-from reference stays in the list.                       *)
AfterMoveKeeping(s, wasEmpty, a, b) ==
  IF a = b \/ Keeper(s, a, b) = NoEngine THEN s
  ELSE IF wasEmpty /\ ~IsEmpty(s, a) THEN Add(s, Keeper(s, a, b), a) ELSE s

AfterMove(s, wasEmpty, a, b) ==
  LET e == Keeper(s, a, b)
      moved == CASE wasEmpty /\ IsEmpty(s, a)  -> s
                 [] wasEmpty /\ ~IsEmpty(s, a) -> Remove(Add(s, e, a), b)
                 [] ~wasEmpty /\ IsEmpty(s, a) -> Remove(s, a)
                 [] OTHER                      -> Remove(s, b)
  IN  IF a = b \/ e = NoEngine THEN s ELSE [moved EXCEPT !.handle[b] = NoEngine]

AfterSwap(s, a, b) ==
  LET e == Keeper(s, a, b)
  IN  IF a = b \/ e = NoEngine \/ IsEmpty(s, a) = IsEmpty(s, b) THEN s
      ELSE IF IsEmpty(s, a) THEN Add(Remove(s, a), e, b) ELSE Remove(Add(s, e, a), b)

(* clear(): perform() resets every reference in the list; remove() leaves  *)
(* the list alone meanwhile, and clear() empties it at the end. A V8       *)
(* Global that is reset keeps its engine_, as does a Python Weak.          *)
KeepsEngine(h) ==
  \/ backend = "V8" /\ h \in Globals
  \/ backend = "Python" /\ h \in Weaks
Listed(s, e) == {h \in Handles : s.nodes[e][h] > 0 /\ (backend = "Python" \/ ~IsEmpty(s, h))}

(* Mutant: only Global references are reset.                               *)
ClearGlobals(s, e) ==
  [s EXCEPT !.nodes[e] = [h \in Handles |-> 0],
            !.object = [h \in Handles |-> IF h \in Listed(s, e) \cap Globals THEN NoObject ELSE @[h]]]

Clear(s, e) ==
  LET gone == Listed(s, e)
  IN  [engine |-> [h \in Handles |-> IF h \in gone /\ ~KeepsEngine(h) THEN NoEngine ELSE s.engine[h]],
       object |-> [h \in Handles |-> IF h \in gone THEN NoObject ELSE s.object[h]],
       handle |-> [h \in Handles |-> IF h \in gone THEN NoEngine ELSE s.handle[h]],
       nodes  |-> [s.nodes EXCEPT ![e] = [h \in Handles |-> 0]],
       strong |-> [o \in Objects |->
                     s.strong[o] - Cardinality({h \in gone : Keeps(h) /\ s.object[h] = o})]]

-----------------------------------------------------------------------------
(* What the classes are made of. a and b are both Global or both Weak.     *)

(* Memory that a reference is constructed in.                              *)
Fresh(s, h) == SetValue([s EXCEPT !.handle[h] = NoEngine], h, NoEngine, NoObject)

(* Mutant: a copy is not counted.                                          *)
CopyValueUncounted(s, a, b) == SetValue(s, a, s.engine[b], s.object[b])

CopyValue(s, a, b) == Replace(s, a, s.engine[b], s.object[b])
MoveValue(s, a, b) ==
  SetValue(SetValue(Release(s, a), a, s.engine[b], s.object[b]), b, NoEngine, NoObject)
SwapValue(s, a, b) ==
  SetValue(SetValue(s, a, s.engine[b], s.object[b]), b, s.engine[a], s.object[a])
TempOf(h) == IF h \in Globals THEN TempGlobal ELSE TempWeak

(* QuickJs.                                                                *)
QjsReset(s, h) ==
  IF IsEmpty(s, h) THEN s ELSE SetValue(Remove(Release(s, h), h), h, NoEngine, NoObject)
QjsFromLocal(s, h, e, o) == Keep(Retain(SetValue(s, h, e, o), h), h)
QjsCopy(s, a, b) ==
  IF a = b THEN s ELSE AfterCopy(CopyValue(s, a, b), IsEmpty(s, a), a, b)
QjsMove(s, a, b) ==
  IF a = b THEN s ELSE AfterMove(MoveValue(s, a, b), IsEmpty(s, a), a, b)
QjsSwap(s, a, b) == AfterSwap(SwapValue(s, a, b), a, b)
QjsAssignLocal(s, h, e, o) ==
  QjsReset(QjsMove(QjsFromLocal(Fresh(s, TempOf(h)), TempOf(h), e, o), h, TempOf(h)), TempOf(h))

(* V8. A collected Weak has an engine_ and an empty ref_.                  *)
V8Reset(s, h) ==
  IF IsEmpty(s, h) THEN s
  ELSE Remove(SetValue(Release(s, h), h, IF h \in Globals THEN s.engine[h] ELSE NoEngine, NoObject), h)
V8FromLocal(s, h, e, o) == Keep(Retain(SetValue(s, h, e, o), h), h)
V8CopyCtor(s, a, b) == AfterCopy(CopyValue(s, a, b), TRUE, a, b)
V8MoveCtor(s, a, b) == AfterMove(MoveValue(s, a, b), TRUE, a, b)
V8Copy(s, a, b) == AfterCopy(CopyValue(s, a, b), IsEmpty(s, a), a, b)
V8Move(s, a, b) ==
  IF a = b THEN s ELSE AfterMove(MoveValue(s, a, b), IsEmpty(s, a), a, b)
V8Swap(s, a, b) == IF a = b THEN s ELSE AfterSwap(SwapValue(s, a, b), a, b)
V8AssignLocal(s, h, e, o) ==
  V8Reset(V8Move(V8FromLocal(Fresh(s, TempOf(h)), TempOf(h), e, o), h, TempOf(h)), TempOf(h))

(* JavaScriptCore. Moving from a Weak leaves its engine_ behind.           *)
JscReset(s, h) ==
  IF IsEmpty(s, h) THEN s ELSE SetValue(Remove(Release(s, h), h), h, NoEngine, NoObject)
JscFromLocal(s, h, e, o) == Keep(Retain(SetValue(s, h, e, o), h), h)
JscCopy(s, a, b) == AfterCopy(CopyValue(s, a, b), IsEmpty(s, a), a, b)
JscGlobalMove(s, a, b) == AfterMove(MoveValue(s, a, b), IsEmpty(s, a), a, b)
JscWeakMove(s, a, b) ==
  AfterMove([MoveValue(s, a, b) EXCEPT !.engine[b] = s.engine[b]], IsEmpty(s, a), a, b)
JscMove(s, a, b) == IF a \in Globals THEN JscGlobalMove(s, a, b) ELSE JscWeakMove(s, a, b)
JscSwap(s, a, b) == AfterSwap(SwapValue(s, a, b), a, b)
JscAssignLocal(s, h, e, o) ==
  JscReset(JscMove(JscFromLocal(Fresh(s, TempOf(h)), TempOf(h), e, o), h, TempOf(h)), TempOf(h))

(* Lua assigns by copy (or move) and swap.                                 *)
LuaReset(s, h) ==
  IF IsEmpty(s, h) THEN s ELSE SetValue(Remove(Release(s, h), h), h, NoEngine, NoObject)
LuaFromLocal(s, h, e, o) == Keep(Retain(SetValue(s, h, e, o), h), h)
LuaCopyCtor(s, a, b) == AfterCopy(CopyValue(s, a, b), TRUE, a, b)
LuaMoveCtor(s, a, b) == AfterMove(MoveValue(s, a, b), TRUE, a, b)
LuaSwap(s, a, b) == AfterSwap(SwapValue(s, a, b), a, b)
LuaCopy(s, a, b) ==
  LET t == TempOf(a) IN LuaReset(LuaSwap(LuaCopyCtor(Fresh(s, t), t, b), t, a), t)
LuaMove(s, a, b) ==
  LET t == TempOf(a) IN LuaReset(LuaSwap(LuaMoveCtor(Fresh(s, t), t, b), t, a), t)
LuaAssignLocal(s, h, e, o) ==
  LET t == TempOf(h) IN LuaReset(LuaSwap(LuaFromLocal(Fresh(s, t), t, e, o), t, h), t)

(* Python: every constructor and assignment writes the refsKeeper, whether *)
(* or not there is a value; reset() does not, dtor() erases the key.       *)
PyUpdate(s, h) ==
  [s EXCEPT !.nodes = [e \in Engines |-> [@[e] EXCEPT ![h] = IF s.engine[h] = e THEN 1 ELSE 0]]]
PyErase(s, h) == [s EXCEPT !.nodes = [e \in Engines |-> [@[e] EXCEPT ![h] = 0]]]

PyReset(s, h) == [Release(s, h) EXCEPT !.object[h] = NoObject]
PyDtor(s, h) == PyErase(SetValue(Release(s, h), h, NoEngine, NoObject), h)
PyFromLocal(s, h, e, o) == PyUpdate(Retain(SetValue(s, h, e, o), h), h)
PyCopyCtor(s, a, b) == PyUpdate(CopyValue(s, a, b), a)
PyMoved(s, a, b) == [MoveValue(s, a, b) EXCEPT !.engine[b] = s.engine[b]]
PyMoveCtor(s, a, b) == PyUpdate(PyMoved(s, a, b), a)
PyCopy(s, a, b) == PyUpdate(CopyValue(s, a, b), a)
PyMove(s, a, b) == PyUpdate(PyMoved(s, a, b), a)
PySwap(s, a, b) == PyUpdate(PyUpdate(SwapValue(s, a, b), a), b)
PyAssignLocal(s, h, e, o) ==
  LET t == TempOf(h) IN PyDtor(PyMove(PyFromLocal(Fresh(s, t), t, e, o), h, t), t)

-----------------------------------------------------------------------------
(* The operations of Reference.h, in the engine of the EngineScope.        *)

FromLocal(s, h, e, o) ==
  CASE backend = "QuickJs"        -> QjsFromLocal(s, h, e, o)
    [] backend = "V8"             -> V8FromLocal(s, h, e, o)
    [] backend = "JavaScriptCore" -> JscFromLocal(s, h, e, o)
    [] backend = "Lua"            -> LuaFromLocal(s, h, e, o)
    [] backend = "Python"         -> PyFromLocal(s, h, e, o)

Copied(s, a, b) ==
  CASE backend = "QuickJs"        -> QjsCopy(s, a, b)
    [] backend = "V8"             -> V8Copy(s, a, b)
    [] backend = "JavaScriptCore" -> JscCopy(s, a, b)
    [] backend = "Lua"            -> LuaCopy(s, a, b)
    [] backend = "Python"         -> PyCopy(s, a, b)

Moved(s, a, b) ==
  CASE backend = "QuickJs"        -> QjsMove(s, a, b)
    [] backend = "V8"             -> V8Move(s, a, b)
    [] backend = "JavaScriptCore" -> JscMove(s, a, b)
    [] backend = "Lua"            -> LuaMove(s, a, b)
    [] backend = "Python"         -> PyMove(s, a, b)

Swapped(s, a, b) ==
  CASE backend = "QuickJs"        -> QjsSwap(s, a, b)
    [] backend = "V8"             -> V8Swap(s, a, b)
    [] backend = "JavaScriptCore" -> JscSwap(s, a, b)
    [] backend = "Lua"            -> LuaSwap(s, a, b)
    [] backend = "Python"         -> PySwap(s, a, b)

LocalAssigned(s, h, e, o) ==
  CASE backend = "QuickJs"        -> QjsAssignLocal(s, h, e, o)
    [] backend = "V8"             -> V8AssignLocal(s, h, e, o)
    [] backend = "JavaScriptCore" -> JscAssignLocal(s, h, e, o)
    [] backend = "Lua"            -> LuaAssignLocal(s, h, e, o)
    [] backend = "Python"         -> PyAssignLocal(s, h, e, o)

ResetOne(s, h) ==
  CASE backend = "QuickJs"        -> QjsReset(s, h)
    [] backend = "V8"             -> V8Reset(s, h)
    [] backend = "JavaScriptCore" -> JscReset(s, h)
    [] backend = "Lua"            -> LuaReset(s, h)
    [] backend = "Python"         -> PyReset(s, h)

(* QuickJs and JavaScriptCore construct empty and assign.                  *)
CopyConstructed(s, a, b) ==
  CASE backend = "V8"     -> V8CopyCtor(s, a, b)
    [] backend = "Lua"    -> LuaCopyCtor(s, a, b)
    [] backend = "Python" -> PyCopyCtor(s, a, b)
    [] OTHER              -> Copied(s, a, b)

MoveConstructed(s, a, b) ==
  CASE backend = "V8"     -> V8MoveCtor(s, a, b)
    [] backend = "Lua"    -> LuaMoveCtor(s, a, b)
    [] backend = "Python" -> PyMoveCtor(s, a, b)
    [] OTHER              -> Moved(s, a, b)

(* Only the Python constructor without arguments knows the engine.         *)
DefaultConstructed(s, h, e) ==
  IF backend = "Python" THEN PyUpdate(SetValue(s, h, e, NoObject), h) ELSE s

(* All destructors but Python's reset.                                     *)
Destructed(s, h) == IF backend = "Python" THEN PyDtor(s, h) ELSE ResetOne(s, h)

(* Only the default constructor may be called outside the reference's      *)
(* EngineScope (Reference.h:70): the program uses h in the scope of e. A   *)
(* Python reference that destroy() has taken is a null pointer, which only *)
(* a destructor or a new value may meet.                                   *)
Usable(e, h) ==
  /\ e \in running
  /\ h \in made
  /\ IsEmpty(refs, h) \/ refs.engine[h] = e
Readable(e, h) ==
  /\ Usable(e, h)
  /\ backend = "Python" => \E f \in running : refs.nodes[f][h] > 0
SameKind(a, b) == {a, b} \subseteq Globals \/ {a, b} \subseteq Weaks

(* Bounds: the program does not assign an empty reference to one that is   *)
(* not, which leaves the latter's node in the list, nor swap with a        *)
(* reference that another engine has emptied.                              *)
MayAssign(a, b) ==
  \/ backend \in {"Lua", "Python"}
  \/ IsEmpty(refs, a) \/ ~IsEmpty(refs, b)
MaySwap(e, a, b) == {refs.engine[a], refs.engine[b]} \subseteq {e, NoEngine}
Born(h) == h \notin made \cup Temps
LocalIn(e, o) == e \in running /\ o \in present /\ HomeOf[o] = e

ConstructEmpty(e, h) ==
  /\ Born(h)
  /\ refs' = DefaultConstructed(Fresh(refs, h), h, e)
  /\ made' = made \cup {h}
  /\ UNCHANGED <<running, present>>

ConstructFromLocal(e, h, o) ==
  /\ Born(h)
  /\ LocalIn(e, o)
  /\ refs' = FromLocal(Fresh(refs, h), h, e, o)
  /\ made' = made \cup {h}
  /\ UNCHANGED <<running, present>>

(* A Global from a Weak or a Weak from a Global, of the same value.        *)
Convert(e, a, b) ==
  /\ Born(a)
  /\ ~SameKind(a, b)
  /\ Readable(e, b)
  /\ refs.object[b] \in present
  /\ refs' = FromLocal(Fresh(refs, a), a, e, refs.object[b])
  /\ made' = made \cup {a}
  /\ UNCHANGED <<running, present>>

CopyConstruct(e, a, b) ==
  /\ Born(a)
  /\ SameKind(a, b)
  /\ Readable(e, b)
  /\ refs' = CopyConstructed(Fresh(refs, a), a, b)
  /\ made' = made \cup {a}
  /\ UNCHANGED <<running, present>>

MoveConstruct(e, a, b) ==
  /\ Born(a)
  /\ SameKind(a, b)
  /\ Readable(e, b)
  /\ refs' = MoveConstructed(Fresh(refs, a), a, b)
  /\ made' = made \cup {a}
  /\ UNCHANGED <<running, present>>

CopyAssign(e, a, b) ==
  /\ Usable(e, a) /\ Readable(e, b) /\ SameKind(a, b)
  /\ MayAssign(a, b)
  /\ a = b => backend # "Python"  \* frees its value before it counts it again
  /\ refs' = Copied(refs, a, b)
  /\ UNCHANGED <<made, running, present>>

MoveAssign(e, a, b) ==
  /\ Usable(e, a) /\ Readable(e, b) /\ SameKind(a, b)
  /\ a # b
  /\ MayAssign(a, b)
  /\ refs' = Moved(refs, a, b)
  /\ UNCHANGED <<made, running, present>>

Swap(e, a, b) ==
  /\ Readable(e, a) /\ Readable(e, b) /\ SameKind(a, b)
  /\ MaySwap(e, a, b)
  /\ refs' = Swapped(refs, a, b)
  /\ UNCHANGED <<made, running, present>>

AssignLocal(e, h, o) ==
  /\ Usable(e, h)
  /\ LocalIn(e, o)
  /\ refs' = LocalAssigned(refs, h, e, o)
  /\ UNCHANGED <<made, running, present>>

Reset(e, h) ==
  /\ Usable(e, h)
  /\ refs' = ResetOne(refs, h)
  /\ UNCHANGED <<made, running, present>>

(* The destructor enters the engine itself.                                *)
Destruct(h) ==
  /\ h \in made
  /\ refs' = Destructed(refs, h)
  /\ made' = made \ {h}
  /\ UNCHANGED <<running, present>>

(* destroy() of an engine: its objects go with it.                         *)
DestroyEngine(e) ==
  /\ e \in running
  /\ refs' = Clear(refs, e)
  /\ running' = running \ {e}
  /\ present' = {o \in present : HomeOf[o] # e}
  /\ UNCHANGED made

(* The collector takes an object that is not counted. V8 then empties the  *)
(* ref_ of its Weak references; Python's weakref yields None.              *)
Collect(o) ==
  /\ o \in present
  /\ refs.strong[o] = 0
  /\ present' = present \ {o}
  /\ refs' = IF backend \in {"V8", "Python"}
             THEN [refs EXCEPT !.object = [h \in Handles |-> IF h \in Weaks /\ @[h] = o THEN NoObject ELSE @[h]]]
             ELSE refs
  /\ UNCHANGED <<made, running>>

RefsNext ==
  \/ \E e \in running \cup {NoEngine}, h \in Handles : ConstructEmpty(e, h)
  \/ \E h \in Handles : Destruct(h)
  \/ \E e \in Engines, h \in Handles, o \in Objects :
       ConstructFromLocal(e, h, o) \/ AssignLocal(e, h, o)
  \/ \E e \in Engines, a, b \in Handles :
       \/ Convert(e, a, b) \/ CopyConstruct(e, a, b) \/ MoveConstruct(e, a, b)
       \/ CopyAssign(e, a, b) \/ MoveAssign(e, a, b) \/ Swap(e, a, b)
  \/ \E e \in Engines, h \in Handles : Reset(e, h)
  \/ \E e \in Engines : DestroyEngine(e)
  \/ \E o \in Objects : Collect(o)

-----------------------------------------------------------------------------

(* The lists are what destroy() relies on: a reference with a value is in  *)
(* the list of its engine, once, and its handle_ is that node; an empty    *)
(* one is in none (Python keeps it), and no list has a reference that is   *)
(* destructed, for clear() would reach through a dangling pointer.         *)
ListedOnce ==
  \A h \in Handles, e \in Engines :
    LET due == ~IsEmpty(refs, h) /\ refs.engine[h] = e
    IN  /\ refs.nodes[e][h] \in 0..1
        /\ due => refs.nodes[e][h] = 1
        /\ refs.nodes[e][h] = 1 => h \in made /\ (due \/ backend = "Python")
        /\ backend # "Python" => (refs.handle[h] = e <=> due)

(* The references counted on an object are those that hold it, however     *)
(* they were copied, moved and swapped: none is freed twice or leaked, and *)
(* the object of a Global is there.                                        *)
HoldersCounted ==
  \A o \in Objects :
    LET holders == {h \in Handles : Keeps(h) /\ refs.object[h] = o}
    IN  /\ refs.strong[o] = Cardinality(holders)
        /\ holders # {} => o \in present

(* "GlobalNotClear", "WeakNotClear" (ReferenceTest.cc:227-248): destroying *)
(* an engine empties every reference to it.                                *)
NoneOutlivesItsEngine ==
  \A h \in Handles : ~IsEmpty(refs, h) => refs.engine[h] \in running

(* Together: a reference with a value is listed, counted and its engine's. *)
ReferencesAreListed == ListedOnce /\ HoldersCounted /\ NoneOutlivesItsEngine
=============================================================================
