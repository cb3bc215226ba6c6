---------------------------- MODULE LocalCounts ----------------------------
(***************************************************************************)
(* The reference counts behind the Local references of QuickJs and Python: *)
(* which expressions of the backends add one, which take one over, which   *)
(* borrow. One engine and one thread: C++ code with Local variables, and   *)
(* native functions that scripts call, each with Locals of its own.        *)
(***************************************************************************)
EXTENDS Backend

CONSTANTS
  Counted,         \* values that are counted
  CountedStrings,  \* those that are strings,
  CountedBytes,    \* byte buffers,
  CountedArrays,   \* arrays; the others are objects
  Root,            \* the global object
  Nothing,         \* null, numbers and booleans
  MaxLocals,       \* bound: Local variables of all functions
  MaxCalls,        \* bound: native functions that run
  MaxCount,        \* bound: counts of one value
  MaxLost          \* bound: counts of one value that nothing gives back

VARIABLES
  heap,     \* counts, what the slots of containers hold, and whether something freed was used
  locals,
  holder,   \* the StringHolder of the innermost function
  natives,   \* the native functions that run
  global,   \* a Global
  kept,     \* what extendLifeTimeToNextLoop keeps
  lost      \* by value, the counts that were added and belong to nothing

countVars == <<backend, heap, locals, holder, natives, global, kept, lost>>

PlainObjects == Counted \ (CountedStrings \cup CountedBytes \cup CountedArrays)
(* Bound: of an object only its internal store is followed.                *)
Fields == {<<Root, "x">>} \cup (CountedArrays \X {"x"}) \cup (PlainObjects \X {"store"})
CountedValue == Counted \cup {Nothing}

(* pointer is the buffer that ByteBufferState::pointer_ points into.       *)
LocalVariable ==
  [type : {"Value", "Bytes"}, value : CountedValue, pointer : CountedValue, depth : 0..MaxCalls]
NoHolder == [value |-> Nothing, depth |-> 0]
NativeFrame == [argument : CountedValue, result : CountedValue, returns : BOOLEAN]

(* What the values and the bounds have to be.                              *)
CountsConstants ==
  /\ IsFiniteSet(Counted)
  /\ CountedStrings \subseteq Counted
  /\ CountedBytes \subseteq Counted /\ CountedArrays \subseteq Counted
  /\ Nothing \notin Counted /\ Root \notin Counted
  /\ MaxLocals \in Nat /\ MaxCalls \in Nat /\ MaxLost \in Nat

ASSUME CountsAssumption == CountsConstants

CountsTypeOK ==
  /\ heap.counts \in [Counted -> Nat]
  /\ heap.entries \in [Fields -> CountedValue]
  /\ locals \in Seq(LocalVariable) /\ Len(locals) <= MaxLocals
  /\ holder.value \in CountedStrings \cup {Nothing}
  /\ natives \in Seq(NativeFrame) /\ Len(natives) <= MaxCalls
  /\ global \in CountedValue /\ kept \in CountedValue
  /\ lost \in [Counted -> 0..MaxLost]

CountsInit ==
  /\ heap = [counts |-> [v \in Counted |-> 0], entries |-> [s \in Fields |-> Nothing],
             wild |-> FALSE]
  /\ locals = << >> /\ holder = NoHolder /\ natives = << >>
  /\ global = Nothing /\ kept = Nothing
  /\ lost = [v \in Counted |-> 0]

-----------------------------------------------------------------------------
(* The interpreters: JS_DupValue and Py_NewRef, JS_FreeValue and           *)
(* Py_DECREF. A value that nothing counts is freed with its slots.         *)

Inc(h, v) ==
  IF v = Nothing THEN h
  ELSE [h EXCEPT !.counts[v] = @ + 1, !.wild = @ \/ h.counts[v] = 0]

Swept(h) ==
  LET dead == {s \in Fields : s[1] # Root /\ h.entries[s] # Nothing /\ h.counts[s[1]] = 0}
  IN  IF dead = {} THEN h
      ELSE [h EXCEPT !.counts = [v \in Counted |->
                          h.counts[v] - Cardinality({s \in dead : h.entries[s] = v})],
                     !.entries = [s \in Fields |-> IF s \in dead THEN Nothing ELSE h.entries[s]]]

Dec(h, v) ==
  IF v = Nothing THEN h
  ELSE Swept(Swept(Swept([h EXCEPT !.counts[v] = @ - 1, !.wild = @ \/ h.counts[v] = 0])))

(* Bound: with a value that is freed at most three others are.             *)
ChainsEnd(h) ==
  \A s \in Fields : s[1] # Root /\ h.counts[s[1]] = 0 => h.entries[s] = Nothing

(* The slot takes a count over, and gives back that of what it had.        *)
PutEntry(h, slot, v) == Dec([h EXCEPT !.entries[slot] = v], h.entries[slot])

(* A new value, with the one count that its maker receives.                *)
Unused(v) == heap.counts[v] = 0
MadeValue(h, v) == [h EXCEPT !.counts[v] = 1]

-----------------------------------------------------------------------------

Depth == Len(natives)
Returning == Depth > 0 /\ natives[Depth].returns
Own == {i \in 1..Len(locals) : locals[i].depth = Depth}
Room == Len(locals) < MaxLocals

(* makeLocal and asLocal, which take a count over; that of a ByteBuffer in *)
(* QuickJs is a ByteBufferState.                                           *)
TypeOf(v) == IF v \in CountedBytes THEN "Bytes" ELSE "Value"
NewLocal(type, v) == [type |-> type, value |-> v, pointer |-> Nothing, depth |-> Depth]
PushLocal(l) == locals' = Append(locals, l)

(* The copy constructor. In QuickJs the copy of a ByteBufferState adds a   *)
(* count, and then that of the Local, as for every type, another.          *)
StateCopied(h, l) == IF l.type = "Bytes" THEN Inc(h, l.value) ELSE h
QjsCopied(h, l) == Inc(StateCopied(h, l), l.value)

(* Mutant: one count for the two Locals.                                   *)
CopyUncounted(h, l) == h
PyCopied(h, l) == Inc(h, l.value)
Copied(h, l) == IF backend = "QuickJs" THEN QjsCopied(h, l) ELSE PyCopied(h, l)

Twice(l) == backend = "QuickJs" /\ l.type = "Bytes" /\ l.value # Nothing
Loses(l) ==
  /\ Twice(l) => lost[l.value] < MaxLost
  /\ lost' = IF Twice(l) THEN [lost EXCEPT ![l.value] = @ + 1] ELSE lost

(* newObject, newString, newFunction, describe and the like.               *)
New(v) ==
  /\ Unused(v)
  /\ heap' = MadeValue(heap, v)
  /\ PushLocal(NewLocal("Value", v))
  /\ UNCHANGED <<holder, natives, global, kept, lost>>

NewByteBuffer(v) ==
  /\ Unused(v)
  /\ heap' = MadeValue(heap, v)
  /\ PushLocal(NewLocal("Bytes", v))
  /\ UNCHANGED <<holder, natives, global, kept, lost>>

CopyLocal(i) ==
  /\ heap' = Copied(heap, locals[i])
  /\ PushLocal([locals[i] EXCEPT !.depth = Depth])
  /\ Loses(locals[i])
  /\ UNCHANGED <<holder, natives, global, kept>>

Emptied(l) == [l EXCEPT !.value = Nothing, !.pointer = Nothing]

(* Mutant: the buffer's address stays in the Local that it was moved from. *)
MoveKeepingPointer(i) ==
  /\ locals' = Append([locals EXCEPT ![i].value = Nothing], locals[i])
  /\ UNCHANGED <<heap, holder, natives, global, kept, lost>>

MoveLocal(i) ==
  /\ locals' = Append([locals EXCEPT ![i] = Emptied(@)], locals[i])
  /\ UNCHANGED <<heap, holder, natives, global, kept, lost>>

(* QuickJs copies before it gives the old value back, Python afterwards.   *)
(* Bound: in Python no Local is assigned to itself.                        *)
QjsAssigned(i, j) == Dec(QjsCopied(heap, locals[j]), locals[i].value)
PyAssigned(i, j) == Inc(Dec(heap, locals[i].value), locals[j].value)

CopyAssign(i, j) ==
  /\ locals[i].type = locals[j].type
  /\ backend = "Python" => i # j
  /\ heap' = IF backend = "QuickJs" THEN QjsAssigned(i, j) ELSE PyAssigned(i, j)
  /\ locals' = [locals EXCEPT ![i].value = locals[j].value, ![i].pointer = locals[j].pointer]
  /\ Loses(locals[j])
  /\ UNCHANGED <<holder, natives, global, kept>>

(* A Local that is moved to itself keeps its value in QuickJs, and loses   *)
(* it in Python.                                                           *)
PyMovedToItself(i) ==
  /\ heap' = Dec(heap, locals[i].value)
  /\ locals' = [locals EXCEPT ![i] = Emptied(@)]
MovedToItself(i) ==
  IF backend = "QuickJs" THEN UNCHANGED <<heap, locals>> ELSE PyMovedToItself(i)

MoveAssign(i, j) ==
  /\ locals[i].type = locals[j].type
  /\ IF i = j THEN MovedToItself(i)
     ELSE /\ heap' = Dec(heap, locals[i].value)
          /\ locals' = [locals EXCEPT ![i].value = locals[j].value,
                                      ![i].pointer = locals[j].pointer, ![j] = Emptied(@)]
  /\ UNCHANGED <<holder, natives, global, kept, lost>>

Swap(i, j) ==
  /\ locals[i].type = locals[j].type
  /\ locals' = [locals EXCEPT ![i] = locals[j], ![j] = locals[i]]
  /\ UNCHANGED <<heap, holder, natives, global, kept, lost>>

Reset(i) ==
  /\ heap' = Dec(heap, locals[i].value)
  /\ locals' = [locals EXCEPT ![i] = Emptied(@)]
  /\ UNCHANGED <<holder, natives, global, kept, lost>>

(* asString, asObject and the like: dupValue, toLocal. A ByteBufferState   *)
(* that asByteBuffer makes does not count.                                 *)
As(i, type) ==
  /\ type = "Bytes" => locals[i].value \in CountedBytes
  /\ heap' = Inc(heap, locals[i].value)
  /\ PushLocal(NewLocal(type, locals[i].value))
  /\ UNCHANGED <<holder, natives, global, kept, lost>>
AsValue(i) == As(i, "Value")

(* ~Local. Locals end with their block; the StringHolder may be left.      *)
EndLocal ==
  /\ Len(locals) \in Own
  /\ heap' = Dec(heap, locals[Len(locals)].value)
  /\ locals' = SubSeq(locals, 1, Len(locals) - 1)
  /\ UNCHANGED <<holder, natives, global, kept, lost>>

(* getRawBytes and the like, in QuickJs: the buffer, its offset and its    *)
(* length are asked for once.                                              *)
FillTypeAndSize(i) ==
  /\ backend = "QuickJs" /\ locals[i].type = "Bytes"
  /\ locals' = [locals EXCEPT ![i].pointer = locals[i].value]
  /\ UNCHANGED <<heap, holder, natives, global, kept, lost>>

(* A StringHolder has a count of the string in QuickJs, none in Python.    *)
ToStringHolder(i) ==
  /\ holder = NoHolder
  /\ locals[i].value \in CountedStrings
  /\ holder' = [value |-> locals[i].value, depth |-> Depth]
  /\ heap' = IF backend = "QuickJs" THEN Inc(heap, locals[i].value) ELSE heap
  /\ UNCHANGED <<locals, natives, global, kept, lost>>

HolderFreed(h) == IF backend = "QuickJs" THEN Dec(h, holder.value) ELSE h

EndStringHolder ==
  /\ holder # NoHolder /\ holder.depth = Depth
  /\ heap' = HolderFreed(heap)
  /\ holder' = NoHolder
  /\ UNCHANGED <<locals, natives, global, kept, lost>>

-----------------------------------------------------------------------------
(* Globals and the objects of scripts                                      *)

(* A Global is made of a Local and moved to the one that there was.        *)
GlobalAssign(i) ==
  /\ heap' = Dec(Inc(heap, locals[i].value), global)
  /\ global' = locals[i].value
  /\ UNCHANGED <<locals, holder, natives, kept, lost>>
GlobalGet ==
  /\ global # Nothing
  /\ heap' = Inc(heap, global)
  /\ PushLocal(NewLocal(TypeOf(global), global))
  /\ UNCHANGED <<holder, natives, global, kept, lost>>
GlobalReset ==
  /\ heap' = Dec(heap, global)
  /\ global' = Nothing
  /\ UNCHANGED <<locals, holder, natives, kept, lost>>

Containers == {<<Root, "x">>} \cup ({<<locals[i].value, "x">> : i \in Own} \cap Fields)

(* Mutant: a borrowed value is taken for one that was counted.             *)
GetBorrowed(slot) ==
  /\ PushLocal(NewLocal("Value", heap.entries[slot]))
  /\ UNCHANGED <<heap, holder, natives, global, kept, lost>>

(* JS_GetProperty and getAttr return what they counted; toLocal counts     *)
(* what getDictItem and PyList_GetItem lend.                               *)
GetEntry(slot) ==
  /\ heap' = Inc(heap, heap.entries[slot])
  /\ PushLocal(NewLocal("Value", heap.entries[slot]))
  /\ UNCHANGED <<holder, natives, global, kept, lost>>

SetEntry(slot, i) ==
  /\ heap' = PutEntry(Inc(heap, locals[i].value), slot, locals[i].value)
  /\ UNCHANGED <<locals, holder, natives, global, kept, lost>>

RemoveSlot(slot) ==
  /\ heap' = PutEntry(heap, slot, Nothing)
  /\ UNCHANGED <<locals, holder, natives, global, kept, lost>>

(* newArrayImpl                                                            *)
NewArray(a, i) ==
  /\ Unused(a)
  /\ heap' = PutEntry(Inc(MadeValue(heap, a), locals[i].value), <<a, "x">>, locals[i].value)
  /\ PushLocal(NewLocal("Value", a))
  /\ UNCHANGED <<holder, natives, global, kept, lost>>

-----------------------------------------------------------------------------
(* Native objects                                                          *)

(* Mutant: the script object is kept with the count of ret, which ends.    *)
ConstructUncounted(c) ==
  /\ Unused(c) /\ kept = Nothing
  /\ heap' = Dec(MadeValue(heap, c), c)
  /\ kept' = c
  /\ UNCHANGED <<locals, holder, natives, global, lost>>

(* performConstructFromCpp: ret is counted for the next loop, and ends.    *)
ConstructFromCpp(c) ==
  /\ Unused(c) /\ kept = Nothing
  /\ heap' = Dec(Inc(MadeValue(heap, c), c), c)
  /\ kept' = c
  /\ UNCHANGED <<locals, holder, natives, global, lost>>
NextLoop ==
  /\ kept # Nothing
  /\ heap' = Dec(heap, kept)
  /\ kept' = Nothing
  /\ UNCHANGED <<locals, holder, natives, global, lost>>

(* getScriptObject, of an object that was not finalized.                   *)
GetScriptObject(c) ==
  /\ ~Unused(c)
  /\ heap' = Inc(heap, c)
  /\ PushLocal(NewLocal("Value", c))
  /\ UNCHANGED <<holder, natives, global, kept, lost>>

(* getInternalStore makes the array a unless there is one.                 *)
QjsStore(c, a) ==
  LET store == heap.entries[<<c, "store">>]
  IN  IF store \in CountedArrays
      THEN /\ heap' = Inc(heap, store)
           /\ PushLocal(NewLocal("Value", store))
      ELSE /\ Unused(a)
           /\ heap' = PutEntry(Inc(MadeValue(Dec(Inc(heap, store), store), a), a),
                               <<c, "store">>, a)
           /\ PushLocal(NewLocal("Value", a))

(* What PyObject_GetAttrString returns is counted, and what was found at   *)
(* first is never given back: toLocal counts once more.                    *)
PyStore(c, a) ==
  LET store == heap.entries[<<c, "store">>]
      found == Inc(heap, store)
      put   == Dec(PutEntry(Inc(MadeValue(found, a), a), <<c, "store">>, a), a)
  IN  IF store \in CountedArrays
      THEN /\ heap' = Inc(found, store)
           /\ PushLocal(NewLocal("Value", store))
      ELSE /\ Unused(a)
           /\ heap' = Inc(Inc(put, a), a)
           /\ PushLocal(NewLocal("Value", a))

PyLoses(c, a) ==
  LET store == heap.entries[<<c, "store">>]
      again == IF store \in CountedArrays THEN {store} ELSE {a, store} \ {Nothing}
  IN  /\ \A v \in again : lost[v] < MaxLost
      /\ lost' = [v \in Counted |-> IF v \in again THEN lost[v] + 1 ELSE lost[v]]

GetInternalStore(c, a) ==
  /\ ~Unused(c)
  /\ IF backend = "QuickJs" THEN QjsStore(c, a) /\ UNCHANGED lost
     ELSE PyStore(c, a) /\ PyLoses(c, a)
  /\ UNCHANGED <<holder, natives, global, kept>>

-----------------------------------------------------------------------------
(* Calls                                                                   *)

(* A function of the script, which gets the argument i and may store it,   *)
(* and the result, which callImpl takes over. The arguments are borrowed   *)
(* in QuickJs, a tuple's own in Python.                                    *)
Passed(h, v) == IF backend = "Python" THEN Inc(h, v) ELSE h
TakenBack(h, v) == IF backend = "Python" THEN Dec(h, v) ELSE h

CallScript(i, stores, slot) ==
  LET v      == locals[i].value
      passed == Passed(heap, v)
      stored == IF stores THEN PutEntry(Inc(passed, v), <<Root, "x">>, v) ELSE passed
      result == stored.entries[slot]
  IN  /\ heap' = TakenBack(Inc(stored, result), v)
      /\ PushLocal(NewLocal("Value", result))
      /\ UNCHANGED <<holder, natives, global, kept, lost>>

(* A script calls a native function with what is in the slot.              *)
CallNative(slot) ==
  /\ Depth < MaxCalls
  /\ holder = NoHolder
  /\ heap' = Inc(heap, heap.entries[slot])
  /\ natives' = Append(natives, [argument |-> heap.entries[slot], result |-> Nothing,
                                 returns |-> FALSE])
  /\ UNCHANGED <<locals, holder, global, kept, lost>>

(* Arguments::operator[] and thiz                                          *)
Argument ==
  /\ Depth > 0
  /\ heap' = Inc(heap, natives[Depth].argument)
  /\ PushLocal(NewLocal("Value", natives[Depth].argument))
  /\ UNCHANGED <<holder, natives, global, kept, lost>>

(* Mutant: the interpreter is lent the result, as by peekLocal.            *)
ReturnLent(i) ==
  /\ Depth > 0
  /\ natives' = [natives EXCEPT ![Depth].result = locals[i].value, ![Depth].returns = TRUE]
  /\ UNCHANGED <<heap, locals, holder, global, kept, lost>>

(* A native function returns, or throws, the value of a Local, which is    *)
(* counted for the interpreter before that Local ends.                     *)
Return(i) ==
  /\ Depth > 0
  /\ heap' = Inc(heap, locals[i].value)
  /\ natives' = [natives EXCEPT ![Depth].result = locals[i].value, ![Depth].returns = TRUE]
  /\ UNCHANGED <<locals, holder, global, kept, lost>>

(* A caller in C++ takes the result over, a script drops it.               *)
LeaveNative(taken) ==
  LET frame == natives[Depth]
      left  == Dec(heap, frame.argument)
  IN  /\ Own = {} /\ holder = NoHolder
      /\ taken => Room
      /\ heap' = IF taken THEN left ELSE Dec(left, frame.result)
      /\ locals' = IF taken
                   THEN Append(locals, [NewLocal("Value", frame.result) EXCEPT !.depth = Depth - 1])
                   ELSE locals
      /\ natives' = SubSeq(natives, 1, Depth - 1)
      /\ UNCHANGED <<holder, global, kept, lost>>

(* Scripts assign, delete, and, in Python, reach the internal store.       *)
ScriptSets(slot, v) ==
  /\ slot[2] = "store" => backend = "Python"
  /\ slot[1] # Root => ~Unused(slot[1])
  /\ heap' = PutEntry(Inc(heap, v), slot, v)
  /\ UNCHANGED <<locals, holder, natives, global, kept, lost>>

-----------------------------------------------------------------------------

CountsRun ==
  \/ Room /\ \/ \E v \in Counted \ CountedBytes : New(v)
             \/ \E v \in CountedBytes : NewByteBuffer(v)
             \/ \E i \in Own : CopyLocal(i) \/ MoveLocal(i) \/ AsValue(i) \/ As(i, "Bytes")
             \/ GlobalGet
             \/ \E slot \in Containers : GetEntry(slot)
             \/ \E a \in CountedArrays, i \in Own : locals[i].value # a /\ NewArray(a, i)
             \/ \E c \in PlainObjects : GetScriptObject(c)
             \/ \E c \in PlainObjects, a \in CountedArrays : GetInternalStore(c, a)
             \/ \E i \in Own, stores \in BOOLEAN : CallScript(i, stores, <<Root, "x">>)
             \/ Argument
  \/ \E i, j \in Own : CopyAssign(i, j) \/ MoveAssign(i, j) \/ Swap(i, j)
  \/ \E i \in Own : \/ Reset(i) \/ FillTypeAndSize(i) \/ ToStringHolder(i) \/ GlobalAssign(i)
                    \/ \E slot \in Containers : SetEntry(slot, i)
                    \/ Return(i)
  \/ GlobalReset \/ NextLoop
  \/ \E slot \in Containers : RemoveSlot(slot) \/ CallNative(slot)
  \/ \E c \in PlainObjects : ConstructFromCpp(c)
  \/ \E slot \in Fields, v \in {heap.entries[s] : s \in Fields} \cup {Nothing} :
       ScriptSets(slot, v)

CountsNext ==
  /\ \/ ~Returning /\ CountsRun
     \/ EndLocal \/ EndStringHolder
     \/ Returning /\ \E taken \in BOOLEAN : LeaveNative(taken)
  /\ ChainsEnd(heap')
  /\ \A v \in Counted : heap'.counts[v] <= MaxCount
  /\ UNCHANGED backend

CountsSpec ==
  backend \in {"QuickJs", "Python"} /\ CountsInit /\ [][CountsNext]_countVars

-----------------------------------------------------------------------------

Owners(v) ==
  Cardinality({i \in 1..Len(locals) : locals[i].value = v})
  + Cardinality({s \in Fields : heap.entries[s] = v})
  + Cardinality({d \in 1..Len(natives) : natives[d].argument = v})
  + Cardinality({d \in 1..Len(natives) : natives[d].result = v})
  + (IF global = v THEN 1 ELSE 0) + (IF kept = v THEN 1 ELSE 0)
  + (IF backend = "QuickJs" /\ holder.value = v THEN 1 ELSE 0)

(* Every count of a value belongs to one Local, Global, slot, argument,    *)
(* result or StringHolder, or was lost by the copy of a QuickJs ByteBuffer *)
(* or by getInternalStore in Python: whatever is held is alive, and what   *)
(* nothing holds is freed, unless it was lost.                             *)
CountsAreOwned == \A v \in Counted : heap.counts[v] = Owners(v) + lost[v]

(* Nothing was counted or given back after it was freed, even for a moment *)
(* in the middle of an assignment, a return or a call.                     *)
FreedIsUnused == ~heap.wild

(* The address that a Local<ByteBuffer> remembers is in its own buffer.    *)
PointersAreOwn ==
  \A i \in 1..Len(locals) : locals[i].pointer \in {Nothing, locals[i].value}

(* Together.                                                               *)
CountsAgree == CountsAreOwned /\ FreedIsUnused /\ PointersAreOwn
=============================================================================
