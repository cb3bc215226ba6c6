----------------------------- MODULE LocalStack ----------------------------
(***************************************************************************)
(* The Local references of Lua and WebAssembly: positions in a stack that  *)
(* StackFrameScopes, function calls and exceptions cut back. slots is the  *)
(* whole stack, so the positions of Lua, which count from the function     *)
(* that runs, are moved to its beginning.                                  *)
(***************************************************************************)
EXTENDS Backend

CONSTANTS
  Values,       \* of scripts
  Strings,      \* those that are strings
  Nil,
  Array,        \* the array that callFunction makes of several results
  Handler,      \* luaErrorMessageHandler
  MaxSlots,     \* bound: length of the stack
  MaxLocals,    \* bound: Local variables of all functions that run
  MaxScopes     \* bound: frames and calls

ASSUME LocalStackAssumption ==
  /\ Strings \subseteq Values
  /\ {Nil, Array, Handler} \cap Values = {} /\ Nil # Handler
  /\ {MaxSlots, MaxLocals, MaxScopes} \subseteq Nat

VARIABLES
  slots,
  scopes,   \* the StackFrameScopes and native functions that are open
  locals    \* Local variables in the order of their declarations, with the
            \* value each was made for

stackVars == <<slots, scopes, locals>>

Slot == Values \cup {Nil, Array, Handler}

(* base is the slot that a frame reserves, or the one where the result of  *)
(* a call will be; ret the slot of a WebAssembly function's return value;  *)
(* outside counts the Locals that were declared before it.                 *)
Scope == [kind : {"frame", "call"}, base : 1..MaxSlots, ret : 0..MaxSlots,
          outside : 0..MaxLocals]

(* index is val_, 0 when empty.                                            *)
Local == [index : 0..MaxSlots, value : Slot]

StackTypeOK ==
  /\ slots \in Seq(Slot) /\ Len(slots) <= MaxSlots
  /\ scopes \in Seq(Scope) /\ Len(scopes) <= MaxScopes
  /\ locals \in Seq(Local) /\ Len(locals) <= MaxLocals

StackInit == slots = << >> /\ scopes = << >> /\ locals = << >>

-----------------------------------------------------------------------------

Depth == Len(scopes)
Top == Len(slots)

(* The locals that the running function can name, and those of the        *)
(* innermost scope.                                                        *)
Visible ==
  {i \in 1..Len(locals) :
     \A d \in 1..Depth : scopes[d].kind = "call" => i > scopes[d].outside}
Own == {i \in 1..Len(locals) : Depth > 0 => i > scopes[Depth].outside}

NewLocal(index, value) == [index |-> index, value |-> value]
EmptyLocal == NewLocal(0, Nil)
NewScope(kind, ret) ==
  [kind |-> kind, base |-> Top + 1, ret |-> ret, outside |-> Len(locals)]
Cut(s, top) == SubSeq(s, 1, top)   \* lua_settop, Stack::setTop

(* What pushValue pushes, and Stack::set copies, for a Local.              *)
ValueAt(i) == IF locals[i].index = 0 THEN Nil ELSE slots[locals[i].index]

(* newObject, newString, get, describe, Global::get and the like.          *)
PushNew(v) ==
  /\ slots' = Append(slots, v)
  /\ locals' = Append(locals, NewLocal(Top + 1, v))
  /\ UNCHANGED scopes

(* Copies of a Local: Lua duplicates the slot.                             *)
LuaCopied(i) ==
  IF locals[i].index = 0 THEN [top |-> slots, index |-> 0]
  ELSE [top |-> Append(slots, ValueAt(i)), index |-> Top + 1]
WasmCopied(i) == [top |-> slots, index |-> locals[i].index]
CopyOf(i) == IF backend = "Lua" THEN LuaCopied(i) ELSE WasmCopied(i)

CopyLocal(i) ==
  /\ slots' = CopyOf(i).top
  /\ locals' = Append(locals, NewLocal(CopyOf(i).index, locals[i].value))
  /\ UNCHANGED scopes

(* operator=: copy and swap. Bound: not from a frame to a variable that    *)
(* outlives it, which only returnValue may do.                             *)
AssignLocalVariable(i, j) ==
  /\ slots' = CopyOf(j).top
  /\ locals' = [locals EXCEPT ![i] = NewLocal(CopyOf(j).index, locals[j].value)]
  /\ UNCHANGED scopes

MoveLocal(i) ==
  /\ locals' = Append([locals EXCEPT ![i] = EmptyLocal],
                      NewLocal(locals[i].index, locals[i].value))
  /\ UNCHANGED <<slots, scopes>>

(* asString, asValue...: a second Local with the same slot.                *)
AliasLocal(i) ==
  /\ locals[i].index # 0
  /\ locals' = Append(locals, NewLocal(locals[i].index, locals[i].value))
  /\ UNCHANGED <<slots, scopes>>

(* Lua writes nil to the slot. Bound: no other Local has it.               *)
LuaResetSlot(i) ==
  /\ \A j \in 1..Len(locals) : j # i => locals[j].index # locals[i].index
  /\ slots' = IF locals[i].index = 0 THEN slots ELSE [slots EXCEPT ![locals[i].index] = Nil]
WasmResetSlot(i) == UNCHANGED slots

ResetLocal(i) ==
  /\ IF backend = "Lua" THEN LuaResetSlot(i) ELSE WasmResetSlot(i)
  /\ locals' = [locals EXCEPT ![i] = EmptyLocal]
  /\ UNCHANGED scopes

(* ~Local: the slot stays.                                                 *)
EndLocal ==
  /\ Len(locals) \in Own
  /\ locals' = Cut(locals, Len(locals) - 1)
  /\ UNCHANGED <<slots, scopes>>

(* Mutant: the Local is the copy of the key, which lua_next pops.          *)
LuaKeysOfCopy(keys) ==
  [top |-> slots \o keys, made |-> [n \in 1..Len(keys) |-> NewLocal(Top + n + 1, keys[n])]]

(* getKeys, whose result is the keys that are strings. lua_next pops a key *)
(* and the next key's value; a string is duplicated before, so that it is  *)
(* left. JavaScript makes an array of the strings first.                   *)
LuaKeys(keys) ==
  [top |-> slots \o keys, made |-> [n \in 1..Len(keys) |-> NewLocal(Top + n, keys[n])]]
WasmKeys(keys) ==
  [top |-> Append(slots, Array) \o keys,
   made |-> [n \in 1..Len(keys) |-> NewLocal(Top + 1 + n, keys[n])]]

GetKeys(keys) ==
  LET result == IF backend = "Lua" THEN LuaKeys(keys) ELSE WasmKeys(keys)
  IN  /\ slots' = result.top
      /\ locals' = locals \o result.made
      /\ UNCHANGED scopes

-----------------------------------------------------------------------------
(* StackFrameScope                                                         *)

OpenFrame ==
  /\ slots' = Append(slots, Nil)
  /\ scopes' = Append(scopes, NewScope("frame", 0))
  /\ UNCHANGED locals

LeaveScope == scopes' = Cut(scopes, Depth - 1)
Outer == Cut(locals, scopes[Depth].outside)
RoomOutside == scopes[Depth].outside < MaxLocals

CloseFrame ==
  /\ Depth > 0 /\ scopes[Depth].kind = "frame"
  /\ slots' = Cut(slots, scopes[Depth].base - 1)
  /\ locals' = Outer
  /\ LeaveScope

(* returnValue, followed by the destructor.                                *)
Returned(i) == Cut([slots EXCEPT ![scopes[Depth].base] = ValueAt(i)], scopes[Depth].base)

ReturnFromFrame(i) ==
  /\ Depth > 0 /\ scopes[Depth].kind = "frame"
  /\ RoomOutside
  /\ slots' = Returned(i)
  /\ locals' = Append(Outer, NewLocal(scopes[Depth].base, locals[i].value))
  /\ LeaveScope

-----------------------------------------------------------------------------
(* Calls. passed is the arguments and this, if it is not empty.            *)

(* The end of callFunction, on the stack s that the caller had: nothing,   *)
(* one value, or an array of them.                                         *)
LuaResults(s, results) ==
  CASE Len(results) = 0 -> [top |-> s, index |-> 0, value |-> Nil]
    [] Len(results) = 1 -> [top |-> s \o results, index |-> Len(s) + 1, value |-> results[1]]
    [] OTHER            -> [top |-> Append(s, Array), index |-> Len(s) + 1, value |-> Array]
WasmResult(s, result) == [top |-> Append(s, result), index |-> Len(s) + 1, value |-> result]

LastOf(results) == IF results = << >> THEN Nil ELSE results[Len(results)]

(* A function of the script, or eval.                                      *)
CallScript(results) ==
  LET done == IF backend = "Lua" THEN LuaResults(slots, results)
              ELSE WasmResult(slots, LastOf(results))
  IN  /\ slots' = done.top
      /\ locals' = Append(locals, NewLocal(done.index, done.value))
      /\ UNCHANGED scopes

(* Lua: handler, function, arguments. WebAssembly: the frame of the caller *)
(* has a slot, function and arguments are taken off, and the wrapper that  *)
(* is called pushes this, the arguments and the slot of the return value.  *)
LuaCall(func, values) == [top |-> slots \o <<Handler, func>> \o values, args |-> Top + 2, ret |-> 0]
WasmCall(this, values) ==
  LET pushed == slots \o <<Nil, this>> \o values
  IN  [top |-> Append(pushed, Nil), args |-> Top + 2, ret |-> Len(pushed) + 1]

CallNative(f, passed) ==
  LET values == [n \in 1..Len(passed) |-> ValueAt(passed[n])]
      call   == IF backend = "Lua" THEN LuaCall(ValueAt(f), values) ELSE WasmCall(Nil, values)
  IN  /\ slots' = call.top
      /\ scopes' = Append(scopes, NewScope("call", call.ret))
      /\ locals' = locals \o [n \in 1..Len(passed) |-> NewLocal(call.args + n, values[n])]

InCall == Depth > 0 /\ scopes[Depth].kind = "call"

(* What JavaScript receives is the top of the stack: the EngineScope is    *)
(* inside the caller's and cuts nothing. Bound: the function returns what  *)
(* it has pushed last; WasmCalls has the others.                           *)
WasmReceived(i) == IF scopes[Depth].ret = Top THEN ValueAt(i) ELSE slots[Top]
ReturnsLast(i) == backend = "WebAssembly" => Top = scopes[Depth].ret \/ locals[i].index = Top

ReturnFromCall(i) ==
  LET caller == Cut(slots, scopes[Depth].base - 1)
      done   == IF backend = "WebAssembly" THEN WasmResult(caller, WasmReceived(i))
                ELSE LuaResults(caller, IF locals[i].index = 0 THEN << >> ELSE <<ValueAt(i)>>)
  IN  /\ InCall
      /\ RoomOutside /\ ReturnsLast(i)
      /\ slots' = done.top
      /\ locals' = Append(Outer, NewLocal(done.index, locals[i].value))
      /\ LeaveScope

(* An exception leaves the frames of the innermost function, and the call; *)
(* the caller, if it catches it, asks for exception().                     *)
Throw(v) ==
  \E d \in 1..Depth :
    /\ scopes[d].kind = "call"
    /\ \A c \in d + 1..Depth : scopes[c].kind # "call"
    /\ scopes[d].outside < MaxLocals
    /\ slots' = Append(Cut(slots, scopes[d].base - 1), v)
    /\ locals' = Append(Cut(locals, scopes[d].outside), NewLocal(scopes[d].base, v))
    /\ scopes' = Cut(scopes, d - 1)

-----------------------------------------------------------------------------

Room(n, m) == Top + n <= MaxSlots /\ Len(locals) + m <= MaxLocals
Lists(S, n) == UNION {[1..m -> S] : m \in 0..n}

StackNext ==
  \/ Room(1, 1) /\ \E v \in Values : PushNew(v)
  \/ \E i \in Visible :
       \/ Room(1, 1) /\ CopyLocal(i)
       \/ Room(0, 1) /\ (MoveLocal(i) \/ AliasLocal(i))
       \/ ResetLocal(i)
       \/ ReturnFromFrame(i) \/ ReturnFromCall(i)
  \/ Room(1, 0) /\ \E i \in Own, j \in Visible : i # j /\ AssignLocalVariable(i, j)
  \/ EndLocal
  \/ Room(3, 2) /\ \E keys \in Lists(Strings, 2) : GetKeys(keys)
  \/ Room(1, 0) /\ Depth < MaxScopes /\ OpenFrame
  \/ CloseFrame
  \/ Room(1, 1) /\ \E results \in Lists(Values, 2) : CallScript(results)
  \/ Depth < MaxScopes /\ \E f \in Visible, passed \in Lists(Visible, 1) :
       Room(3 + Len(passed), Len(passed)) /\ CallNative(f, passed)
  \/ \E v \in Values : Throw(v)

-----------------------------------------------------------------------------

(* "All Local<T> reference are jailed inside this scope" (Scope.h:186): a  *)
(* Local designates its value as long as it lives, whatever is pushed,     *)
(* cut back, returned and thrown above it, and none is left above the top. *)
LocalsDesignate ==
  \A i \in 1..Len(locals) :
    IF locals[i].index = 0 THEN locals[i].value = Nil
    ELSE locals[i].index <= Top /\ slots[locals[i].index] = locals[i].value
=============================================================================
