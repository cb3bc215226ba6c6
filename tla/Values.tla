------------------------------- MODULE Values -------------------------------
(***************************************************************************)
(* The values of the scripts as a C++ program sees them: their kinds,      *)
(* equality, and the members of Local<Object> and Local<Array>, in each    *)
(* backend. One engine, one thread.                                        *)
(***************************************************************************)
EXTENDS Backend, Naturals

CONSTANTS
  Cells,     \* objects and arrays, numbered from 1
  Keys,      \* names of properties
  MaxSize,   \* bound: the largest array
  Nulls,     \* bound: whether arrays of Lua are given null, or elements past their end,
             \* and references to nothing are compared
  Misses     \* bound: whether Python's containers are asked for what they do not have

VARIABLES
  cells,
  pending,   \* Python's error indicator
  result     \* of the last operation

valueVars == <<backend, cells, pending, result>>

JsBackends == {"QuickJs", "V8", "JavaScriptCore", "WebAssembly"}

(* Data is told apart by its class. Unset is an item of a Python list that *)
(* is a null pointer.                                                      *)
Null == "null"
Data == {Null, "string", "number"}
Unset == "unset"
Threw == "threw"

(* A container: as what the program made it, its own properties or its     *)
(* elements, the length of an array, and what an object inherits from (a   *)
(* prototype, or __index of a metatable).                                  *)
NoParent == 0
Cell(made, at, size) == [made |-> made, at |-> at, size |-> size, parent |-> NoParent]
NoCell == Cell("none", <<>>, 0)
EmptyObject == Cell("object", <<>>, 0)

Result(op, c, ret) == [op |-> op, cell |-> c, ret |-> ret]

Put(f, k, v) == [x \in DOMAIN f \cup {k} |-> IF x = k THEN v ELSE f[x]]
Drop(f, k) == [x \in DOMAIN f \ {k} |-> f[x]]
FromZero(s) == [i \in 0..Len(s) - 1 |-> s[i + 1]]

Objects == {c \in Cells : cells[c].made = "object"}
Arrays == {c \in Cells : cells[c].made = "array"}
Inherited(cell) == IF cell.parent \in Objects THEN cells[cell.parent].at ELSE <<>>

(* A property of the object or of what it inherits from.                   *)
Look(cell, k) ==
  IF k \in DOMAIN cell.at THEN cell.at[k]
  ELSE IF k \in DOMAIN Inherited(cell) THEN Inherited(cell)[k]
  ELSE Null

ValuesInit ==
  /\ backend \in BackendNames
  /\ cells = [c \in Cells |-> NoCell]
  /\ pending = FALSE
  /\ result = Result("none", NoParent, Null)

-----------------------------------------------------------------------------
(* The members of Local<Object> on an object, for key k and value v.       *)

JsObject(cell, k, v) ==   \* what JavaScript does
  [get    |-> Look(cell, k),
   has    |-> k \in DOMAIN cell.at \cup DOMAIN Inherited(cell),
   set    |-> [cell EXCEPT !.at = Put(@, k, v)],
   remove |-> [cell EXCEPT !.at = Drop(@, k)]]

V8Object(cell, k, v) == JsObject(cell, k, v)
QjsObject(cell, k, v) == JsObject(cell, k, v)
JscObject(cell, k, v) == JsObject(cell, k, v)
WasmObject(cell, k, v) == [JsObject(cell, k, v) EXCEPT !.has = k \in DOMAIN cell.at]

(* Mutant: remove leaves a null behind.                                    *)
LuaObjectKeeps(cell, k, v) ==
  [get    |-> Look(cell, k),
   has    |-> Look(cell, k) # Null,
   set    |-> [cell EXCEPT !.at = Put(@, k, v)],
   remove |-> [cell EXCEPT !.at = Put(@, k, Null)]]
(* A table has no nulls.                                                   *)
LuaObject(cell, k, v) ==
  [get    |-> Look(cell, k),
   has    |-> Look(cell, k) # Null,
   set    |-> [cell EXCEPT !.at = IF v = Null THEN Drop(@, k) ELSE Put(@, k, v)],
   remove |-> [cell EXCEPT !.at = Drop(@, k)]]

(* A missing key is null, unless an error is pending from before.          *)
PyObject(cell, k, v) ==
  [get    |-> IF k \notin DOMAIN cell.at /\ pending THEN Threw ELSE Look(cell, k),
   has    |-> k \in DOMAIN cell.at,
   set    |-> [cell EXCEPT !.at = Put(@, k, v)],
   remove |-> [cell EXCEPT !.at = Drop(@, k)]]

Members(cell, k, v) ==
  CASE backend = "V8"             -> V8Object(cell, k, v)
    [] backend = "QuickJs"        -> QjsObject(cell, k, v)
    [] backend = "JavaScriptCore" -> JscObject(cell, k, v)
    [] backend = "WebAssembly"    -> WasmObject(cell, k, v)
    [] backend = "Lua"            -> LuaObject(cell, k, v)
    [] backend = "Python"         -> PyObject(cell, k, v)

V8Keys(cell) == DOMAIN cell.at
QjsKeys(cell) == DOMAIN cell.at
JscKeys(cell) == DOMAIN cell.at \cup DOMAIN Inherited(cell)
WasmKeys(cell) == DOMAIN cell.at
LuaKeys(cell) == DOMAIN cell.at
PyKeys(cell) == DOMAIN cell.at

KeysOf(cell) ==
  CASE backend = "V8"             -> V8Keys(cell)
    [] backend = "QuickJs"        -> QjsKeys(cell)
    [] backend = "JavaScriptCore" -> JscKeys(cell)
    [] backend = "WebAssembly"    -> WasmKeys(cell)
    [] backend = "Lua"            -> LuaKeys(cell)
    [] backend = "Python"         -> PyKeys(cell)

-----------------------------------------------------------------------------
(* The members of Local<Array> on an array, for index i and value v: size, *)
(* add and clear may have several outcomes.                                *)

Larger(m, n) == IF m < n THEN n ELSE m

JsSet(cell, i, v) == [cell EXCEPT !.at = Put(@, i, v), !.size = Larger(@, i + 1)]
JsArray(cell, i, v) ==   \* what JavaScript does, and add, which is set(size(), value)
  [sizes  |-> {cell.size},
   get    |-> Look(cell, i),
   set    |-> JsSet(cell, i, v),
   adds   |-> {JsSet(cell, cell.size, v)},
   clears |-> {Cell("array", <<>>, 0)}]

V8Array(cell, i, v) == JsArray(cell, i, v)
QjsArray(cell, i, v) == JsArray(cell, i, v)
JscArray(cell, i, v) == JsArray(cell, i, v)
WasmArray(cell, i, v) == JsArray(cell, i, v)

(* luaL_len is any border of the table.                                    *)
Borders(cell) ==
  {n \in 0..MaxSize : (n = 0 \/ n \in DOMAIN cell.at) /\ n + 1 \notin DOMAIN cell.at}
LuaSet(cell, i, v) ==
  [cell EXCEPT !.at = IF v = Null THEN Drop(@, i + 1) ELSE Put(@, i + 1, v)]

(* Mutant: add counts the elements.                                        *)
LuaArrayCounts(cell, i, v) ==
  [sizes  |-> Borders(cell),
   get    |-> Look(cell, i + 1),
   set    |-> LuaSet(cell, i, v),
   adds   |-> {LuaSet(cell, Cardinality(DOMAIN cell.at), v)},
   clears |-> {[cell EXCEPT !.at = [j \in DOMAIN @ \ (1..n) |-> @[j]]] : n \in Borders(cell)}]
LuaArray(cell, i, v) ==
  [sizes  |-> Borders(cell),
   get    |-> Look(cell, i + 1),
   set    |-> LuaSet(cell, i, v),
   adds   |-> {LuaSet(cell, n, v) : n \in Borders(cell)},
   clears |-> {[cell EXCEPT !.at = [j \in DOMAIN @ \ (1..n) |-> @[j]]] : n \in Borders(cell)}]

(* set appends None up to the index first.                                 *)
PySet(cell, i, v) ==
  [cell EXCEPT !.at = Put([j \in 0..Larger(cell.size, i) - 1 |->
                             IF j \in DOMAIN @ THEN @[j] ELSE Null], i, v),
               !.size = Larger(@, i + 1)]
PyArray(cell, i, v) ==
  [sizes  |-> {cell.size},
   get    |-> IF Look(cell, i) = Unset THEN Null ELSE Look(cell, i),
   set    |-> PySet(cell, i, v),
   adds   |-> {PySet(cell, cell.size, v)},
   clears |-> {Cell("array", <<>>, 0)}]

Elements(cell, i, v) ==
  CASE backend = "V8"             -> V8Array(cell, i, v)
    [] backend = "QuickJs"        -> QjsArray(cell, i, v)
    [] backend = "JavaScriptCore" -> JscArray(cell, i, v)
    [] backend = "WebAssembly"    -> WasmArray(cell, i, v)
    [] backend = "Lua"            -> LuaArray(cell, i, v)
    [] backend = "Python"         -> PyArray(cell, i, v)

Size(cell) == Elements(cell, 0, Null).sizes
At(cell, i) == Elements(cell, i, Null).get

-----------------------------------------------------------------------------
(* Array::newArray: of a size, and of elements.                            *)

V8New(n, elements) ==
  [sized |-> Cell("array", <<>>, n), of |-> Cell("array", FromZero(elements), Len(elements))]
QjsNew(n, elements) ==
  [sized |-> Cell("array", <<>>, n), of |-> Cell("array", FromZero(elements), Len(elements))]
(* Mutant: the last element is one too far.                                *)
JscNewOneMore(n, elements) ==
  [sized |-> IF n = 0 THEN Cell("array", <<>>, 0) ELSE JsSet(Cell("array", <<>>, 0), n, Null),
   of    |-> Cell("array", FromZero(elements), Len(elements))]
(* The last of n elements is set to null.                                  *)
JscNew(n, elements) ==
  [sized |-> IF n = 0 THEN Cell("array", <<>>, 0) ELSE JsSet(Cell("array", <<>>, 0), n - 1, Null),
   of    |-> Cell("array", FromZero(elements), Len(elements))]
WasmNew(n, elements) ==
  [sized |-> Cell("array", <<>>, n), of |-> Cell("array", FromZero(elements), Len(elements))]
(* The size is a hint, and the elements are added one by one: a null adds  *)
(* nothing.                                                                *)
LuaNew(n, elements) ==
  [sized |-> Cell("array", <<>>, 0),
   of    |-> Cell("array", SelectSeq(elements, LAMBDA v : v # Null), 0)]
PyNew(n, elements) ==
  [sized |-> Cell("array", [i \in 0..n - 1 |-> Unset], n),
   of    |-> Cell("array", FromZero(elements), Len(elements))]

New(n, elements) ==
  CASE backend = "V8"             -> V8New(n, elements)
    [] backend = "QuickJs"        -> QjsNew(n, elements)
    [] backend = "JavaScriptCore" -> JscNew(n, elements)
    [] backend = "WebAssembly"    -> WasmNew(n, elements)
    [] backend = "Lua"            -> LuaNew(n, elements)
    [] backend = "Python"         -> PyNew(n, elements)

-----------------------------------------------------------------------------
(* Kinds. The scripts' values are told apart by class; for each test of    *)
(* Local<Value>, the classes that pass it.                                 *)

Tests(null, string, number, boolean, function, array, bytes, object) ==
  [Null |-> null, String |-> string, Number |-> number, Boolean |-> boolean,
   Function |-> function, Array |-> array, ByteBuffer |-> bytes, Object |-> object]

JsObjects == {"object", "bare", "array", "function", "bytes"}
JsClasses == JsObjects \cup {"undefined", "null", "string", "number", "boolean", "symbol"}
JsTests(objects) ==
  Tests({"undefined", "null"}, {"string"}, {"number"}, {"boolean"}, {"function"}, {"array"},
        {"bytes"}, objects)

V8Tests == JsTests(JsObjects)
QjsTests == JsTests(JsObjects)
JscTests == JsTests(JsObjects)
(* bare is an object without prototype: not an instance of Object.         *)
WasmTests == JsTests(JsObjects \ {"bare"})

(* The byte buffers of Lua are tables of their own class.                  *)
LuaClasses == {"nil", "string", "number", "boolean", "function", "userdata", "bytes",
               "sequence", "record"}
LuaTests ==
  Tests({"nil"}, {"string"}, {"number"}, {"boolean"}, {"function"}, {"sequence"},
        {"bytes"}, {"bytes", "sequence", "record"})

PyClasses == {"None", "str", "int", "float", "bool", "function", "list", "bytes", "dict",
              "type", "instance", "module"}
PyTests ==
  Tests({"None"}, {"str"}, {"int", "float"}, {"bool"}, {"function"}, {"list"},
        {"bytes"}, {"dict", "type", "instance"})

Classes ==
  CASE backend = "Lua"       -> LuaClasses
    [] backend = "Python"    -> PyClasses
    [] backend \in JsBackends -> JsClasses

Is ==
  CASE backend = "V8"             -> V8Tests
    [] backend = "QuickJs"        -> QjsTests
    [] backend = "JavaScriptCore" -> JscTests
    [] backend = "WebAssembly"    -> WasmTests
    [] backend = "Lua"            -> LuaTests
    [] backend = "Python"         -> PyTests

(* getKind: the first test passed.                                         *)
V8Order == <<"Null", "String", "Number", "Boolean", "Function", "Array", "ByteBuffer", "Object">>
QjsOrder == V8Order
JscOrder == <<"Null", "String", "Number", "Boolean", "Array", "Function", "ByteBuffer", "Object">>
WasmOrder == V8Order
LuaOrder == <<"Null", "String", "Number", "Boolean", "Function", "ByteBuffer", "Array", "Object">>
PyOrder == V8Order

KindOrder ==
  CASE backend = "V8"             -> V8Order
    [] backend = "QuickJs"        -> QjsOrder
    [] backend = "JavaScriptCore" -> JscOrder
    [] backend = "WebAssembly"    -> WasmOrder
    [] backend = "Lua"            -> LuaOrder
    [] backend = "Python"         -> PyOrder

Kind(class) ==
  LET passed == SelectSeq(KindOrder, LAMBDA test : class \in Is[test])
  IN  IF passed = <<>> THEN "Unsupported" ELSE Head(passed)

(* What a value of a class can be cast to: whatever test it passes.        *)
Casts(class) == {test \in DOMAIN Is : class \in Is[test]}

(* The class of a container. judgeIsArray goes through the keys of a table *)
(* in an order that Lua leaves open.                                       *)
ClassesOf(cell) ==
  CASE backend = "Lua" ->
         IF cell.at = <<>> THEN {"sequence"}
         ELSE IF cell.made = "object" \/ DOMAIN cell.at # 1..Cardinality(DOMAIN cell.at) THEN {"record"}
         ELSE IF Cardinality(DOMAIN cell.at) > 1 THEN {"sequence", "record"}
         ELSE {"sequence"}
    [] backend = "Python" -> {IF cell.made = "array" THEN "list" ELSE "dict"}
    [] backend \in JsBackends -> {cell.made}

-----------------------------------------------------------------------------
(* operator== on what two Local<Value> hold: values of a class, those of   *)
(* one class being the same value, or Empty, the reference to nothing of   *)
(* the backends that have one.                                             *)

Empty == "empty"
Nothings == {Empty} \cup Is.Null
Locals == Classes \cup (IF Nulls /\ backend \notin {"QuickJs", "Python"} THEN {Empty} ELSE {})

Crash == "crash"
Same(yes) == IF yes THEN "equal" ELSE "different"
JsEquals(a, b) == Same(IF a \in Nothings THEN b \in Nothings ELSE a = b)

V8Equals(a, b) ==   \* what the value is compared with is dereferenced
  IF a \notin Nothings /\ b = Empty THEN Crash ELSE JsEquals(a, b)
QjsEquals(a, b) == JsEquals(a, b)
JscEquals(a, b) == JsEquals(a, b)
WasmEquals(a, b) == JsEquals(a, b)
LuaEquals(a, b) == Same(a = b)   \* Empty equals Empty only
PyEquals(a, b) == Same(a = b)

Equals(a, b) ==
  CASE backend = "V8"             -> V8Equals(a, b)
    [] backend = "QuickJs"        -> QjsEquals(a, b)
    [] backend = "JavaScriptCore" -> JscEquals(a, b)
    [] backend = "WebAssembly"    -> WasmEquals(a, b)
    [] backend = "Lua"            -> LuaEquals(a, b)
    [] backend = "Python"         -> PyEquals(a, b)

-----------------------------------------------------------------------------
(* The operations of the program.                                          *)

Becomes(c, new, op) ==
  /\ cells' = [cells EXCEPT ![c] = new]
  /\ result' = Result(op, c, Null)
  /\ UNCHANGED <<backend, pending>>

Returns(op, c, ret) ==
  /\ result' = Result(op, c, ret)
  /\ UNCHANGED <<backend, cells, pending>>

(* Bound: an array is the only container; none but an object's parent has  *)
(* to do with another.                                                     *)
NoOther == \A c \in Cells : cells[c] = NoCell

MakeObject ==
  \E c \in Cells :
    /\ Arrays = {}
    /\ cells[c] = NoCell
    /\ Becomes(c, EmptyObject, "newObject")

(* A script makes an object that inherits from one of the program's.       *)
MakeHeir ==
  \E c \in Cells, p \in Objects :
    /\ backend # "Python"
    /\ cells[c] = NoCell
    /\ cells[p].parent = NoParent
    /\ Becomes(c, [EmptyObject EXCEPT !.parent = p], "newObject")

MakeArray ==
  \E c \in Cells, n \in 0..MaxSize :
    /\ NoOther
    /\ Becomes(c, New(n, <<>>).sized, "newArray")

Storable == IF backend = "Lua" /\ ~Nulls THEN Data \ {Null} ELSE Data

MakeArrayOf ==
  \E c \in Cells, n \in 0..MaxSize : \E elements \in [1..n -> Storable] :
    /\ NoOther
    /\ Becomes(c, New(n, elements).of, "newArray")

ObjectGet ==
  \E c \in Objects, k \in Keys : Returns("get", c, Members(cells[c], k, Null).get)
ObjectHas ==
  \E c \in Objects, k \in Keys : Returns("has", c, Members(cells[c], k, Null).has)
ObjectKeys == \E c \in Objects : Returns("keys", c, KeysOf(cells[c]))
ObjectSet ==
  \E c \in Objects, k \in Keys, v \in Data : Becomes(c, Members(cells[c], k, v).set, "set")

(* PyDict_DelItem complains of a key that is not there, and nobody looks.  *)
ObjectRemove ==
  \E c \in Objects, k \in Keys :
    LET missed == backend = "Python" /\ k \notin DOMAIN cells[c].at
    IN  /\ missed => Misses
        /\ cells' = [cells EXCEPT ![c] = Members(cells[c], k, Null).remove]
        /\ pending' = (pending \/ missed)
        /\ result' = Result("remove", c, Null)
        /\ UNCHANGED backend

ArraySize == \E c \in Arrays : \E n \in Size(cells[c]) : Returns("size", c, n)

(* PyList_GetItem of an index out of range or an item without value: null, *)
(* and the former leaves an error.                                         *)
ArrayGet ==
  \E c \in Arrays, i \in 0..MaxSize :
    LET missed == backend = "Python" /\ i >= cells[c].size
    IN  /\ missed => Misses
        /\ pending' = (pending \/ missed)
        /\ result' = Result("get", c, At(cells[c], i))
        /\ UNCHANGED <<backend, cells>>

ArraySet ==
  \E c \in Arrays, i \in 0..MaxSize - 1, v \in Storable :
    /\ backend = "Lua" /\ ~Nulls => i \in 0..Cardinality(DOMAIN cells[c].at)
    /\ Becomes(c, Elements(cells[c], i, v).set, "set")

ArrayAdd ==
  \E c \in Arrays, v \in Storable :
    /\ \A n \in Size(cells[c]) : n < MaxSize
    /\ \E new \in Elements(cells[c], 0, v).adds : Becomes(c, new, "add")

ArrayClear ==
  \E c \in Arrays : \E new \in Elements(cells[c], 0, Null).clears : Becomes(c, new, "clear")

(* A function is called with a container: one that returns nothing. Python *)
(* throws whatever error is pending after the call.                        *)
Call ==
  \E c \in Cells :
    /\ result' = Result("call", c, IF pending THEN Threw ELSE Null)
    /\ pending' = FALSE
    /\ UNCHANGED <<backend, cells>>

KindOf ==
  \E c \in Objects \cup Arrays : \E class \in ClassesOf(cells[c]) :
    Returns("getKind", c, Kind(class))

Comparison(a, b) == <<IF {a, b} \subseteq Nothings THEN "equalsNull" ELSE "equals", Equals(a, b)>>
Compare ==
  \E c \in {Comparison(a, b) : a, b \in Locals} : Returns(c[1], NoParent, c[2])

ValuesNext ==
  \/ MakeObject \/ MakeHeir \/ MakeArray \/ MakeArrayOf
  \/ ObjectGet \/ ObjectHas \/ ObjectKeys \/ ObjectSet \/ ObjectRemove
  \/ ArraySize \/ ArrayGet \/ ArraySet \/ ArrayAdd \/ ArrayClear
  \/ Call
  \/ KindOf \/ Compare

ValuesSpec == ValuesInit /\ [][ValuesNext]_valueVars
-----------------------------------------------------------------------------
ValuesTypeOK ==
  /\ backend \in BackendNames
  /\ pending \in BOOLEAN
  /\ pending => backend = "Python"
  /\ \A c \in Cells :
       /\ cells[c].made \in {"none", "object", "array"}
       /\ cells[c].size \in 0..MaxSize
       /\ cells[c].parent \in Objects \cup {NoParent}
       /\ DOMAIN cells[c].at \subseteq
            CASE cells[c].made = "none"   -> {}
              [] cells[c].made = "object" -> Keys
              [] cells[c].made = "array"  -> 0..MaxSize
       /\ \A x \in DOMAIN cells[c].at : cells[c].at[x] \in Data \cup {Unset}
  /\ result.cell \in Cells \cup {NoParent}

(* Whatever the backend, the members of Local<Object> and Local<Array> do  *)
(* what PlainContainers promises.                                          *)
Contents ==
  [c \in Cells |->
     [kind   |-> cells[c].made,
      at     |-> IF c \in Arrays
                 THEN [i \in 0..(CHOOSE n \in Size(cells[c]) : TRUE) - 1 |-> At(cells[c], i)]
                 ELSE cells[c].at,
      parent |-> cells[c].parent]]
Plain == INSTANCE PlainContainers WITH contents <- Contents, result <- result
ActsAsContainers == Plain!Spec

(* add leaves every element of an array where it was, holes or not.        *)
KeepsElements ==
  result'.op = "add" =>
    \A i \in 0..MaxSize :
      At(cells[result'.cell], i) # Null =>
        At(cells'[result'.cell], i) = At(cells[result'.cell], i)

AddKeepsElements == [][KeepsElements]_valueVars

(* A value of a kind can be cast to it, and to no other but Object and     *)
(* Array: test Kinds of ValueTest.cc, for every value of a script.         *)
KindsDecideCasts ==
  \A class \in Classes :
    Casts(class) \ {"Object", "Array"} = {Kind(class)} \ {"Object", "Array", "Unsupported"}
=============================================================================
