------------------------------- MODULE Numbers -------------------------------
(***************************************************************************)
(* A number that passes between C++ variables and scripts, through the     *)
(* converters of bound functions (NativeConverter.hpp) and the members of  *)
(* Number and Local<Number> of each backend. One engine, one thread.       *)
(* Numbers are counted in halves, so that there are fractions.             *)
(***************************************************************************)
EXTENDS Backend

CONSTANTS   \* bound: widths, ordered as the real ones are
  ShortBits, IntBits, LongBits,   \* of int16_t, int32_t and int64_t
  FloatBits, DoubleBits           \* precision of float and double: a float holds any
                                  \* int16_t and a double any int32_t, but no more

VARIABLES
  variable,  \* of the C++ program: a type and a number
  number,    \* that the Local<Number> refers to
  began,     \* what the program or the script made
  exact,     \* every type since then can hold that
  way        \* "double", "float" or "integer": the coarsest type since then

numberVars == <<backend, variable, number, began, exact, way>>

-----------------------------------------------------------------------------
(* C++'s numbers.                                                          *)

Bits == [int16  |-> ShortBits, int32  |-> IntBits, int64  |-> LongBits,
         uint16 |-> ShortBits, uint32 |-> IntBits, uint64 |-> LongBits]
Signed    == {"int16", "int32", "int64"}
Integrals == DOMAIN Bits
Floats    == {"float", "double"}
Types     == Integrals \cup Floats
Precision == [float |-> FloatBits, double |-> DoubleBits]

Least(type) == IF type \in Signed THEN -(2 ^ (Bits[type] - 1)) ELSE 0
Integers(type) == {2 * i : i \in Least(type)..Least(type) + 2 ^ Bits[type] - 1}

Magnitude(n) == IF n < 0 THEN -n ELSE n
Truncated(n) == IF n < 0 THEN -(2 * ((-n) \div 2)) ELSE 2 * (n \div 2)

(* The nearest number of a precision, of two the one with an even last bit.*)
Rounded(n, type) ==
  LET p    == Precision[type]
      unit == 2 ^ (CHOOSE e \in 0..LongBits + 1 :
                     /\ Magnitude(n) < 2 ^ (p + e)
                     /\ e = 0 \/ Magnitude(n) >= 2 ^ (p + e - 1))
      down == Magnitude(n) \div unit
      rest == Magnitude(n) % unit
      up   == 2 * rest > unit \/ (2 * rest = unit /\ down % 2 = 1)
      size == (IF up THEN down + 1 ELSE down) * unit
  IN  IF n < 0 THEN -size ELSE size

Wrapped(n, type) ==
  LET i == Truncated(n) \div 2
  IN  2 * (((i - Least(type)) % 2 ^ Bits[type]) + Least(type))

Holds(type, n) ==
  IF type \in Floats THEN Rounded(n, type) = n ELSE n \in Integers(type)

(* What static_cast makes of a double: out of range, anything.             *)
Cast(n, type) ==
  IF Truncated(n) \in Integers(type) THEN {Truncated(n)} ELSE Integers(type)

All == Integers("int64") \cup Integers("uint64")
       \cup {Rounded(n, "double") : n \in -(2 ^ LongBits)..2 ^ LongBits}
(* Bound: scripts make any double, and those of Lua and Python integers.   *)
Scripted ==
  IF backend \in {"Lua", "Python"} THEN Integers("int64") \cup {n \in All : Holds("double", n)}
  ELSE {n \in All : Holds("double", n)}

-----------------------------------------------------------------------------
(* Number::newNumber and Local<Number>::toInt32, toInt64, toFloat and      *)
(* toDouble.                                                               *)

ThroughDouble(n) == Rounded(n, "double")

QjsNew(n, type)  == ThroughDouble(n)
V8New(n, type)   == ThroughDouble(n)
JscNew(n, type)  == ThroughDouble(n)
WasmNew(n, type) == ThroughDouble(n)
LuaNew(n, type)  == n
PyNew(n, type)   == n

NewNumber(n, type) ==
  CASE backend = "QuickJs"        -> QjsNew(n, type)
    [] backend = "V8"             -> V8New(n, type)
    [] backend = "JavaScriptCore" -> JscNew(n, type)
    [] backend = "WebAssembly"    -> WasmNew(n, type)
    [] backend = "Lua"            -> LuaNew(n, type)
    [] backend = "Python"         -> PyNew(n, type)

Read(d, int32, int64) ==
  [double |-> {d}, float |-> {Rounded(d, "float")}, int32 |-> int32, int64 |-> int64]
ReadDouble(d) == Read(d, Cast(d, "int32"), Cast(d, "int64"))

QjsRead(n)  == Read(n, {Wrapped(n, "int32")}, {Wrapped(n, "int64")})
V8Read(n)   == ReadDouble(n)
JscRead(n)  == ReadDouble(n)
LuaRead(n)  == ReadDouble(ThroughDouble(n))
PyRead(n)   == ReadDouble(ThroughDouble(n))
WasmRead(n) == Read(n, {Wrapped(n, "int32")}, Integers("int64"))

Reads(n) ==
  CASE backend = "QuickJs"        -> QjsRead(n)
    [] backend = "V8"             -> V8Read(n)
    [] backend = "JavaScriptCore" -> JscRead(n)
    [] backend = "WebAssembly"    -> WasmRead(n)
    [] backend = "Lua"            -> LuaRead(n)
    [] backend = "Python"         -> PyRead(n)

-----------------------------------------------------------------------------
(* Converter<T>: the type that numbers of a type travel as.                *)

(* Mutant: integers travel as int32_t.                                     *)
BridgeOfInts(type) == IF type \in Floats THEN type ELSE "int32"
Bridge(type) == IF type \in Floats \cup {"int32"} THEN type ELSE "int64"

ConvertedFrom(type, n) == IF type \in Integrals THEN Wrapped(n, type) ELSE n

NumbersInit ==
  /\ \/ \E type \in Types : \E n \in {m \in All : Holds(type, m)} :
          /\ variable = [type |-> type, n |-> n]
          /\ began = n
          /\ way = IF type = "double" THEN "double" ELSE IF type = "float" THEN "float" ELSE "integer"
     \/ /\ variable = [type |-> "none", n |-> 0]
        /\ began \in Scripted
        /\ way = "double"
  /\ exact = (variable.type # "none" \/ Holds("double", began))
  /\ number = [made |-> variable.type = "none", n |-> began]

(* The types that have to hold a number that is converted: scripts may have*)
(* doubles only, and unsigned integers travel as signed ones.              *)
Passes(type) ==
  /\ exact' = (exact /\ \A t \in {type, "double", IF type \in Integrals THEN "int64" ELSE "double"} :
                           Holds(t, began))
  /\ way' = CASE type = "double"                -> way
              [] type = "float" /\ way = "double" -> "float"
              [] type = "float"                   -> way
              [] OTHER                            -> "integer"

(* Bound: once a number was changed as integers are, it is not followed.   *)
Followed == exact \/ way # "integer"

(* Converter<T>::toScript, for the result or the argument of a function.   *)
ToScript ==
  /\ variable.type # "none" /\ ~number.made
  /\ Followed
  /\ Passes(variable.type)
  /\ LET bridge == Bridge(variable.type)
     IN  number' = [made |-> TRUE,
                    n    |-> NewNumber(ConvertedFrom(bridge, variable.n), bridge)]
  /\ UNCHANGED <<backend, variable, began>>

(* Converter<T>::toCpp. Bound: int64_t is not read with WebAssembly, as    *)
(* the tests do not (ValueTest.cc:586).                                    *)
ToCpp ==
  /\ number.made
  /\ Followed
  /\ \E type \in Types :
       /\ ~(backend = "WebAssembly" /\ Bridge(type) = "int64")
       /\ Passes(type)
       /\ \E n \in Reads(number.n)[Bridge(type)] :
            variable' = [type |-> type, n |-> ConvertedFrom(type, n)]
  /\ number' = [made |-> FALSE, n |-> began]
  /\ UNCHANGED <<backend, began>>

NumbersNext == ToScript \/ ToCpp

NumbersSpec == NumbersInit /\ [][NumbersNext]_numberVars

-----------------------------------------------------------------------------
NumbersTypeOK ==
  /\ variable.type \in Types => Holds(variable.type, variable.n)
  /\ number.n \in Int /\ began \in Int
  /\ exact \in BOOLEAN /\ way \in {"double", "float", "integer"}

Current == IF number.made THEN number.n ELSE variable.n

(* A number that all the types on its way can hold arrives as it was,      *)
(* however often it crosses between C++ and scripts and as whatever types; *)
(* one that travels as float or double is rounded once and no more         *)
(* (Converter, Number::newNumber, Local<Number>::to...).                   *)
NumbersArrive ==
  /\ exact => Current = began
  /\ way = "float" /\ ~exact => Current = Rounded(Rounded(began, "double"), "float")

(* Local<Number>::isInteger, Reference.cc:44: the difference of the number *)
(* and its int64_t is less than any fraction.                              *)
IsInteger(n, asInt64) == n - asInt64 < 1

(* isInteger tells integers from numbers that have a fraction, of those    *)
(* that are not negative and that int64_t can hold (Reference.cc:44).      *)
IntegersAreTold ==
  LET d == ThroughDouble(number.n) IN
  number.made /\ d >= 0 /\ Truncated(d) \in Integers("int64") /\ backend # "WebAssembly" =>
    \A i \in Reads(number.n)["int64"] : IsInteger(d, i) <=> d % 2 = 0
=============================================================================
