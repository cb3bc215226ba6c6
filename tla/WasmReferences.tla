--------------------------- MODULE WasmReferences --------------------------
(***************************************************************************)
(* script::Global and script::Weak of WebAssembly: keys of two tables that *)
(* JavaScript keeps; a Weak keeps its value as a Global does. Destructors, *)
(* copies and moves have to pass keys on and delete them exactly once.     *)
(***************************************************************************)
EXTENDS Backend

CONSTANTS
  WasmGlobals,   \* variables of the program
  WasmWeaks,
  WasmValues,
  NoEntry,       \* what a table has under no key
  MaxKeys        \* bound: keys of a table; the counter wraps at INT_MAX

ASSUME WasmAssumption ==
  /\ WasmGlobals \cap WasmWeaks = {}
  /\ NoEntry \notin WasmValues
  /\ MaxKeys \in Nat

WasmHandles == WasmGlobals \cup WasmWeaks
Tables == {"global", "weak"}
TableOf(h) == IF h \in WasmGlobals THEN "global" ELSE "weak"

VARIABLES
  tables,    \* _ScriptX_Global_ref, _ScriptX_Weak_ref
  nextKey,   \* and their counters
  keyOf,     \* val_, -1 when empty
  meant      \* the value that each was given

wasmVars == <<tables, nextKey, keyOf, meant>>

WasmTypeOK ==
  /\ tables \in [Tables -> [0..MaxKeys - 1 -> WasmValues \cup {NoEntry}]]
  /\ nextKey \in [Tables -> 0..MaxKeys]
  /\ keyOf \in [WasmHandles -> -1..MaxKeys - 1]
  /\ meant \in [WasmHandles -> WasmValues \cup {NoEntry}]

WasmInit ==
  /\ tables = [t \in Tables |-> [k \in 0..MaxKeys - 1 |-> NoEntry]]
  /\ nextKey = [t \in Tables |-> 0]
  /\ keyOf = [h \in WasmHandles |-> -1]
  /\ meant = [h \in WasmHandles |-> NoEntry]

-----------------------------------------------------------------------------

Entry(h) == IF keyOf[h] = -1 THEN NoEntry ELSE tables[TableOf(h)][keyOf[h]]

(* deleteGlobal, by reset() and destructors.                               *)
Deleted(m, h) == IF keyOf[h] = -1 THEN m ELSE [m EXCEPT ![TableOf(h)][keyOf[h]] = NoEntry]

(* Global_newKey.                                                          *)
NewKey(t) == [nextKey EXCEPT ![t] = @ + 1]

(* newGlobal, in a temporary that is swapped with h and destructed.        *)
WasmAssign(h, v) ==
  LET t == TableOf(h)
  IN  /\ nextKey[t] < MaxKeys
      /\ nextKey' = NewKey(t)
      /\ tables' = Deleted([tables EXCEPT ![t][nextKey[t]] = v], h)
      /\ keyOf' = [keyOf EXCEPT ![h] = nextKey[t]]
      /\ meant' = [meant EXCEPT ![h] = v]

WasmReset(h) ==
  /\ tables' = Deleted(tables, h)
  /\ keyOf' = [keyOf EXCEPT ![h] = -1]
  /\ meant' = [meant EXCEPT ![h] = NoEntry]
  /\ UNCHANGED nextKey

(* Mutant: the copy has the key of the original.                           *)
WasmDupShared(a, b) ==
  /\ tables' = Deleted(tables, a)
  /\ keyOf' = [keyOf EXCEPT ![a] = keyOf[b]]
  /\ meant' = [meant EXCEPT ![a] = Entry(b)]
  /\ UNCHANGED nextKey

(* dupGlobal, in a temporary that is swapped with a and destructed: copies *)
(* of a Global, and a Global of a Weak or the other way round.             *)
WasmDup(a, b) ==
  IF keyOf[b] = -1 THEN WasmReset(a) ELSE WasmAssign(a, Entry(b))

(* Weak::operator=(const Weak&) has the key alone, and keeps its own.      *)
WasmCopyWeak(a, b) ==
  /\ keyOf' = [keyOf EXCEPT ![a] = keyOf[b]]
  /\ meant' = [meant EXCEPT ![a] = meant[b]]
  /\ UNCHANGED <<tables, nextKey>>

(* The value that a held goes with the temporary.                          *)
WasmMove(a, b) ==
  /\ a # b
  /\ tables' = Deleted(tables, a)
  /\ keyOf' = [keyOf EXCEPT ![a] = keyOf[b], ![b] = -1]
  /\ meant' = [meant EXCEPT ![a] = meant[b], ![b] = NoEntry]
  /\ UNCHANGED nextKey

WasmSwap(a, b) ==
  /\ keyOf' = [keyOf EXCEPT ![a] = keyOf[b], ![b] = keyOf[a]]
  /\ meant' = [meant EXCEPT ![a] = meant[b], ![b] = meant[a]]
  /\ UNCHANGED <<tables, nextKey>>

WasmNext ==
  \/ \E h \in WasmHandles : WasmReset(h) \/ \E v \in WasmValues : WasmAssign(h, v)
  \/ \E a, b \in WasmHandles :
       \/ TableOf(a) # TableOf(b) /\ WasmDup(a, b)
       \/ TableOf(a) = TableOf(b) /\ (WasmMove(a, b) \/ WasmSwap(a, b))
  \/ \E a, b \in WasmGlobals : WasmDup(a, b)
  \/ \E a, b \in WasmWeaks : WasmCopyWeak(a, b)

-----------------------------------------------------------------------------

(* A Global designates the value it was given until it is reset, and no    *)
(* entry of the table is without a Global or has two, whatever copies,     *)
(* moves and swaps were made, and although copies of Weaks share keys.     *)
GlobalsHaveEntries ==
  /\ \A h \in WasmGlobals : Entry(h) = meant[h]
  /\ \A k \in 0..MaxKeys - 1 :
       LET owners == {h \in WasmGlobals : keyOf[h] = k}
       IN  /\ Cardinality(owners) <= 1
           /\ tables["global"][k] # NoEntry => owners # {}
=============================================================================
