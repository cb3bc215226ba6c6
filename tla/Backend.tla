------------------------------ MODULE Backend ------------------------------
(***************************************************************************)
(* What the models of the backends share: which backend the library is     *)
(* built for, and the script engines a program makes with it.              *)
(***************************************************************************)
EXTENDS Integers, Sequences, FiniteSets

CONSTANTS
  Engines,
  NoEngine,  \* a null engine pointer
  NoThread

VARIABLE backend   \* settled when the library is built

BackendNames == {"QuickJs", "V8", "JavaScriptCore", "Lua", "Python", "WebAssembly"}

ASSUME BackendAssumption == NoEngine \notin Engines
=============================================================================
