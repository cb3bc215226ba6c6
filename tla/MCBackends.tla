----------------------------- MODULE MCBackends ----------------------------
(***************************************************************************)
(* The models of the backends for TLC: one behaviour is about one part of  *)
(* one backend, chosen with it in the initial state; the others are at     *)
(* rest.                                                                   *)
(***************************************************************************)
EXTENDS References, PyEngineLock, QjsTick, LocalStack, WasmReferences,
        NativeInstances, V8Platform, WasmByteBuffers, TLC

CONSTANTS e1, e2, o1, o2, b1, b2, g1, g2, w1, w2, tg, tw, t1, t2, str, num, i1, i2, c1, c2

VARIABLE part

TwoEngines == {e1, e2}
TwoObjects == {o1, o2}
Homes      == [o \in TwoObjects |-> IF o = o2 THEN e2 ELSE e1]
GlobalSet  == {g1, g2, tg}
WeakSet    == {w1, w2, tw}
TwoThreads == {t1, t2}
OneThread  == {t2}
PlainGlobals == {g1, g2}
PlainWeaks   == {w1, w2}
ScriptValues  == {str, num}
ScriptStrings == {str}
TwoInstances == {i1, i2}
TwoClasses   == {c1, c2}
TwoWorkers   == {t1, t2}
TwoBuffers   == {b1, b2}
TwoMemories  == {o1, o2}
TwoContents  == {0, 1}

(* The backends each part is about.                                        *)
Builds ==
  [references |-> {"QuickJs", "V8", "JavaScriptCore", "Lua", "Python"},
   pyLock     |-> {"Python"},
   tick       |-> {"QuickJs"},
   stack      |-> {"Lua", "WebAssembly"},
   wasmRefs   |-> {"WebAssembly"},
   natives    |-> BackendNames,
   platform   |-> {"V8"},
   buffers    |-> {"WebAssembly"}]

Init ==
  /\ part \in DOMAIN Builds
  /\ backend \in Builds[part]
  /\ RefsInit
  /\ PyInit
  /\ QjsInit
  /\ StackInit
  /\ WasmInit
  /\ NativeInit
  /\ PlatformInit
  /\ BufferInit

Next ==
  /\ UNCHANGED <<part, backend>>
  /\ IF part = "references" THEN RefsNext ELSE UNCHANGED refsVars
  /\ IF part = "pyLock" THEN PyNext ELSE UNCHANGED pyVars
  /\ IF part = "tick" THEN QjsNext ELSE UNCHANGED qjsVars
  /\ IF part = "stack" THEN StackNext ELSE UNCHANGED stackVars
  /\ IF part = "wasmRefs" THEN WasmNext ELSE UNCHANGED wasmVars
  /\ IF part = "natives" THEN NativeNext ELSE UNCHANGED nativeVars
  /\ IF part = "platform" THEN PlatformNext ELSE UNCHANGED platformVars
  /\ IF part = "buffers" THEN BufferNext ELSE UNCHANGED bufferVars

vars == <<part, backend, refsVars, pyVars, qjsVars, stackVars, wasmVars,
          nativeVars, platformVars, bufferVars>>
Spec == Init /\ [][Next]_vars /\ QjsFairness

TypesOK ==
  /\ RefsTypeOK /\ PyTypeOK /\ QjsTypeOK
  /\ StackTypeOK /\ WasmTypeOK /\ NativeTypeOK
  /\ PlatformTypeOK /\ BufferTypeOK
=============================================================================
