----------------------------- MODULE V8Platform -----------------------------
(***************************************************************************)
(* script::v8_backend::V8Platform: the platform that V8 is initialized     *)
(* with, shared by all engines of the process, and the foreground tasks    *)
(* that V8's worker threads hand to it, which become messages of engines.  *)
(***************************************************************************)
EXTENDS Backend

CONSTANT V8Workers   \* threads of V8's own

ASSUME OwnerAssumption == {"singleton", "leaked", "absent"} \cap Engines = {}

VARIABLES
  v8,            \* uninitialized, initialized or disposed
  owners,        \* who has a shared_ptr of the platform
  engineState,   \* how far a V8Engine has come
  isolates,      \* the isolates that live, named by their engines
  engineMap,     \* absent, or the engine_ of the isolate's task runner
  poster,        \* where each worker is in scheduleTask
  tasks,         \* the messages that are queued
  crashed        \* a pointer to what is no longer there was used

platformVars ==
  <<v8, owners, engineState, isolates, engineMap, poster, tasks, crashed>>

(* late: in scheduleTask already when the engine removed its messages.     *)
Task == [engine : Engines, late : BOOLEAN]
Poster == [pc : {"idle", "checked", "hasQueue"}, engine : Engines \cup {NoEngine}, late : BOOLEAN]
IdlePoster == [pc |-> "idle", engine |-> NoEngine, late |-> FALSE]

PlatformTypeOK ==
  /\ v8 \in {"uninitialized", "initialized", "disposed"}
  /\ owners \subseteq Engines \cup {"singleton", "leaked"}
  /\ engineState \in
       [Engines -> {"none", "platform", "isolate", "running", "destroying", "drained",
                    "disposed", "removed", "gone"}]
  /\ isolates \subseteq Engines
  /\ engineMap \in [Engines -> Engines \cup {NoEngine, "absent"}]
  /\ poster \in [V8Workers -> Poster]
  /\ tasks \subseteq Task
  /\ crashed \in BOOLEAN

PlatformInit ==
  /\ v8 = "uninitialized" /\ owners = {}
  /\ engineState = [e \in Engines |-> "none"]
  /\ isolates = {}
  /\ engineMap = [e \in Engines |-> "absent"]
  /\ poster = [w \in V8Workers |-> IdlePoster]
  /\ tasks = {}
  /\ crashed = FALSE

Step(e, from, to) ==
  engineState[e] = from /\ engineState' = [engineState EXCEPT ![e] = to]

-----------------------------------------------------------------------------
(* Construction. Once it was told to destroy the platform the program is   *)
(* not to make engines again.                                              *)

Wanted == v8 = "uninitialized" \/ "singleton" \in owners

getPlatform(e) ==
  /\ Wanted
  /\ Step(e, "none", "platform")
  /\ v8' = "initialized"
  /\ owners' = owners \cup {"singleton", e}
  /\ UNCHANGED <<isolates, engineMap, poster, tasks, crashed>>

(* Isolate::New asks for the runner of the isolate.                        *)
GetForegroundTaskRunner(e) ==
  engineMap' = [engineMap EXCEPT ![e] = IF @ = "absent" THEN NoEngine ELSE @]

NewIsolate(e) ==
  /\ Step(e, "platform", "isolate")
  /\ isolates' = isolates \cup {e}
  /\ GetForegroundTaskRunner(e)
  /\ UNCHANGED <<v8, owners, poster, tasks, crashed>>

addEngineInstance(e) ==
  /\ Step(e, "isolate", "running")
  /\ engineMap' = [engineMap EXCEPT ![e] = e]
  /\ UNCHANGED <<v8, owners, isolates, poster, tasks, crashed>>

-----------------------------------------------------------------------------
(* scheduleTask, by a worker that does something for the isolate of e.     *)

IsDestroying(e) == engineState[e] # "running"
HasLeftQueue(e) == engineState[e] \in {"drained", "disposed", "removed", "gone"}
Checked(w, e) ==
  poster' = [poster EXCEPT ![w] = [pc |-> "checked", engine |-> e, late |-> FALSE]]

(* Mutant: scheduleTask does not ask whether the engine is being destroyed. *)
CheckDestroyingNever(w, e) ==
  /\ poster[w].pc = "idle" /\ e \in isolates /\ engineMap[e] = e
  /\ Checked(w, e)
  /\ UNCHANGED <<v8, owners, engineState, isolates, engineMap, tasks, crashed>>

CheckDestroying(w, e) ==
  /\ poster[w].pc = "idle" /\ e \in isolates /\ engineMap[e] = e
  /\ ~IsDestroying(e)
  /\ Checked(w, e)
  /\ UNCHANGED <<v8, owners, engineState, isolates, engineMap, tasks, crashed>>

(* Nothing keeps destroy() from having reset messageQueue_ by then.        *)
TakeQueue(w) ==
  /\ poster[w].pc = "checked"
  /\ poster' = [poster EXCEPT ![w].pc = "hasQueue"]
  /\ crashed' = HasLeftQueue(poster[w].engine)
  /\ UNCHANGED <<v8, owners, engineState, isolates, engineMap, tasks>>

PostTask(w) ==
  /\ poster[w].pc = "hasQueue"
  /\ tasks' = tasks \cup {[engine |-> poster[w].engine, late |-> poster[w].late]}
  /\ poster' = [poster EXCEPT ![w] = IdlePoster]
  /\ UNCHANGED <<v8, owners, engineState, isolates, engineMap, crashed>>

(* A looper of the queue, which the engines may share.                     *)
RunTask(t) ==
  /\ t \in tasks
  /\ tasks' = tasks \ {t}
  /\ crashed' = (engineState[t.engine] = "gone")
  /\ UNCHANGED <<v8, owners, engineState, isolates, engineMap, poster>>

-----------------------------------------------------------------------------
(* V8Engine::destroy                                                       *)

StartDestroy(e) ==
  /\ Step(e, "running", "destroying")
  /\ UNCHANGED <<v8, owners, isolates, engineMap, poster, tasks, crashed>>

Drain(e) ==
  /\ Step(e, "destroying", "drained")
  /\ tasks' = {t \in tasks : t.engine # e}
  /\ poster' = [w \in V8Workers |-> [poster[w] EXCEPT !.late = @ \/ poster[w].engine = e]]
  /\ UNCHANGED <<v8, owners, isolates, engineMap, crashed>>

(* Dispose waits for the workers that do something for the isolate.        *)
DisposeIsolate(e) ==
  /\ \A w \in V8Workers : poster[w].engine # e
  /\ Step(e, "drained", "disposed")
  /\ isolates' = isolates \ {e}
  /\ UNCHANGED <<v8, owners, engineMap, poster, tasks, crashed>>

removeEngineInstance(e) ==
  /\ Step(e, "disposed", "removed")
  /\ engineMap' = [engineMap EXCEPT ![e] = "absent"]
  /\ UNCHANGED <<v8, owners, isolates, poster, tasks, crashed>>

(* The destructor of the platform, when its last owner lets go, disposes V8. *)
ReleasePlatform(o) ==
  /\ owners' = owners \ {o}
  /\ v8' = IF owners = {o} THEN "disposed" ELSE v8

DeleteEngine(e) ==
  /\ Step(e, "removed", "gone")
  /\ ReleasePlatform(e)
  /\ UNCHANGED <<isolates, engineMap, poster, tasks, crashed>>

(* v8_interop::Critical. With no engine the second never returns: it locks *)
(* lock_, and so does the destructor.                                      *)
neverDestroyPlatform ==
  /\ Wanted
  /\ v8' = "initialized"
  /\ owners' = owners \cup {"singleton", "leaked"}
  /\ UNCHANGED <<engineState, isolates, engineMap, poster, tasks, crashed>>

immediatelyDestroyPlatform ==
  /\ "singleton" \in owners /\ owners # {"singleton"}
  /\ ReleasePlatform("singleton")
  /\ UNCHANGED <<engineState, isolates, engineMap, poster, tasks, crashed>>

PlatformNext ==
  /\ ~crashed
  /\ \/ \E e \in Engines :
          \/ getPlatform(e) \/ NewIsolate(e) \/ addEngineInstance(e)
          \/ StartDestroy(e) \/ Drain(e) \/ DisposeIsolate(e)
          \/ removeEngineInstance(e) \/ DeleteEngine(e)
     \/ \E w \in V8Workers, e \in Engines : CheckDestroying(w, e)
     \/ \E w \in V8Workers : TakeQueue(w) \/ PostTask(w)
     \/ \E t \in Task : RunTask(t)
     \/ neverDestroyPlatform \/ immediatelyDestroyPlatform

-----------------------------------------------------------------------------

(* V8 stays initialized as long as an isolate lives, or the platform has   *)
(* an owner, whatever the program asks for; and the tasks of an engine go  *)
(* with it: those of workers that were already in scheduleTask when it     *)
(* removed its messages are the only ones that can reach a deleted engine. *)
TasksGoWithTheirEngine ==
  /\ isolates # {} \/ owners # {} => v8 = "initialized"
  /\ \A t \in tasks : HasLeftQueue(t.engine) => t.late
  /\ \A w \in V8Workers :
       poster[w].pc # "idle" /\ HasLeftQueue(poster[w].engine) => poster[w].late
=============================================================================
