# ScriptX, specified and verified in TLA+

ScriptX is a C++ library that puts one embedding API in front of several script
engines (QuickJs, Lua, V8, JavaScriptCore, Python, WebAssembly). Most of its code
forwards calls and converts values. What can go wrong without any line looking
wrong is the rest: a bounded queue of delayed messages shared by threads, a thread
pool on top of it, the lock protocol of nested engine scopes, the registries that
tie the life of references, native instances and buffers to that of their engine,
the stacks that Local references are positions in and the counts behind them, and
six versions of everything that crosses between C++ and scripts: calls, exceptions,
values, numbers, strings, classes, programs. This directory holds the
TLA+ specification of that part, the TLC configurations that model-check it, and
proofs, checked by TLAPS, of what it promises for all parameters.

Paths below are relative to the repository; `MessageQueue.cc` is
`src/src/utils/MessageQueue.cc`, and so on.

## 1. Inventory

| Component | State | Operations | What makes it correct |
|---|---|---|---|
| **MessageQueue** (`utils/MessageQueue.*`) | deque, `shutdown_`, `interrupt_`, `workerCount_`, one mutex, three condition variables, a thread-local map of running queues | postMessage, loopQueue (wait / once), removeMessage(If), interrupt, shutdown, shutdownNow, awaitTermination | order by due time and priority; no lost wake-up; each message owned once; nested loops counted; a drained queue closes |
| **ThreadPool** (`utils/ThreadPool.*`) | workers, `threadMutex_`, its MessageQueue | constructor, post, removeMessage, shutdown(Now), awaitTermination, destructor | an awaiting call returns and leaves no worker in the queue's code |
| **EngineScope / ExitEngineScope** (`Scope.*`, the `*Scope.cc` of the backends) | thread-local `current_`, the chain of previous scopes, one lock per engine (per isolate in V8) | enter, exit, and their destructors | a thread in an engine has it alone; locks balance; nobody waits holding an engine |
| **MemoryPool and messages** (`utils/MemoryPool.hpp`, `MessageQueue.*`) | a vector of free messages behind a mutex, heap fallback; the fields of each message | obtain, post, handle, release, cleanup | a message has one user; what it is to clean up is destroyed once; none inherits a field of its last use |
| **GlobalWeakBookkeeping** (`utils/GlobalWeakBookkeeping.hpp`) | a list of references per engine, a node in each reference | keep, remove, afterCopy, afterMove, afterSwap, clear | a reference with a value is in exactly one list, that of its engine |
| **Engine lifecycle** (`Engine.*`) | destroying flag, user data | create, eval, loadFile, get, set, destroy | what belongs to an engine goes with it; a program is run once and gets its own answer |
| **Class registration** (`Engine.cc`, `ClassDefineBuilder`, the `*Engine.cc` of the backends) | registries by type and by define, the script's namespaces | registerNativeClass, newNativeClass, isInstanceOf, getNativeInstance | a registered class is found, constructed and recognised, whatever failed before and whatever scripts assign |
| **Exceptions** (`Exception.*`, the `*Exception.cc` and helpers of the backends) | a value, a message, a stack trace, filled when first asked for | throw, catch, exception(), message() | the message contains that of what was thrown first, and where it can be the value is the one that was thrown first |
| **QuickJs engine** (`QjsEngine.cc`, `QjsScope.cc`) | `tickScheduled_`, message queue, runtime lock | triggerTick, scopes, eval, destroy | pending jobs always get a tick, and one |
| **V8 platform and engine** (`V8Platform.cc`, `V8Engine.cc`) | singleton with shared owners, isolate-to-engine map, `managedObject_` | getPlatform, scheduleTask, add/removeEngineInstance, destroy | V8 outlives its isolates; tasks go with their engine |
| **Python engine** (`PyHelper.cc`, `PyScope.cc`, `PyEngine.cc`, `PyReference.cc`) | one static recursive mutex and enter count for all engines, thread states in TLS, a map of references | enter, exit, create, destroy | the thread state loaded is that of the engine entered, and is alive |
| **Lua engine** (`LuaEngine.cc`, `LuaScope.cc`, `LuaHelper.cc`) | the Lua stack, a registry table of global references | calls, frames, put, get, remove | a Local designates its value as long as it lives |
| **JavaScriptCore engine** (`JscEngine*.cc`, `JscReference.hpp`) | protected values, finalizers that post messages | references, instances, destroy | values are unprotected once, instances deleted once |
| **WebAssembly backend** (`WasmHelper.cc`, `WasmReference.hpp`, `WasmLocalReference.cc`) | a stack and two tables in JavaScript, shared byte buffers | calls, frames, new/dup/delete, commit, sync, destroy | keys have one owner; memory is freed once; copies agree |
| **Native class binding** (`Native.*`, the `newConstructor` of the backends) | a C++ instance tied to a script object; the C++ stack of callbacks | construct, collect, destroy; calls of functions, getters, setters, overloads | each instance is deleted once, never under a method that could run; a call runs one body or none, and what that throws arrives |
| **Values** (`*LocalReference.cc`, `*Value.cc`, `Reference.*`) | objects and arrays of the script, Python's error indicator | get, set, has, remove, add, size, clear, kinds, casts, `==` | the members do the same in every backend |
| **Numbers and strings** (`NativeConverter.hpp`, `*Utils.cc`, `Utils.h`) | a number as a type of C++ or of the script; JavaScriptCore's string refs; what a StringHolder has read | conversions, newNumber, newString, toInt32..., StringHolder | what types can hold arrives; pointers last as long as their holder |
| **Counts behind Locals** (`QjsHelper.*`, `PyHelper.*`, `*LocalReference.cc`, `trait/*`) | the count of each value of QuickJs and Python | makeLocal, getLocal, peekLocal, stealing and borrowing calls | whatever is held is alive, what is not held is freed |
| Kotlin and Template backends | - | skeletons | no behaviour |

How they interact. An engine owns or is given a MessageQueue; posts come from any
thread, the loop runs in one or more; handlers enter an EngineScope and call the
script, which may post, remove, loop again (nested) or shut the queue down. A
ThreadPool runs several loops on one queue. Handles register with the engine that
is current when they are made. Engines post ticks (QuickJs), platform tasks (V8)
and collected finalizers to their queue, and remove their own messages on destroy.

Hard behaviours, each listed at its line in `PROJECT.json` under `hazards`: every
`notify_all` comes after the unlock; due times are fixed before the lock and before
an unbounded wait for room; a waiting looper computes its deadline from a message
that may be gone a moment later; a loop nested in a handler counts as a second
worker; one loop ends the drain for all of them; a handler throws; a pool is shut
down by its own handler; Lua takes a new engine's lock before it gives the old one
up, QuickJs the other way round, V8 never gives it up; one count stands for the
scopes of all Python engines; a tick's flag is set and reset by scripts, scopes,
jobs and loopers; assignments update value, list and count one after the other;
stack positions are cut back by frames, calls and exceptions; V8 collects in two
passes; a worker thread of V8 schedules a task for an engine that is being
destroyed; an exception is rebuilt each time it crosses, from a value or from a
message that may not have been read yet; WebAssembly's exceptions are flags that
the other side must look at; a recycled message carries what its last user left; a
registration fails half way and is tried again; some calls of the script engines
take a count, some lend one; a string holder reads its Local when it is first asked.

## 2. Modules

```
MessageOrder <-- MessageOrder_proofs <-- MessageQueue_proofs (of the pool as well)
     ^                               <-- Messages_proofs
     ^  ^--- InsertionOrder   MessagePool
     |              ^             ^
MessageQueue <-- MCMessageQueue <-- MCMessages      (InsertionOrder, MessagePool and a queue)
     |  ^-- ThreadPool <-- MCThreadPool, MessageQueue_proofs
     '--> DelayQueue (INSTANCE: what a queue promises)

EngineScope <-- MCEngineScope, EngineScope_proofs

Backend <-- References, PyEngineLock, QjsTick, LocalStack, WasmReferences,
            WasmByteBuffers, NativeInstances, V8Platform            <-- MCBackends
        <-- NativeBinding, Exceptions, ClassRegistry, Evaluation, LocalCounts,
            Values, Numbers, Strings, ClassMembers (these four by INSTANCE) <-- MCInterop
Values    --> PlainContainers (INSTANCE: what containers promise)
WasmCalls --> ScriptCalls     (INSTANCE: what calls promise)

QjsTick, V8Platform, PyEngineLock            <-- Backends_proofs
References, LocalStack                       <-- References_proofs
WasmCalls, WasmReferences, WasmByteBuffers   <-- Wasm_proofs
NativeInstances, NativeBinding, Exceptions   <-- Interop_proofs
```

### The queue and what stands on it

**MessageOrder** has the pure part of the queue: the three scans of
`findInsertPositionLocked`, insertion, the erasing loop of `removeMessageIf`, and
`Sorted`, what `Message::priority` promises. **InsertionOrder** inserts any messages
one after the other and says where each one has to stand.

**MessageQueue** is the queue as threads run it. `queueMutex_` is held inside a
step and never across two, so a critical section is one action; the unlock and the
`notify_all` after it are different actions, because another thread may run between
them. `pc[t]` says where a thread is, `loops[t]` is the stack of `loopQueue` calls
of a thread (type, messages left, message in hand), `posting[t]` the message in its
`postMessage`. State and code:

| Variable | Code |
|---|---|
| `queue`, `due` | `queue_`, `Message::dueTime` |
| `shutdown_`, `interrupt_`, `workerCount_` | the fields of the same name |
| `runningQueue_` | which threads have this queue in `getRunningQueue()` |
| `deadline` | the `wait_for` of a looper in `awaitDueMessage` |
| `mustAwait` | the `awaitTermination` argument of `shutdown(Now)` |
| `status`, `asked` | history: who has each message, which shutdowns were called |

| Actions | Code |
|---|---|
| `PostMessage`, `PostSleep`, `PostRefused`, `PostInsert`, `PostNotify` | `postMessage`, `awaitNotFullLocked` |
| `LoopQueue(Once)`, `LoopCount`, `AwaitQuitNow`, `AwaitQuitNoDue`, `AwaitSleep`, `AwaitPop`, `StartHandler`, `EndHandler`, `ThrowHandler` | `loopQueue`, `awaitDueMessage`, `checkQuitLoop...Locked`, `processMessage` |
| `LoopQuit`, `QuitNotify` | `~LoopQueueGuard` |
| `RemoveMessageIf`, `RemoveNotify`, `Interrupt`, `ShutdownNow`, `Shutdown`, `WakePosters`, `WakeLoopers` | the calls of the same name |
| `AwaitTermination`, `AwaitReturn`, `AwaitQuitSleep` | `awaitTermination` |
| `WaitTimeout`, `SpuriousWakeup`, `Tick` | the steady clock and `std::condition_variable` |

The guard's destructor decrements the nest count in a *copy* of the thread's map
(`auto q = getRunningQueue()`), so `runningQueue_` only grows; the model does as the
code does, and a run shows what follows.

**DelayQueue** is what users of the queue may rely on: an unordered store that
gives out due messages in order, in three modes, with no threads in it.
`MessageQueue!ImplementsDelayQueue` says that the queue implements it, with
`mode <- shutdown_`.

**MessagePool** is the memory of messages: `items` (where each one is and what it
carries), `pool` (the vector of free ones, at most `maxMemoryCount_`), and `objects`,
what messages are to clean up. It is apart from the queue because it does not depend
on the order: the queue may refuse, hand out or remove any message at any time.

**ThreadPool** extends MessageQueue with workers (`while (loopQueue() !=
kShutDown)`), clients, `joinWorkers` under `threadMutex_`, and awaiting calls that
first await the queue and then join. The destructor is a `ShutdownNow` or `Shutdown`
of a client that awaits.

**EngineScope** models the per-thread stack of scopes and turns the constructor and
destructor of each backend's `EngineScopeImpl` and `ExitEngineScopeImpl` into a
short program of lock operations (`EnterSteps`, `LeaveSteps`, `ExitSteps`), run one
operation per step. `backend` is chosen in `Init` and never changes, as it is when
the library is built.

### The protocols of the backends

**Backend** has what the modules below share: `backend`, settled when the library is
built, and `Engines`. Each module is about one protocol, in all the backends that
have it, and has variables and a next-state relation of its own.

**References** is `Global` and `Weak` with `GlobalWeakBookkeeping`. `refs` is the
state of all references at once: `engine_`, the value, the node `handle_`, the nodes
of each list and the references counted on each object. The operations that the
backends build assignment from (`Add`, `Remove`, `AfterMove`, `CopyValue`...) are
operators from one such state to the next, and each backend's constructors,
assignments and swaps (`QjsMove`, `LuaCopy`, `PySwap`...) compose them in the order
of its code; temporaries are references too. The actions are the members of
`Reference.h`, called in the scope of an engine, and `DestroyEngine`, `Collect`.
Moves between a list and an assignment that shares half of it are where these
classes differ: Lua copies and swaps, JavaScriptCore's moved-from `Weak` keeps its
`engine_`, Python writes a map and never looks whether there is a value.

**PyEngineLock** is `EngineLockerHelper` with the scopes and the life of `PyEngine`.
Everything happens under one mutex, so a constructor or destructor is one step; what
matters is which thread state is loaded (`py.current`), which ones are saved in
scopes and in `mainThreadStateInTLS_` (`py.main`), and which were freed.

**QjsTick** follows `tickScheduled_`: scripts make jobs, ends of scopes and of
scripts trigger ticks, a looper takes one, enters the engine, executes jobs until
there is none or one throws, and leaves. Scopes, exits and ticks nest on a thread's
stack and share `runtimeLock_`.

**LocalStack** has the `Local` references of Lua and WebAssembly. `slots` is the
stack, `scopes` the open frames and calls (with the number of Locals declared outside
each), `locals` the variables in the order of their declarations, with the value
each was made for. Copies, moves, `getKeys`, calls with no, one or several results,
callbacks, `returnValue` and exceptions are actions. WebAssembly's `returnValue` is
bounded by `ReturnsLast`: what it does with an earlier value is what `wasm_results`
shows.

**WasmReferences** has the two key tables in JavaScript, **WasmByteBuffers** the
memory behind `Local<ByteBuffer>`: `ArrayBuffer`s that are copied to C++ and back,
and `SharedByteBuffer`s, which own a `shared_ptr` through a number.

**NativeInstances** is the life of a `ScriptClass` in six backends: constructors
called by scripts or by the program, failing ones, finalizers in one pass, two
passes or through a message, `extendLifeTimeToNextLoop`, `destroyScriptClass`, and
what `destroy()` does with the ones that are left.

**V8Platform** is the platform singleton with its owners, the isolate-to-engine map,
and `scheduleTask` in V8's worker threads against `V8Engine::destroy`, split where
it reads the flag, takes the queue and posts.

### What passes between C++ and scripts

**NativeBinding** is the C++ stack of one thread: frames of scripts, of the overload
loop, of the callbacks that `Native.hpp` makes and of the bodies they call. Tables
say what each backend guards with a try and which exceptions an option turns into
null. A behaviour ends when an exception leaves a frame that the engine owns.

**Exceptions** has `slots`, variables of type `Exception` with a value and a message
that may not have been read, the value that is being thrown and, as ghosts, what was
thrown first and how many hops it has made since. A text is the one that was given first and
a count of what has been put in front of it: Python rebuilds every exception that it
catches as `Type: text` (`PyHelper.cc:262`), V8's message is the engine's description of the
value (`V8Exception.cc:36`: `Uncaught Error: text`), and Lua's `error` writes the position in
front of a string, at the first throw or when a script throws on what it has caught
(`LuaThrowsOn`). **ClassRegistry** has the two registries of the engine, the backend's,
the constructors of each attempt and what is at each place of the script's
namespaces; an object is whole, unfinished or made from a prototype alone.
**ClassMembers** is one class from its builder to its use: what `validateClassDefine`
refuses, where registration puts functions and properties in each backend (on the object,
on its prototype, in the tables of a metatable, in a type that both sides share), and what
scripts get that read, assign and call them, missing callbacks and receivers of another
class included; `given` is a ghost, what scripts have assigned.
**Evaluation** has the calls of `eval` and `loadFile` in progress, Python's error
indicator and a name that C++ and scripts both set.

**Values** has objects and arrays of the script and the members of `Local<Object>`,
`Local<Array>` and `Local<Value>` as each backend writes them; **PlainContainers** is
what a program may expect of them in every backend. **LocalCounts** has the counts of
QuickJs and Python: Locals with a type and a pointer, native functions with arguments
that are lent or given, a StringHolder; each expression of the backend takes, gives
back or lends a count. A frame of `natives` is a native function with its argument, its
result and whether it `returns`: `Return` counts the result for the interpreter before
the function's Locals end one by one, `LeaveNative` gives the argument back and hands the
result to a caller in C++ or drops it. `heap.wild` is a ghost: something freed was
counted or given back. `ChainsEnd` is a bound, the freeing of one value frees at most
three others. **Numbers** has a number on its way through types of different
width (`way` and `exact` are ghosts), **Strings** texts in the form of each backend,
JavaScriptCore's two string refs, and holders with the pointers they have lent.

**WasmCalls** is calls in both directions through `SCRIPTX_STACK` and the two pending
flags. A frame of `frames` is a function of either language with the operation it was
called `via`; the outermost one is a C++ program or JavaScript's event loop. A call is one
step in (`Prepared`, `Invoked`: what is pushed for it), the end of the function another,
and the way back a third (`Arrive`: what EM_JS pushes, what `checkException` looks at, what
`~WasmStackFrameScope` cuts). `saved`, `asked` and `sent` are ghosts. **ScriptCalls** is
what calls promise. **MCMessages**, **MCBackends** and **MCInterop** put modules that share no
state in one specification for TLC: a behaviour is about one of them (in MCBackends
and MCInterop of one backend), chosen in `Init`, and the others stand still.

Operators marked `Mutant:` are wrong variants of the definition that follows them.
No specification uses them; substituted for it, each one breaks a property, which
shows that the property depends on that piece of code. `PROJECT.json` lists which.

## 3. Runs

| Run | Question | Bounds |
|---|---|---|
| `calls` | Ownership, order, wake-ups, the refinement, with every call in any order | 3 threads (looper that also posts, poster, owner), 2 messages of different priority, capacity 1 so that posters wait, clock 0..1 and delays 0 and 1, nesting 2, handlers that post, loop again and throw |
| `overfill` | Who waits for room in a full queue? Where does insertion put a message? Is memory recycled whole? | 3 messages and capacity 1: one runs, one fills the queue, its handler posts the third; every queue of up to 5 messages, 3 due times, 2 priorities; 3 messages that share 2 objects |
| `live` | Do loops end after a shutdown, do messages run, do posters get in? | 2 threads that keep looping, 1 owner, 2 messages, capacity 1, handlers that post |
| `pool` | Do awaiting calls return, with the workers gone and nothing left? | 2 workers, 2 clients (one shuts down, one awaits), 1 message that is due after a tick, handlers that shut the pool down |
| `nest` | Mutual exclusion and balance of nested scopes and exits | 4 backends, 2 threads, 3 engines (2 on one isolate in V8), 4 scopes deep: enough for A, B, exit, A on one thread against the other; threads are symmetric |
| `backends` | What each backend's references, scopes, stack, buffers, instances and platform promise | 2 engines, 2 objects, 2 threads; 2 `Global`s, 2 `Weak`s and a temporary of each; Python: scopes 4 deep; QuickJs: 3 frames, 3 jobs, one of two threads loops; stack: 5 slots, 2 Locals, 3 frames or calls; tables: 3 keys; buffers: 2 memories, objects, Locals and contents; 2 instances of 2 classes; 2 workers of V8 |
| `interop` | Do calls, exceptions, values, numbers, strings, classes, members and programs arrive? | a C++ stack 7 deep (a call inside a call, with its wrapper); 2 variables of type Exception and 2 texts, 4 values of the script; 4 class defines, two of one type, and 3 attempts to register; a class with up to 2 members of one name; 2 objects or arrays of up to 2 elements, arrays with holes up to 3; a counted string and byte buffer, or an object and its array, 2 Locals, one native call, counts up to 4 (3 with the array); numbers of 3, 4 and 7 bits for 16, 32 and 64; programs in programs 2 deep |
| `wasm_calls` | Do nested calls between C++ and JavaScript keep arguments, results and exceptions apart? | 2 values, 6 slots, 3 functions: the outermost one of either language, a call, and a call in it, by every operation |
| `block_outside`, `await_returned`, `wasm_results`, `py_names` | Does the code do what these comments and docs say? | it does not: see below |

`CHECK_DEADLOCK FALSE` is set where the system may really stop: in `backends` and
`py_names` a program may destroy every engine or use up its names and keys, in
`interop` an escaped exception ends the program and attempts and values are used up,
and in `nest` threads of the Lua and V8 backends do wait for each other for ever. In
`calls`, `overfill`, `live`, `pool` and `wasm_calls` the deadlock check is on.

Why these bounds. The hazards of the queue are races of two actors over one flag,
one deadline or one slot: three threads give every pair of roles plus a bystander,
two messages give a first and a later one (three where one has to be in a handler of
a full queue), one tick of the clock separates "due" from "not due yet". `MaxTime`,
`MaxNest`, `MaxDepth` and `Length` are the only bounds that the code does not have;
each is a conjunct of one guard. The safety properties of the queue are proved for
all values anyway (section 5).

In `backends`, two of each kind is where these protocols meet themselves: a copy or a
move has a source and a target, each in one of two engines, and a third reference
only as the temporary of an assignment; two threads are enough for one to be
entered, exited or waiting while the other enters; scopes 4 deep allow enter, enter
another engine, exit and enter again. `PyDepth`, `QjsDepth`, `QjsMaxJobs`,
`MaxSlots`, `MaxLocals`, `MaxScopes` and `MaxKeys` bound what the code does not; the
proofs of section 5 hold for any of them.

In `interop` and `wasm_calls` one level of nesting is what these protocols add: an
exception or a result crosses a frame that was called from a frame of the same kind.
`BindDepth`, `MaxValues`, `MaxMade`, `MaxSize`, `MaxLocals`, `MaxCalls`, `MaxCount`,
`MaxLost`, `EvalDepth`, `MaxSlots` and `MaxFrames` are guards; the widths of
`Numbers` keep the order of the real ones, so that every conversion that can lose
something does.

Fairness. `FairSpec` gives each thread that is inside the queue's code weak
fairness (`Continue`), handlers return (`EndHandler`), and time passes (`Tick`). It
asks for no spurious wake-up, no interrupt and no further call: progress may not
depend on luck. `LoopingSpec` adds that a looping thread calls `loopQueue` again
when it returns, which is how `ThreadPool` and the engines use it. In `FairPoolSpec`
handlers get strong fairness, since a handler that calls `shutdown` is away from
its return point now and then: a handler makes finitely many calls. In `QjsFairness`
a thread that loops comes back to `loopQueue` (it takes a tick that it could take
again and again), and a tick that a thread has taken goes on although other threads
take the lock now and then; scripts make finitely many jobs in the model, and
`JobsRun` assumes that scopes are left. A mutex is not assumed to be fair, so
`AwaitingCallsReturn` excludes the case where other clients take `threadMutex_`
again and again.

### What the code does otherwise than its comments

With a run each:

* `block_outside`: a thread that has once returned from `loopQueue` posts past a
  full queue without blocking (`MessageQueue.cc:47` decrements a copy of the map;
  `MessageQueue.h:280` and `MessageQueue.cc:216` say it blocks).
* `await_returned`: `awaitTermination` may return before the last looper's
  `notify_all` on the queue (`MessageQueue.cc:63` against `MessageQueue.h:295`).
  `ThreadPool` is safe from it, because it joins: `PoolEndsClean`.
* `wasm_results`: a bound function that a script run by C++ calls returns whatever it
  pushed last (`WasmHelper.cc:58`, `:424`), not what it returned
  (`NativeBinding.md:11`). The run allows `Troubles = {"earlierResult"}`; without it the
  promise is kept, and proved (section 5).
* `py_names`: `PyEngine::get` gives what C++ has once set although scripts have
  assigned to the name since (`PyEngine.cc:153` against `Python.md:26`).

Met while modelling; the models have the code's behaviour, or exclude the case where
section 6 says so:

* The queue. `shutdown()` after `shutdownNow()` reopens it (`MessageQueue.cc:178`
  against `MessageQueue.h:289`). A recycled message keeps its tag
  (`MessageQueue.cc:84`), so `removeMessageByTag` may remove another engine's.
* Scopes. `EngineScope` of Lua (`LuaScope.cc:51`) and V8 waits for an engine with the
  previous one still locked, against `Scope.h:33`. `PyEngine`'s constructor saves the
  new sub-interpreter's thread state as the thread's main one (`PyHelper.cc:121`
  against `:135`), which dangles when the engine is destroyed.
* Bound functions. With nothrow, what a getter throws becomes null
  (`Native.hpp:472` against `types.h:103`); a setter whose argument does not convert
  dereferences an empty optional (`:378`); accessors of V8 (`V8Engine.cc:218`) and
  constructors of Python (`PyEngine.cc:373`) let exceptions through the engine's
  frames; Lua accepts a constructor that returned null (`LuaEngine-Native.cc:187`).
* Exceptions. Lua replaces the message of a table that was thrown
  (`LuaHelper.cc:32`); Python makes a second instance of exception types that cannot
  be made with one argument (`PyHelper.cc:276`). Messages grow on their way: in Python
  by the name of the type at every crossing from a script to C++ (`:262`), so that what C++
  threw as `boom` comes back as `Type: boom` and, passed on by another callback, as
  `Type: Type: boom`; in V8 an exception that C++ made of a text has another message when it
  comes back. The tests only ask for the text to be found in the message
  (`ExceptionTest.cc:104`, `:190`), and so does `ExceptionsArrive`, which also counts what
  is in front of it.
* Values. Lua's `clear()` stops at a border of the table
  (`LuaLocalReference.cc:442`), its empty tables are arrays (`:174`), and two nulls
  may differ (`:263`); Python leaves errors behind (`PyLocalReference.cc:241`) and
  NULL items in new lists (`PyValue.cc:131`); V8's `==` reads an empty reference
  (`V8LocalReference.cc:139`); a `Local<ByteBuffer>` of QuickJs takes a count too
  many when copied (`QjsLocalReference.cc:25`).
* Classes. A registration that is retried after a failure keeps the failed one's
  entry in V8 and Python (`V8Engine.cc:380`, `PyEngine.cc:440`); Python's lookups
  throw (`PyEngine.cc:450`) and those of QuickJs, JavaScriptCore and V8 read what an
  unfinished object does not have (`QjsEngine.cc:571`); Python sets a class on every
  part of its namespace (`PyEngine.h:152`). An instance member of Python with the name of
  a static property is passed to that property's setter instead of being installed, since
  `tp_setattro` cannot tell a registration from a script's assignment (`PyHelper.cc:477`,
  `PyEngine.h:418`); `MembersAnswer` excepts such names (`Shared`).
* WebAssembly. An exception in a function that the event loop called
  (`WasmHelper.cc:63`), in `isObject` (`:1023`) or in `arrayClear` (`:1079`) stays
  pending or ends the program.
* Numbers. `isInteger` is true of negative fractions (`Reference.cc:44`); a
  `uint64_t` of 2^63 and more travels as an `int64_t`.
* Strings. Texts with `'\0'` are cut in four backends (`LuaUtils.cc:34`,
  `WasmUtils.cc:28`, `JscValue.cc:51`, `QjsValue.cc:76`); a StringHolder may outlive
  what it points into in Lua, Python (`PyUtils.cc:24`) and WebAssembly;
  `Converter::toCpp` of views returns one (`NativeConverter.hpp:202`).
* Programs. Python's `eval` of several lines or of an assignment swallows exceptions
  and leaves the indicator set, and an expression that raises a SyntaxError runs
  twice (`PyEngine.cc:195`).


## 4. What the properties are about

* `OneOwner`: deque, poster or stack frame, one of them per message. Refusal,
  removal, `shutdownNow` and the end of a handler all release messages.
* `QueueSorted`, `InsertionIsStable`: the order, under concurrent posters whose due
  times were fixed earlier.
* `NoLostWakeup`: three condition variables; a sleeper that has something to do is
  covered by a thread that has still to notify.
* `ShutDownQueueIsEmpty`, `LooperNeverAwaitsRoom`: the shutdown modes and the capacity.
* `ImplementsDelayQueue`: all of it from the outside.
* `LoopsEndAfterShutdown`, `QueuedMessagesRun`, `PostersGetThrough`: liveness.
* `PoolEndsClean`: a pool that has ended is idle, and workers that were awaited are
  gone. `ShutdownEndsPool`, `AwaitingCallsReturn`: it does end.
* `MessagesAreRecycled`: the memory of a message is its user's or the pool's, once.
* `CurrentEngineIsLocked`, `LocksBalanced`, `ExitFreesTheEngine`,
  `ExitsPreviousFirst`: scopes.
* `ReferencesAreListed`: list, count and value of references agree after any sequence
  of copies, moves and swaps; `destroy()` empties what is left.
* `PyStatesSurvive`: no Python thread state that will be loaded again is freed, and
  scopes run with the one that was made for them.
* `TicksAreDue`, `JobsRun`: QuickJs jobs are neither forgotten nor given two ticks.
* `LocalsDesignate`: a Local's position has its value, whatever happened above it.
* `GlobalsHaveEntries`: keys have one owner and no entry is left without one.
* `BuffersAgree`: shared memory is freed once, by its last owner; a copy that nobody
  wrote agrees with its buffer.
* `InstancesDeletedOnce`: no instance is deleted twice, forgotten, or callable after
  it was deleted.
* `TasksGoWithTheirEngine`: V8 is initialized as long as it is needed, and only
  tasks that were being posted while their engine let go of its queue are left. They
  would run in a deleted engine (`V8Platform.cc:128`); the property says that these
  are all.
* `CallsAreAnswered`: a bound function, constructor or accessor answers with what its
  body gave or with an exception of the engine's, whatever fails on the way.
* `ExceptionsArrive`: an exception that crosses a boundary of C++ and script, any
  number of times and in either direction, has a message that contains what was thrown
  first. In front of it is nothing in QuickJs, JavaScriptCore and WebAssembly, at most one
  description in V8, exactly one type name per crossing in Python, and at most one position
  per use of `error` in Lua. JavaScript's values stay the same objects.
* `ValuesAreRead`: what is known of a value decides its casts, numbers and strings
  arrive as they were sent where the backend can hold them, a string's holder keeps
  what it shows, a double is told from an integer as `Reference.cc` does, and the members
  of a class answer as they were defined whatever scripts have assigned before.
* `CountsAgree`: the counts of Locals, of what the engine holds and of what a failed
  call leaves are those of the references there are.
* `RegistryHolds`: a class that was registered can be used, the lookups by type and by
  name agree, and what was registered before a failure stays.
* `ProgramsAreAnswered`: `eval`, `get` and `set` give what the program gave, or throw.
* `ActsAsContainers`, `AddKeepsElements`: objects and arrays are maps and sequences.
* `CallsAreKept`: WebAssembly's calls implement calls with arguments and one answer.
* `TypesOK`, `InteropTypesOK`, `CallsTypeOK`: the type invariants of the modules that a
  run composes.

## 5. Proofs

Eight modules hold the proofs. All of them hold for every value of the constants that
the named assumptions of the modules allow; those ask for finite sets of threads or
objects, bounds of at least 1, and what the code asks of its callers.

**The deque.** `MessageOrder_proofs` proves the lemmas for sequences of any length
over any set of messages: the scans stop where they should (`Scans`,
`PositionSeparates`), insertion keeps the order and adds one message
(`InsertKeepsSorted`, `InsertAddsOne`), removal keeps the others in order
(`EraseKeeps`), the head is first (`HeadIsFirst`).

**The queue.** `MessageQueue_proofs` proves, from `MessageQueueAssumption` alone
(finitely many threads, integer priorities, a capacity and a nesting bound of at
least 1, handlers that do not await the termination, which `MessageQueue.h:124`
forbids them):

| Theorem | Property |
|---|---|
| `TypeCorrect` | `Spec => []TypeOK` |
| `ShutDownForGood` | `Spec => []ShutDownQueueIsEmpty` |
| `LoopersGetRoom` | `Spec => []LooperNeverAwaitsRoom` |
| `WorkersCounted` | `Spec => []WorkerCountExact` |
| `MessagesHaveOneOwner` | `Spec => []OneOwner` |
| `DequeIsSorted` | `Spec => []QueueSorted` |
| `WakeupsAreNotLost` | `Spec => []NoLostWakeup` |
| `KeepsItsPromise` | `Spec => ImplementsDelayQueue` (the refinement) |

(`TypeOK` and `WorkerCountExact` are steps on the way and no run checks them by
themselves.) None of the properties is inductive. The invariant is built in layers,
and each layer is preserved given the ones before it:

1. `Typed`: types, and control: a thread at a step of `loopQueue` has a loop on its
   stack (`LoopersHaveLoops`), one at a step of `postMessage` has a message
   (`PostersHaveMessages`). Without it `Top(t)` means nothing.
2. `Room`: the shutdown and capacity properties, with `LoopersAreKnown` (the map of
   a looper holds the queue), which is why a looper never sleeps for room.
3. `Counted`: stacks are at most `MaxNest` deep and `workerCount_` is the number of
   their frames; `StacksChange` and `FrontOfStack` relate a push and a pop to that
   cardinality.
4. `IdleHands` and `Owners`: the counts of `OneOwner` as facts about single
   messages. `FrameOwns` is the point: a frame below the top always has a running
   message, the top one has none exactly while its loop looks for one, and a leaked
   one only while an exception leaves it. `OwnersAreOne` turns this into `OneOwner`.
5. `QueueSorted`, which needs `Owners`: a new due time belongs to a message that is
   not in the deque.
6. `NoLooperForgotten` and `NoAwaiterForgotten`. The first needs the order: a pop or
   a removal leaves nothing that is due earlier (`FewerIsLater`), so a sleeper's
   deadline is still good.

The refinement then follows action by action (`StepsAsPromised`): `AwaitPop` is
`Take` because the head of a sorted deque runs before everything that is queued.

**The pool.** `MessageQueue_proofs` again: `PoolAlwaysEndsClean` is `PoolSpec => PoolEndsClean`,
for any workers and clients (`ThreadPoolAssumption`: workers only loop, clients never do,
handlers neither loop nor throw). A step of the pool is a step of the queue or none
(`PoolKeepsQueue`), so the layers above hold in a pool as well. `TidyPool` adds what the
pool's own code relies on: a thread outside the queue has no loop on its stack, a client
never has one, a worker that has ended stays outside, and no message has leaked
(`QueueStepIsTidy` says what each step of the queue does to that). Then `joined = Workers`
when `joinWorkers` returns gives the first half of the property, and the exact count of
loops and the owners of messages give the second.

**The other components.** Each has one inductive invariant, a conjunction of named
parts, and the properties follow from it.

| Theorem | Property | Inductive invariant and what it adds |
|---|---|---|
| `Messages_proofs`: `MessagesAreAlwaysRecycled` | `MessagesAreRecycled` | `PoolInv`: the property as facts about each message and object (`Recycled`). `ReleaseRecycles` is the step that matters: a full pool frees, another keeps |
| `Messages_proofs`: `InsertionIsAlwaysStable` | `InsertionIsStable` | `OrderInv`: the queue is sorted and its messages are numbered in the order of their insertion |
| `EngineScope_proofs`: `EnginesAreExclusive`, `LocksAreGivenBack`, `ExitsLetOthersIn`, `RecursiveLocksExitFirst` (and `ScopesAreTyped`) | `CurrentEngineIsLocked`, `LocksBalanced`, `ExitFreesTheEngine`, `ExitsPreviousFirst` | `ScopeInv`. `Balanced(t)`: there is an assignment of sets of locks to the levels of the thread's stack of scopes such that each scope leads from its level to the next (`Fits`) and what the thread has still to do leads from what it holds to the top level (`Leads`). Mutual exclusion alone says nothing of what a destructor will give back |
| `Backends_proofs`: `PyStatesAlwaysSurvive` (and `PyIsTyped`) | `PyStatesSurvive` | `PyInv`: the count of enters is that of the scopes on all stacks, every saved thread state belongs below the scope that saved it (`AllNested`), and the owner of the GIL has its own state loaded (`OwnerIsLoaded`) |
| `Backends_proofs`: `TicksAreAlwaysDue` (and `QjsIsTyped`) | `TicksAreDue` | `QjsInv`: frames are stacked as calls are (`Stacked`), the flag and the tick are one (`TickIsOne`), jobs have a tick or a frame that will post one (`JobsHaveTick`), who is inside has the lock (`LockIsInside`) |
| `Backends_proofs`: `TasksGoWithEngines` (and `IsolatesAreOwned`) | `TasksGoWithTheirEngine` | `PlatformInv`: isolates have owners, owners have an initialized V8, and tasks and posters that are left were late |
| `References_proofs`: `LocalsAlwaysDesignate` (and `StackIsTyped`) | `LocalsDesignate` | `StackInv`: every Local designates its value (`AllDesignate`), scopes are opened above each other (`Nested`), and the Locals outside a scope lie below its base (`OutsideIsBelow`), so that what its end cuts off is nobody's |
| `References_proofs`: `ReferencesAreAlwaysListed` (and `ReferencesAreTyped`), from finitely many references | `ReferencesAreListed` | `RefsInv`: values, nodes and counts of each reference agree (`Sound`, `Balanced`), and what is not constructed is in no list (`Dead`), the temporaries of assignments between two operations included |
| `Interop_proofs`: `InstancesAreDeletedOnce` (and `InstancesAreTyped`) | `InstancesDeletedOnce` | `NativeInv`: an instance has one script object, a living object has its instance whole, and what is doomed is left by its object. `ObjectsGo` serves every action that lets objects die |
| `Wasm_proofs`: `GlobalsKeepTheirEntries` (and `KeysAreTyped`) | `GlobalsHaveEntries` | `WasmInv`: keys in use are below the counter (`KeysAreOld`), so a new one is nobody's (`NewKeysAreUnused`); no two references share one |
| `Wasm_proofs`: `BuffersAlwaysAgree` (and `BuffersAreTyped`) | `BuffersAgree` | `BufferInv`: each Local fits what it was made from, and the count of each memory is the number of its users (`Accounted`). The lemmas `UserComes`, `UserGoes`, `UserSwaps` relate each action to that cardinality |
| `Backends_proofs`: `CountsAlwaysAgree` (and `CountsAreTyped`) | `CountsAgree` | `CountsInv`: the heap is `Good` for the counts that Locals, frames, the holder, Globals and the lost ones have, a frame has a result only when it returns (`NoResultYet`), and what was freed has given back what its slots held |
| `Interop_proofs`: `CallsAlwaysAnswered` | `CallsAreAnswered` | `BindInv`: the frames of the stack are made as calls make them (`Stacked`), and what the innermost frame is given settles the call of the script below it (`AtTop`, `Settles`) |
| `Interop_proofs`: `ExceptionsAlwaysArrive` (and `ExceptionsAreTyped`) | `ExceptionsArrive` | `ExcInv`: each Exception that C++ holds, with whatever of its fields is filled, is `Faithful` to what was thrown first, and so is the value that scripts throw (`IsThrown`) |

**References.** An assignment is five or ten smaller operations on the state of all
references, in five backends, and no invariant of single references holds between
them: after `MoveValue` the list has the node of an empty reference. `References_proofs`
therefore follows a state through an operation. What it does to values is one lemma for
each primitive (`ReplaceIs`, `CopyValueIs`, `MoveValueIs`, `SwapValueIs`, `DropIs`,
`GainIs`): the lists are as before, other references as well, and `Surplus`, the counted
references of an object less those that hold it, does not change. From any state that
such a primitive leaves, the bookkeeping restores what was sound (`AfterCopyIs`,
`AfterMoveIs`, `AfterSwapIs`, `RemoveLists`, `KeepIs`), provided that the program does not
put an empty reference in the place of another (`MayTake`) and swaps within an engine
(`OfOneEngine`). `Result(s, s2, X)` says that an operation leads from a sound state to a
sound one and touches only X; results compose (`ResultsFollow`), which gives Lua's copy
and swap with a temporary and the others' assignment of a Local. Python writes its map
whatever the value is, and its keys have lemmas of their own (`KeySound`, `PyUpdated`).
`destroy()` removes the holders and the counts of all it resets at once
(`ClearBalances`); the collector takes only what `Balanced` says nobody holds. What is
assumed is only that each reference is used in the scope of its engine (the guards of the
model) and that the library is built for one of the five backends throughout.

**Bound functions.** The stack of NativeBinding has many scripts, and an exception goes
through all of them. `Served` says of every frame, not of the innermost one only, which
script made the call that it is about: no script lies between, and no body, unless the
frame is a wrapper that the body called. A body that has not ended is therefore the only
one of its call, and has not thrown, however deep the stack above it is. `Settles` is what
the loop of `adaptOverLoadedFunction` has to know when an alternative ends:
`OverloadInvalidArguments` means that no body has run. It can only say so because
`throwForOverload` is off in every member but the alternatives (`MemberIs`) and `nothrow`
is off in every alternative (`AlternativeIs`): a bound function that was adapted with
`nothrow` would answer null for arguments that the next alternative takes. The proof has
a lemma for each way the stack changes (`FrontKeeps`, `AppendKeeps`, `UpdateKeeps`), and
each action is one or three of them.

**Exceptions.** What C++ catches has a value, a message, or both, and fills one from the
other when it is asked for. `Faithful` therefore relates every combination to the origin,
backend by backend: which kind of value can be held (`HeldKinds`) and which can be thrown
(`ThrownKinds`) decides whether the message survives. It also bounds what is in front of a
text by the hops of the origin (`Added`), and separately for values (`ValueAdds`), because
V8 describes a value when its message is read and changes no value: were values described
too, the next reading would describe them twice. `CrossedIs` and `PrefixedIs` raise both
sides together. Assumed is that the text for "no message" is no message.

**Counts of Locals.** One expression of a backend takes the heap through several changes,
and in between the counts agree with nothing: a value has been made that no Local has yet,
a slot has taken over a count that its caller still gives back. `Good(h, n)` therefore says
of any heap `h` that nothing freed was used and that each value has the counts of the slots
that hold it and `n` more, where `n` is what everything outside the heap owns at that moment.
Each primitive has a lemma that turns a good heap into a good one for another `n` (`IncGood`,
`MadeGood`, `DecGood`, `PutGood`), with what it needs: to count a value it has to be `Alive`,
to give one back `n` has to have one. An action is the composition of these lemmas, and the
sum over Locals, frames and the rest (`OwnedIs`) has to arrive at the same `n`. `Return` is
where `NoResultYet` matters, a result that was counted must not be overwritten; Python's
`getInternalStore` is where `ChainsEnd` does, since it gives back a count of the array that
the store now holds (`DecIs`: nothing else is freed). Assumed is `CountsConstants`, that
values are finitely many and null and the global object are not among them; it is the
assumption `CountsAssumption` of the module, which TLC evaluates in `interop`.

**Calls of WebAssembly.** `Wasm_proofs` proves `CallsTypes` (`CallsTypeOK`) and
`CallsKeepTheirPromise` (`CallsAreKept`: the refinement of ScriptCalls, the action property
`StackIsGivenBack`, and that nothing pends, arguments stay and no noexcept function is
left by an exception), for any values, stack and depth, in programs that do none of the
`Troubles`, each of which really breaks the promise (`wasm_results` shows one).
`CallsInv` orders the functions that run on the stack: of each, what its caller has lies
below `Low`, what it must leave lies below `High`, and `High` of one is at most `Low` of
the ones it called. Only the innermost function changes the stack, above its own `High`
(the slot of its result excepted), so what was saved and what was passed is still there
for all the others. A function of JavaScript neither pushes nor cuts, which is why its
caller finds the top where it left it (`AtTop`). Every action is one of four forms
(`Works`, `Begins`, `Finishes`, `GivesBack`), and the invariant, the refinement and the
action property are proved once for each form; the lemmas per action only say which form
it is.

Two more of the invariants are worth a word. In `EngineScope_proofs` the witness of
`Balanced` changes with every push and pop: an `ExitEngineScope` gives back what the
level below it had taken, so the levels are neither increasing nor decreasing, and only
the assignment as a whole says that the destructors end at the empty set. For
`BuffersAgree`, memory is used by Locals, by script objects and by what C++ keeps;
each action moves at most one user, and the proof of each is the choice of the lemma
that says so.

**Only model-checked.**

* Liveness (`LoopsEndAfterShutdown`, `QueuedMessagesRun`, `PostersGetThrough`,
  `ShutdownEndsPool`, `AwaitingCallsReturn`, `JobsRun`), since fairness and ENABLED
  are outside the prover.
* `TypesOK` and `InteropTypesOK` as a whole: the first is the conjunction of eight type
  invariants, each of which is proved of its component.
* Of the run `interop`, all but `CallsAreAnswered`, `ExceptionsArrive` and `CountsAgree`:
  Values, Numbers, Strings, Evaluation, ClassRegistry and ClassMembers compare what the code
  computes with reference definitions over bounded inputs, by functions over texts, terms
  and programs whose proofs would be inductions over data.

## 6. Abstractions, and what is not modelled

The queue and the pool:

* A message is a name that is posted at most once; recycling is modelled in
  MessagePool. Ids (which wrap at `MessageQueue.cc:225`), the handler's identity and
  the predicate of `removeMessageIf` become "some subset of what is queued".
* The supervisor hooks, `afterMessage` and `cleanup` callbacks change no state of the
  queue and are left out. `setSupervisor` writes unprotected data that loopers read; a
  model of it has nothing else to say.
* The nest count is membership in the thread's map; its overflow is a listed hazard, as
  is `interrupt_`, one sticky flag for all loopers (`MessageQueue.cc:317`).
* The queue of QjsTick is unbounded; what a bounded one does while the lock is held
  (`QjsScope.cc:33`) is a listed hazard.

The life of engines:

* `destroy()` is called while no other thread is in the engine or about to enter it:
  `isDestroying()` is read before the lock (`Scope.cc:47`), a listed hazard no property
  covers. In Python, engines whose thread state is a thread's main one
  (`PyHelper.cc:121`) are not destroyed.
* V8: disposing the platform waits for its workers. No engine is made after
  `immediatelyDestroyPlatform`; a call of it with no engine left takes `lock_` twice and
  does not return, and is excluded.

References and Locals:

* `MayAssign`: assigning an empty reference to one with a value leaves its node in the
  list (`GlobalWeakBookkeeping.hpp:110`) and is excluded, as is Python's assignment of a
  reference to itself. `MaySwap` names what swaps are left out.
* Lua's reset of a slot that two Locals share, Python's Weak of types without weak
  references, copies of a Weak in WebAssembly (which share a key) and the wrap of its
  key counter are excluded.
* `InstancesDeletedOnce` excepts what the code does not promise: Python's instances made
  by C++ and V8's between two passes of the collector when the engine is destroyed.
  Constructors that fail in JavaScriptCore are excluded, and Python's methods are called
  on their own instances only.
* LocalCounts: cycles are not collected; not modelled are arguments that `JS_Call`
  borrows and whose Local a nested callback resets, element sets that fail, the leaks of
  PyMethodDef and of the parts of `nameSpaceSet`, and Lua's StringHolder pointers.

Calls, values and programs:

* NativeBinding: bodies throw `script::Exception` only and receivers are right.
* ClassMembers: one class, the names of each side distinct, scripts that are not in strict
  mode, receivers of Python's methods right, no null instances (NativeBinding's), and no
  names that a Lua class with static properties does not have, for which
  `setupMetaTableForProperties` is given the index 0 (`LuaEngine.cc:331`, `:380`).
* ClassRegistry: without scripts' derived classes, a replaced `prototype` in QuickJs,
  copies of Lua's tables, setters that throw in Lua and Python, and registration from
  within a registration.
* Exceptions: one engine; what Python is given as an exception is one, and its `str()` is
  its first argument (not so `KeyError`, which quotes it); scripts do not assign to the
  message of an error; the wording of what is put in front, stack traces and the truncation
  of long messages in QuickJs (`QjsException.cc:57`) are left out.
* Values: without non-enumerable properties, nested containers, metamethods and
  accessors, `instanceOf`, `describe` and Lua keys that look like numbers; one array at
  a time.
* WasmCalls: without the check of constructor calls, other C++ exceptions of bodies,
  `fillMessage` of debug builds and the destruction of classes.
* Numbers: without the kinds of Lua's and Python's numbers, Booleans, huge Python
  integers and 64-bit reads of WebAssembly. Strings: valid UTF-8 without `'\0'`, no small
  buffers, no allocation that fails (`WasmUtils.cc:30`), holders that do not outlive what
  they show. Both divergences are listed above.
* Evaluation: without lexical declarations, top-level await, and the ticks after an
  `eval` in QuickJs, which are QjsTick's. `Troubles` names the programs left out.

Not modelled at all: the Kotlin backend (the JVM's side of it is not in the
repository), the Template backend (a skeleton), JavaScriptCore's weak references,
`MemoryPool::Allocator`, StackFrameScope outside LocalStack, and logging.

## 7. Plan

All modules of the plan are written. Proved are the queue, its messages, the pool, scopes,
Python's lock, references and Locals and their counts, the QuickJs tick, the V8 platform,
native instances, bound functions, exceptions, and WebAssembly's references, buffers and
calls. What would come next, the most important first:

1. Safety lemmas of single steps of ClassRegistry and Evaluation, where they need no
   induction: what a registration that fails leaves in the tables, what an `eval`
   leaves of Python's error indicator.
2. The four hazards without a property, each of which needs a wider model: `interrupt_`,
   `isDestroying()` before the lock, a bounded queue of ticks, and the assignment of an
   empty reference.
