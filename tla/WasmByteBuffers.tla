-------------------------- MODULE WasmByteBuffers ---------------------------
(***************************************************************************)
(* Local<ByteBuffer> of WebAssembly. An ArrayBuffer is not in the memory   *)
(* of C++: a Local copies it there when its bytes are first asked for, and *)
(* commits them when it goes. A SharedByteBuffer is memory of C++, which   *)
(* shared_ptrs keep; the script object owns one of them through a number.  *)
(***************************************************************************)
EXTENDS Backend

CONSTANTS
  BufferLocals,  \* variables Local<ByteBuffer>
  JsBuffers,     \* objects of JavaScript
  NoBuffer,      \* val_ is -1
  Memories,      \* what malloc returns; an address is not used again
  NoMemory,      \* a null backingStore_
  Contents       \* of a buffer

ASSUME BufferAssumption ==
  /\ NoBuffer \notin JsBuffers /\ NoMemory \notin Memories
  /\ IsFiniteSet(BufferLocals) /\ IsFiniteSet(JsBuffers)
  /\ Contents # {}

VARIABLES
  jsBuffers,
  memories,
  bufferLocals,
  held           \* memory of which the program has a shared_ptr of its own

bufferVars == <<jsBuffers, memories, bufferLocals, held>>

(* owns: the pointer to a shared_ptr that a SharedByteBuffer keeps is not  *)
(* yet 0. destroyed: a delete of it has happened.                          *)
JsBuffer ==
  [kind : {"none", "array", "shared"}, data : Contents, memory : Memories \cup {NoMemory},
   owns : BOOLEAN]
Memory == [state : {"none", "allocated", "freed", "freedTwice"}, count : Int, data : Contents]
(* inStep: neither side has been written since they were last copied.      *)
BufferLocal ==
  [alive : BOOLEAN, val : JsBuffers \cup {NoBuffer}, backing : Memories \cup {NoMemory},
   inStep : BOOLEAN]

BufferTypeOK ==
  /\ jsBuffers \in [JsBuffers -> JsBuffer]
  /\ memories \in [Memories -> Memory]
  /\ bufferLocals \in [BufferLocals -> BufferLocal]
  /\ held \subseteq Memories

Dead == [alive |-> FALSE, val |-> NoBuffer, backing |-> NoMemory, inStep |-> FALSE]
SomeContents == CHOOSE d \in Contents : TRUE

BufferInit ==
  /\ jsBuffers = [j \in JsBuffers |->
       [kind |-> "none", data |-> SomeContents, memory |-> NoMemory, owns |-> FALSE]]
  /\ memories = [m \in Memories |-> [state |-> "none", count |-> 0, data |-> SomeContents]]
  /\ bufferLocals = [l \in BufferLocals |-> Dead]
  /\ held = {}

-----------------------------------------------------------------------------

Counted(ms, m) == IF m = NoMemory THEN ms ELSE [ms EXCEPT ![m].count = @ + 1]
Freed(r) ==
  [r EXCEPT !.count = @ - 1,
            !.state = IF r.count > 1 THEN @ ELSE IF r.count = 1 THEN "freed" ELSE "freedTwice"]
Uncounted(ms, m) == IF m = NoMemory THEN ms ELSE [ms EXCEPT ![m] = Freed(@)]

Allocated(m, d) ==
  /\ memories[m].state = "none"
  /\ memories' = [memories EXCEPT ![m] = [state |-> "allocated", count |-> 1, data |-> d]]

Holding(j, m, inStep) == [alive |-> TRUE, val |-> j, backing |-> m, inStep |-> inStep]

(* The program declares l.                                                 *)
Declare(l, r) ==
  ~bufferLocals[l].alive /\ bufferLocals' = [bufferLocals EXCEPT ![l] = r]

Copies(r) == r.val # NoBuffer /\ r.backing # NoMemory /\ jsBuffers[r.val].kind = "array"

(* Mutant: what commits is what sync does.                                 *)
CommittedBackwards(r) == jsBuffers

(* ByteBufferHelper::commit.                                               *)
Committed(r) ==
  IF Copies(r)
  THEN [jsBuffers EXCEPT ![r.val].data = memories[r.backing].data]
  ELSE jsBuffers

(* Another Local of the ArrayBuffer may have other memory.                 *)
AfterCommit(locals, r) ==
  IF ~Copies(r) THEN locals
  ELSE [l \in BufferLocals |->
         IF locals[l].val # r.val THEN locals[l]
         ELSE [locals[l] EXCEPT !.inStep = locals[l].backing = r.backing]]

-----------------------------------------------------------------------------
(* Where buffers come from.                                                *)

ArrayBuffer(j, d) ==
  /\ jsBuffers[j].kind = "none"
  /\ jsBuffers' = [jsBuffers EXCEPT ![j].kind = "array", ![j].data = d]

SharedByteBuffer(j, m) ==
  /\ jsBuffers[j].kind = "none"
  /\ jsBuffers' = [jsBuffers EXCEPT ![j].kind = "shared", ![j].memory = m, ![j].owns = TRUE]

ScriptNews(j) ==
  \/ \E d \in Contents : ArrayBuffer(j, d) /\ UNCHANGED <<memories, bufferLocals, held>>
  \/ \E m \in Memories, d \in Contents :
       Allocated(m, d) /\ SharedByteBuffer(j, m) /\ UNCHANGED <<bufferLocals, held>>

(* newByteBuffer(nativeBuffer, size) fills the memory, writes it and       *)
(* commits.                                                                *)
newByteBuffer(l, j, m, d) ==
  /\ ArrayBuffer(j, d)
  /\ Allocated(m, d)
  /\ Declare(l, Holding(j, m, TRUE))
  /\ UNCHANGED held

newShared(l, m, d) ==
  /\ Allocated(m, d)
  /\ Declare(l, Holding(NoBuffer, m, FALSE))
  /\ UNCHANGED <<jsBuffers, held>>

asByteBuffer(l, j) ==
  /\ jsBuffers[j].kind # "none"
  /\ Declare(l, Holding(j, NoMemory, FALSE))
  /\ UNCHANGED <<jsBuffers, memories, held>>

(* Each Local of memory without an object makes an object of its own.      *)
fillWrapperIfNeed(l) ==
  LET r == bufferLocals[l]
  IN  /\ r.val = NoBuffer /\ r.backing # NoMemory
      /\ \E j \in JsBuffers :
           /\ SharedByteBuffer(j, r.backing)
           /\ bufferLocals' = [bufferLocals EXCEPT ![l].val = j]
      /\ memories' = Counted(memories, r.backing)
      /\ UNCHANGED held

(* getRawBytes. The bytes of an object that was destroyed are null.        *)
fillBackingStore(l) ==
  LET r == bufferLocals[l]
      b == jsBuffers[r.val]
  IN  /\ r.backing = NoMemory /\ r.val # NoBuffer
      /\ \/ /\ b.kind = "array"
            /\ \E m \in Memories :
                 /\ Allocated(m, b.data)
                 /\ bufferLocals' = [bufferLocals EXCEPT ![l] = Holding(r.val, m, TRUE)]
         \/ /\ b.kind = "shared" /\ b.owns
            /\ memories' = Counted(memories, b.memory)
            /\ bufferLocals' = [bufferLocals EXCEPT ![l].backing = b.memory]
      /\ UNCHANGED <<jsBuffers, held>>

-----------------------------------------------------------------------------
(* Writes, and copies between the two sides.                               *)

WriteMemory(m, d) ==
  /\ memories' = [memories EXCEPT ![m].data = d]
  /\ bufferLocals' = [l \in BufferLocals |->
       [bufferLocals[l] EXCEPT !.inStep = @ /\ bufferLocals[l].backing # m]]

WriteBytes(l, d) ==
  /\ bufferLocals[l].backing # NoMemory
  /\ WriteMemory(bufferLocals[l].backing, d)
  /\ UNCHANGED <<jsBuffers, held>>

ScriptWrites(j, d) ==
  \/ /\ jsBuffers[j].kind = "array"
     /\ jsBuffers' = [jsBuffers EXCEPT ![j].data = d]
     /\ bufferLocals' = [l \in BufferLocals |->
          [bufferLocals[l] EXCEPT !.inStep = @ /\ bufferLocals[l].val # j]]
     /\ UNCHANGED <<memories, held>>
  \/ jsBuffers[j].owns /\ WriteMemory(jsBuffers[j].memory, d) /\ UNCHANGED <<jsBuffers, held>>

commit(l) ==
  LET r == bufferLocals[l]
  IN  /\ jsBuffers' = Committed(r)
      /\ bufferLocals' = AfterCommit(bufferLocals, r)
      /\ UNCHANGED <<memories, held>>

sync(l) ==
  LET r == bufferLocals[l]
  IN  /\ Copies(r)
      /\ memories' = [memories EXCEPT ![r.backing].data = jsBuffers[r.val].data]
      /\ bufferLocals' = [k \in BufferLocals |->
           [bufferLocals[k] EXCEPT !.inStep =
              IF bufferLocals[k].backing = r.backing THEN bufferLocals[k].val = r.val ELSE @]]
      /\ UNCHANGED <<jsBuffers, held>>

-----------------------------------------------------------------------------
(* Copies, moves and destructors of Locals.                                *)

BufferCopy(a, b) ==
  /\ bufferLocals[b].alive
  /\ Declare(a, bufferLocals[b])
  /\ memories' = Counted(memories, bufferLocals[b].backing)
  /\ UNCHANGED <<jsBuffers, held>>

(* What is moved from is told to have val_ -1, and keeps its memory when   *)
(* it has that already.                                                    *)
MovedFrom(r) == IF r.val = NoBuffer THEN r ELSE Holding(NoBuffer, NoMemory, FALSE)

BufferMove(a, b) ==
  LET r == bufferLocals[b]
  IN  /\ ~bufferLocals[a].alive /\ r.alive
      /\ bufferLocals' = [bufferLocals EXCEPT ![a] = r, ![b] = MovedFrom(r)]
      /\ memories' = IF r.val = NoBuffer THEN Counted(memories, r.backing) ELSE memories
      /\ UNCHANGED <<jsBuffers, held>>

(* Through a temporary, which commits what a had.                          *)
BufferAssign(a, b) ==
  LET old == bufferLocals[a]  new == bufferLocals[b]
  IN  /\ old.alive /\ new.alive
      /\ jsBuffers' = Committed(old)
      /\ bufferLocals' = AfterCommit([bufferLocals EXCEPT ![a] = new], old)
      /\ memories' = Uncounted(Counted(memories, new.backing), old.backing)
      /\ UNCHANGED held

BufferDestruct(l) ==
  LET r == bufferLocals[l]
  IN  /\ r.alive
      /\ jsBuffers' = Committed(r)
      /\ bufferLocals' = AfterCommit([bufferLocals EXCEPT ![l] = Dead], r)
      /\ memories' = Uncounted(memories, r.backing)
      /\ UNCHANGED held

-----------------------------------------------------------------------------
(* The program's own shared_ptr, and the end of a SharedByteBuffer.        *)

getRawBytesShared(l) ==
  LET m == bufferLocals[l].backing
  IN  /\ m # NoMemory /\ m \notin held
      /\ held' = held \cup {m}
      /\ memories' = Counted(memories, m)
      /\ UNCHANGED <<jsBuffers, bufferLocals>>

ReleaseBytes(m) ==
  /\ m \in held
  /\ held' = held \ {m}
  /\ memories' = Uncounted(memories, m)
  /\ UNCHANGED <<jsBuffers, bufferLocals>>

(* Mutant: the number stays in the object.                                 *)
DestroyKeeping(j) ==
  /\ jsBuffers' = jsBuffers
  /\ memories' = IF jsBuffers[j].owns THEN Uncounted(memories, jsBuffers[j].memory) ELSE memories

(* destroy() of the object; the number is 0 the second time.               *)
Destroy(j) ==
  /\ jsBuffers' = [jsBuffers EXCEPT ![j].owns = FALSE]
  /\ memories' = IF jsBuffers[j].owns THEN Uncounted(memories, jsBuffers[j].memory) ELSE memories

ScriptDestroys(j) ==
  jsBuffers[j].kind = "shared" /\ Destroy(j) /\ UNCHANGED <<bufferLocals, held>>

destroySharedByteBuffer(l) ==
  LET j == bufferLocals[l].val
  IN  /\ j # NoBuffer /\ jsBuffers[j].kind = "shared"
      /\ Destroy(j)
      /\ bufferLocals' = [bufferLocals EXCEPT ![l].val = NoBuffer]
      /\ UNCHANGED held

BufferNext ==
  \/ \E j \in JsBuffers :
       ScriptNews(j) \/ ScriptDestroys(j) \/ \E d \in Contents : ScriptWrites(j, d)
  \/ \E l \in BufferLocals :
       \/ \E j \in JsBuffers, m \in Memories, d \in Contents : newByteBuffer(l, j, m, d)
       \/ \E m \in Memories, d \in Contents : newShared(l, m, d)
       \/ \E j \in JsBuffers : asByteBuffer(l, j)
       \/ \E d \in Contents : WriteBytes(l, d)
       \/ fillWrapperIfNeed(l) \/ fillBackingStore(l) \/ commit(l) \/ sync(l)
       \/ BufferDestruct(l) \/ getRawBytesShared(l) \/ destroySharedByteBuffer(l)
  \/ \E a, b \in BufferLocals :
       BufferCopy(a, b) \/ BufferMove(a, b) \/ BufferAssign(a, b)
  \/ \E m \in Memories : ReleaseBytes(m)

-----------------------------------------------------------------------------

Owners(m) ==
  Cardinality({l \in BufferLocals : bufferLocals[l].backing = m})
  + Cardinality({j \in JsBuffers : jsBuffers[j].owns /\ jsBuffers[j].memory = m})
  + (IF m \in held THEN 1 ELSE 0)

(* Memory is freed once, when the last Local, object and shared_ptr let go *)
(* of it, whoever destroys the object; and an ArrayBuffer and a Local's    *)
(* copy of it agree when neither was written, nor another Local of it      *)
(* committed, since the last copy, whichever Locals were copied and moved. *)
BuffersAgree ==
  /\ \A m \in Memories :
       /\ memories[m].state # "freedTwice"
       /\ memories[m].count = Owners(m)
       /\ memories[m].state = "allocated" <=> Owners(m) > 0
  /\ \A l \in BufferLocals :
       bufferLocals[l].inStep =>
         jsBuffers[bufferLocals[l].val].data = memories[bufferLocals[l].backing].data
=============================================================================
