---------------------------- MODULE MessagePool ----------------------------
(***************************************************************************)
(* The memory of messages: obtained from the pool of their queue or from   *)
(* the heap, filled in by a poster, given to the queue, and back in the    *)
(* pool, cleaned, once they were handled, removed or refused. The pool has *)
(* a mutex, and a message is cleaned by the one thread that took it from   *)
(* the queue, so obtain and release are a step each. The order of the queue*)
(* and its shutdown are MessageQueue's: here it may refuse any message.    *)
(***************************************************************************)
EXTENDS Naturals, SequencesExt, FiniteSetsExt

CONSTANTS
  Items,         \* memory for messages
  Objects,       \* what a cleanupProc destroys: objects in messages, resources
  Tags,          \* mostly engines
  NoTag,
  NoObject,
  PoolCapacity   \* kDefaultPoolSize

ASSUME PoolAssumption ==
  /\ IsFiniteSet(Items)
  /\ PoolCapacity \in Nat
  /\ NoObject \notin Objects

VARIABLES
  pool,     \* MemoryPool::pool_
  msgs,     \* every item: where it is, and the fields of Message
  objects,  \* what became of each object
  isOpen    \* the queue was not destroyed

poolVars == <<pool, msgs, objects, isOpen>>

(* given is no field: the tag that the one who obtained it has set.        *)
Message == [at: {"heap", "pool", "held", "queue", "running", "leaked"},
            tag: Tags \cup {NoTag}, given: Tags \cup {NoTag},
            hasHandler: BOOLEAN, object: Objects \cup {NoObject}]
NewMessage ==
  [at |-> "heap", tag |-> NoTag, given |-> NoTag, hasHandler |-> FALSE, object |-> NoObject]

PoolInit ==
  /\ pool = <<>>
  /\ msgs = [i \in Items |-> NewMessage]
  /\ objects = [o \in Objects |-> "unborn"]
  /\ isOpen = TRUE

At(where) == {i \in Items : msgs[i].at = where}

(* pool_.back(), or a new message.                                         *)
Obtainable == IF pool = <<>> THEN At("heap") ELSE {Last(pool)}
(* Mutant: pop_back is missing.                                            *)
RestAll == pool
Rest == IF pool = <<>> THEN <<>> ELSE Front(pool)

obtainInplaceMessage ==
  /\ isOpen
  /\ pool' = Rest
  /\ \E i \in Obtainable :
       msgs' = [msgs EXCEPT ![i].at = "held", ![i].hasHandler = TRUE, ![i].given = NoTag]
  /\ UNCHANGED <<objects, isOpen>>

(* A second call throws.                                                   *)
inplaceObject ==
  \E i \in At("held"), o \in Objects :
    /\ msgs[i].object = NoObject /\ objects[o] = "unborn"
    /\ msgs' = [msgs EXCEPT ![i].object = o]
    /\ objects' = [objects EXCEPT ![o] = "alive"]
    /\ UNCHANGED <<pool, isOpen>>

SetTag ==
  \E i \in At("held"), t \in Tags :
    /\ msgs' = [msgs EXCEPT ![i].tag = t, ![i].given = t]
    /\ UNCHANGED <<pool, objects, isOpen>>

(* The unique_ptr of a message that was not posted: its destructor runs no *)
(* cleanupProc.                                                            *)
Discard ==
  \E i \in At("held") :
    /\ msgs' = [msgs EXCEPT ![i] = NewMessage]
    /\ UNCHANGED <<pool, objects, isOpen>>

-----------------------------------------------------------------------------
(* Mutant: cleanupProc stays.                                              *)
performCleanupLess(message) == [message EXCEPT !.hasHandler = FALSE]

(* All fields but tag.                                                     *)
performCleanup(message) ==
  [message EXCEPT !.hasHandler = FALSE, !.object = NoObject]

Destroyed(state) == IF state = "alive" THEN "dead" ELSE "destroyedTwice"

(* releaseMessage of some messages, one after the other: the pool keeps    *)
(* them as long as it has room, the others are deleted.                    *)
Kept(room, released) == SubSeq(released, 1, Min({room, Len(released)}))

(* Mutant: the pool deletes nothing.                                       *)
ReleaseToFull(from, released, ms, os) ==
  LET gone == {ms[i].object : i \in ToSet(released)} \ {NoObject}
  IN /\ pool' = from \o released
     /\ msgs' = [i \in Items |->
                   IF i \in ToSet(released) THEN [performCleanup(ms[i]) EXCEPT !.at = "pool"]
                   ELSE ms[i]]
     /\ objects' = [o \in Objects |-> IF o \in gone THEN Destroyed(os[o]) ELSE os[o]]

Release(from, released, ms, os) ==
  LET kept == Kept(PoolCapacity - Len(from), released)
      gone == {ms[i].object : i \in ToSet(released)} \ {NoObject}
  IN /\ pool' = from \o kept
     /\ msgs' = [i \in Items |->
                   IF i \in ToSet(kept) THEN [performCleanup(ms[i]) EXCEPT !.at = "pool"]
                   ELSE IF i \in ToSet(released) THEN NewMessage
                   ELSE ms[i]]
     /\ objects' = [o \in Objects |-> IF o \in gone THEN Destroyed(os[o]) ELSE os[o]]

(* The queue takes the message or, shut down, gives it back.               *)
Post(from, i, ms, os) ==
  \/ pool' = from /\ msgs' = [ms EXCEPT ![i].at = "queue"] /\ objects' = os
  \/ Release(from, <<i>>, ms, os)

(* postMessage of an InplaceMessage, which throws when nothing was placed. *)
PostInplace ==
  /\ isOpen
  /\ \E i \in At("held") : msgs[i].object # NoObject /\ Post(pool, i, msgs, objects)
  /\ UNCHANGED isOpen

(* postMessage of a Message of the caller, which is assigned to one of the *)
(* pool's; what its cleanupProc destroys was the caller's until then.      *)
PostCopy ==
  /\ isOpen
  /\ \E i \in Obtainable, t \in Tags \cup {NoTag}, o \in Objects \cup {NoObject} :
       /\ o # NoObject => objects[o] = "unborn"
       /\ Post(Rest, i,
               [msgs EXCEPT ![i] = [at |-> "held", tag |-> t, given |-> t,
                                    hasHandler |-> TRUE, object |-> o]],
               [p \in Objects |-> IF p = o THEN "alive" ELSE objects[p]])
  /\ UNCHANGED isOpen

Handle ==
  /\ isOpen
  /\ \E i \in At("queue") : msgs' = [msgs EXCEPT ![i].at = "running"]
  /\ UNCHANGED <<pool, objects, isOpen>>

processMessage ==
  /\ \E i \in At("running") : Release(pool, <<i>>, msgs, objects)
  /\ UNCHANGED isOpen

(* The exception leaves loopQueue; nobody has the message any more.        *)
HandlerThrows ==
  /\ \E i \in At("running") : msgs' = [msgs EXCEPT ![i].at = "leaked"]
  /\ UNCHANGED <<pool, objects, isOpen>>

RemoveAll(removed) ==
  /\ removed # {}
  /\ \E released \in SetToSeqs(removed) : Release(pool, released, msgs, objects)

removeMessage ==
  /\ isOpen /\ UNCHANGED isOpen
  /\ \E i \in At("queue") : RemoveAll({i})

removeMessageByTag ==
  /\ isOpen /\ UNCHANGED isOpen
  /\ \E t \in Tags : RemoveAll({i \in At("queue") : msgs[i].tag = t})

shutdownNow == isOpen /\ RemoveAll(At("queue")) /\ UNCHANGED isOpen

(* ~MessageQueue, when its queue is empty and no loop runs.                *)
DestroyQueue ==
  /\ isOpen /\ At("queue") \cup At("running") = {}
  /\ isOpen' = FALSE
  /\ pool' = <<>>
  /\ msgs' = [i \in Items |-> IF msgs[i].at = "pool" THEN NewMessage ELSE msgs[i]]
  /\ UNCHANGED objects

PoolNext ==
  \/ obtainInplaceMessage \/ inplaceObject \/ SetTag \/ Discard
  \/ PostInplace \/ PostCopy
  \/ Handle \/ processMessage \/ HandlerThrows
  \/ removeMessage \/ removeMessageByTag \/ shutdownNow
  \/ DestroyQueue

PoolSpec == PoolInit /\ [][PoolNext]_poolVars
-----------------------------------------------------------------------------
(* PROPERTIES *)

(* Types; and the pool never holds more than its capacity.                 *)
PoolTypeOK ==
  /\ pool \in Seq(Items) /\ Len(pool) <= PoolCapacity
  /\ msgs \in [Items -> Message]
  /\ objects \in [Objects -> {"unborn", "alive", "dead", "destroyedTwice"}]
  /\ isOpen \in BOOLEAN

(* Memory in the pool, never more than its capacity, is nobody else's and  *)
(* in it once, so that no two users ever obtain it.                        *)
OneUser ==
  /\ PoolTypeOK
  /\ IsInjective(pool)
  /\ ToSet(pool) = At("pool")

(* What a message was given to clean is destroyed when the message goes    *)
(* back, and only then: no object is destroyed twice, none while a message *)
(* in use has it, and none lives on in a message that is free.             *)
ObjectsAreCleanedOnce ==
  /\ \A o \in Objects : objects[o] # "destroyedTwice"
  /\ \A i \in Items :
       LET o == msgs[i].object
       IN o # NoObject => msgs[i].at \notin {"heap", "pool"} /\ objects[o] = "alive"
  /\ \A i, j \in Items : msgs[i].object = msgs[j].object => i = j \/ msgs[i].object = NoObject

(* Together: memory has one user, and what a message owns one end.         *)
MessagesAreRecycled == OneUser /\ ObjectsAreCleanedOnce
=============================================================================
