-------------------------- MODULE PlainContainers --------------------------
(***************************************************************************)
(* What a program may expect of Local<Object> and Local<Array> whatever    *)
(* the backend: objects map keys to values and may inherit from another    *)
(* object, arrays are sequences from 0 that are filled with null.          *)
(***************************************************************************)
EXTENDS Naturals, Sequences

CONSTANTS
  Cells,     \* what a container can be
  Keys,
  Data,      \* what a container can hold
  Null,      \* \in Data
  MaxSize    \* bound: the largest array

VARIABLES
  contents,  \* of each container
  result     \* of the last operation

NoParent == 0
NotMade == [kind |-> "none", at |-> <<>>, parent |-> NoParent]
Object(at, parent) == [kind |-> "object", at |-> at, parent |-> parent]
Array(at) == [kind |-> "array", at |-> at, parent |-> NoParent]
Result(op, c, ret) == [op |-> op, cell |-> c, ret |-> ret]

Put(f, k, v) == [x \in DOMAIN f \cup {k} |-> IF x = k THEN v ELSE f[x]]
Drop(f, k) == [x \in DOMAIN f \ {k} |-> f[x]]
Filled(f, n) == [i \in 0..n - 1 |-> IF i \in DOMAIN f THEN f[i] ELSE Null]
Size(c) == IF DOMAIN contents[c].at = {} THEN 0
           ELSE 1 + CHOOSE i \in DOMAIN contents[c].at : i + 1 \notin DOMAIN contents[c].at

Objects == {c \in Cells : contents[c].kind = "object"}
Arrays == {c \in Cells : contents[c].kind = "array"}

Own(c) == contents[c].at
Inherited(c) == IF contents[c].parent \in Objects THEN Own(contents[c].parent) ELSE <<>>

Init ==
  /\ contents = [c \in Cells |-> NotMade]
  /\ result = Result("none", NoParent, Null)

Make(op, new) ==
  \E c \in Cells :
    /\ result' = Result(op, c, Null)
    /\ contents[c] = NotMade
    /\ contents' = [contents EXCEPT ![c] = new]

NewObject == \E p \in Objects \cup {NoParent} : Make("newObject", Object(<<>>, p))
NewArray == \E n \in 0..MaxSize : Make("newArray", Array(Filled(<<>>, n)))
NewArrayOf ==
  \E n \in 0..MaxSize : \E at \in [0..n - 1 -> Data] : Make("newArray", Array(at))

Read(op, c, ret) ==
  /\ result' = Result(op, c, ret)
  /\ UNCHANGED contents

Write(op, c, at) ==
  /\ result' = Result(op, c, Null)
  /\ contents' = [contents EXCEPT ![c].at = at]

ObjectGet ==
  \E c \in Objects, k \in Keys :
    Read("get", c, IF k \in DOMAIN Own(c) THEN Own(c)[k]
                   ELSE IF k \in DOMAIN Inherited(c) THEN Inherited(c)[k]
                   ELSE Null)

(* Whether what is inherited counts is up to the backend.                  *)
ObjectHas ==
  \E c \in Objects, k \in Keys, has \in BOOLEAN :
    /\ has => k \in DOMAIN Own(c) \cup DOMAIN Inherited(c)
    /\ k \in DOMAIN Own(c) => has
    /\ Read("has", c, has)

ObjectKeys ==
  \E c \in Objects : \E more \in SUBSET DOMAIN Inherited(c) :
    Read("keys", c, DOMAIN Own(c) \cup more)

(* Setting null may remove the key.                                        *)
ObjectSet ==
  \E c \in Objects, k \in Keys, v \in Data :
    \/ Write("set", c, Put(Own(c), k, v))
    \/ v = Null /\ Write("set", c, Drop(Own(c), k))

ObjectRemove == \E c \in Objects, k \in Keys : Write("remove", c, Drop(Own(c), k))

ArraySize == \E c \in Arrays : Read("size", c, Size(c))

ArrayGet ==
  \E c \in Arrays, i \in 0..MaxSize :
    Read("get", c, IF i \in DOMAIN Own(c) THEN Own(c)[i] ELSE Null)

ArraySet ==
  \E c \in Arrays, i \in 0..MaxSize - 1, v \in Data :
    Write("set", c, Put(Filled(Own(c), IF i < Size(c) THEN Size(c) ELSE i), i, v))

ArrayAdd ==
  \E c \in Arrays, v \in Data :
    /\ Size(c) < MaxSize
    /\ Write("add", c, Put(Own(c), Size(c), v))

ArrayClear == \E c \in Arrays : Write("clear", c, <<>>)

Call == \E c \in Cells : Read("call", c, Null)

(* An array may be an object, and an object an array.                      *)
KindOf ==
  \E c \in Objects \cup Arrays, kind \in {"Object", "Array"} : Read("getKind", c, kind)

(* Nulls are equal.                                                        *)
Compare ==
  /\ \/ \E answer \in {"equal", "different"} : result' = Result("equals", NoParent, answer)
     \/ result' = Result("equalsNull", NoParent, "equal")
  /\ UNCHANGED contents

Next ==
  \/ ArraySize \/ ArrayGet \/ ArraySet \/ ArrayAdd \/ ArrayClear
  \/ ObjectGet \/ ObjectHas \/ ObjectKeys \/ ObjectSet \/ ObjectRemove
  \/ Call \/ KindOf \/ Compare
  \/ NewObject \/ NewArray \/ NewArrayOf

Spec == Init /\ [][Next]_<<contents, result>>
=============================================================================
