-------------------------- MODULE References_proofs -------------------------
(***************************************************************************)
(* What references designate. Globals and Weaks with a value are listed    *)
(* once, counted and their engine's, for any references, engines and       *)
(* objects of five backends: an operation is followed through its steps,   *)
(* what it does to values and counts, what the list then does, and what is *)
(* left of the temporary. Locals that are places in a stack have the value *)
(* they were made for, whatever happens to the stack.                      *)
(***************************************************************************)
EXTENDS References, LocalStack, SequenceTheorems, FiniteSetTheorems, TLAPS

(* The program, built for one backend.                                     *)
RefBackends == {"QuickJs", "V8", "JavaScriptCore", "Lua", "Python"}
RefsSpec ==
  /\ RefsInit /\ backend \in RefBackends
  /\ [][RefsNext /\ UNCHANGED backend]_<<refsVars, backend>>

-----------------------------------------------------------------------------
(* What the smallest operations do to each reference.                      *)

Fields(s) ==
  /\ s.engine \in [Handles -> Engines \cup {NoEngine}]
  /\ s.object \in [Handles -> Objects \cup {NoObject}]
  /\ s.handle \in [Handles -> Engines \cup {NoEngine}]
  /\ s.nodes \in [Engines -> [Handles -> Int]]
  /\ s.strong \in [Objects -> Int]

LEMMA StateHasFields == ASSUME NEW s \in RefState PROVE Fields(s)
  BY DEF Fields, RefState

(* s2 has the values that s has, and counts the same.                      *)
SameValues(s, s2) == s2.engine = s.engine /\ s2.object = s.object /\ s2.strong = s.strong
SameLists(s, s2) == s2.handle = s.handle /\ s2.nodes = s.nodes

LEMMA RowChanges ==
  ASSUME NEW m \in [Engines -> [Handles -> Int]], NEW e \in Engines, NEW h \in Handles,
         NEW n \in Int
  PROVE  LET m2 == [m EXCEPT ![e] = [m[e] EXCEPT ![h] = n]]
         IN  /\ m2 \in [Engines -> [Handles -> Int]]
             /\ \A f \in Engines, k \in Handles :
                  m2[f][k] = IF f = e /\ k = h THEN n ELSE m[f][k]
<1>. DEFINE row == [m[e] EXCEPT ![h] = n]
            m2 == [m EXCEPT ![e] = row]
<1>1. m[e] \in [Handles -> Int]
  OBVIOUS
<1>2. row \in [Handles -> Int] /\ \A k \in Handles : row[k] = IF k = h THEN n ELSE m[e][k]
  BY <1>1
<1>. HIDE DEF row
<1>3. m2 \in [Engines -> [Handles -> Int]] /\ \A f \in Engines : m2[f] = IF f = e THEN row ELSE m[f]
  BY <1>2
<1>. HIDE DEF m2
<1>4. \A f \in Engines, k \in Handles : m2[f][k] = IF f = e /\ k = h THEN n ELSE m[f][k]
  BY <1>2, <1>3
<1>. QED
  BY <1>3, <1>4 DEF m2, row

AddDoes(s, s2, e, h) ==
  /\ \A k \in Handles : s2.handle[k] = IF k = h THEN e ELSE s.handle[k]
  /\ \A f \in Engines, k \in Handles :
       s2.nodes[f][k] = IF f = e /\ k = h THEN s.nodes[f][k] + 1 ELSE s.nodes[f][k]

LEMMA AddIs ==
  ASSUME NEW s \in RefState, NEW e \in Engines, NEW h \in Handles
  PROVE  Add(s, e, h) \in RefState /\ SameValues(s, Add(s, e, h)) /\ AddDoes(s, Add(s, e, h), e, h)
<1>. DEFINE row == [s.nodes[e] EXCEPT ![h] = s.nodes[e][h] + 1]
            nodes2 == [s.nodes EXCEPT ![e] = row]
            handle2 == [s.handle EXCEPT ![h] = e]
            s2 == [s EXCEPT !.nodes = nodes2, !.handle = handle2]
<1>1. Fields(s)
  BY StateHasFields
<1>2. /\ nodes2 \in [Engines -> [Handles -> Int]]
      /\ \A f \in Engines, k \in Handles :
           nodes2[f][k] = IF f = e /\ k = h THEN s.nodes[f][k] + 1 ELSE s.nodes[f][k]
  BY <1>1, RowChanges DEF Fields
<1>3. /\ handle2 \in [Handles -> Engines \cup {NoEngine}]
      /\ \A k \in Handles : handle2[k] = IF k = h THEN e ELSE s.handle[k]
  BY <1>1 DEF Fields
<1>4. Add(s, e, h) = s2
  BY DEF Add, RefState
<1>. HIDE DEF nodes2, handle2
<1>5. /\ s2 \in RefState /\ s2.nodes = nodes2 /\ s2.handle = handle2
      /\ s2.engine = s.engine /\ s2.object = s.object /\ s2.strong = s.strong
  BY <1>2, <1>3 DEF RefState
<1>. QED
  BY <1>2, <1>3, <1>4, <1>5 DEF SameValues, AddDoes

RemoveDoes(s, s2, h) ==
  /\ \A k \in Handles : s2.handle[k] = IF k = h THEN NoEngine ELSE s.handle[k]
  /\ \A f \in Engines, k \in Handles :
       s2.nodes[f][k] = IF f = s.handle[h] /\ k = h THEN s.nodes[f][k] - 1 ELSE s.nodes[f][k]

LEMMA RemoveIs ==
  ASSUME NEW s \in RefState, NEW h \in Handles
  PROVE  /\ Remove(s, h) \in RefState /\ SameValues(s, Remove(s, h))
         /\ RemoveDoes(s, Remove(s, h), h)
<1>1. Fields(s)
  BY StateHasFields
<1>2. CASE s.handle[h] = NoEngine
  BY <1>1, <1>2, BackendAssumption DEF Remove, Fields, SameValues, RemoveDoes
<1>3. CASE s.handle[h] # NoEngine
  <2>. DEFINE e == s.handle[h]
              row == [s.nodes[e] EXCEPT ![h] = s.nodes[e][h] - 1]
              nodes2 == [s.nodes EXCEPT ![e] = row]
              handle2 == [s.handle EXCEPT ![h] = NoEngine]
              s2 == [s EXCEPT !.nodes = nodes2, !.handle = handle2]
  <2>1. e \in Engines
    BY <1>1, <1>3 DEF Fields
  <2>2. /\ nodes2 \in [Engines -> [Handles -> Int]]
        /\ \A f \in Engines, k \in Handles :
             nodes2[f][k] = IF f = e /\ k = h THEN s.nodes[f][k] - 1 ELSE s.nodes[f][k]
    <3>1. s.nodes \in [Engines -> [Handles -> Int]] /\ s.nodes[e][h] - 1 \in Int
      BY <1>1, <2>1 DEF Fields
    <3>. QED
      BY <2>1, <3>1, RowChanges
  <2>3. /\ handle2 \in [Handles -> Engines \cup {NoEngine}]
        /\ \A k \in Handles : handle2[k] = IF k = h THEN NoEngine ELSE s.handle[k]
    BY <1>1 DEF Fields
  <2>4. Remove(s, h) = s2
    BY <1>3 DEF Remove, RefState
  <2>. HIDE DEF nodes2, handle2
  <2>5. /\ s2 \in RefState /\ s2.nodes = nodes2 /\ s2.handle = handle2
        /\ s2.engine = s.engine /\ s2.object = s.object /\ s2.strong = s.strong
    BY <2>2, <2>3 DEF RefState
  <2>. QED
    BY <2>2, <2>3, <2>4, <2>5 DEF SameValues, RemoveDoes
<1>. QED
  BY <1>2, <1>3

SetDoes(s, s2, h, e, o) ==
  /\ \A k \in Handles : s2.engine[k] = IF k = h THEN e ELSE s.engine[k]
  /\ \A k \in Handles : s2.object[k] = IF k = h THEN o ELSE s.object[k]
  /\ s2.strong = s.strong

LEMMA SetIs ==
  ASSUME NEW s \in RefState, NEW h \in Handles,
         NEW e \in Engines \cup {NoEngine}, NEW o \in Objects \cup {NoObject}
  PROVE  /\ SetValue(s, h, e, o) \in RefState
         /\ SetDoes(s, SetValue(s, h, e, o), h, e, o)
         /\ SameLists(s, SetValue(s, h, e, o))
  BY DEF SetValue, RefState, SetDoes, SameLists

LEMMA CountIs ==
  ASSUME NEW s \in RefState, NEW h \in Handles, NEW n \in Int
  PROVE  /\ Count(s, h, n) \in RefState
         /\ Count(s, h, n).engine = s.engine /\ Count(s, h, n).object = s.object
         /\ SameLists(s, Count(s, h, n))
         /\ \A o \in Objects : Count(s, h, n).strong[o] =
              IF Keeps(h) /\ s.object[h] = o THEN s.strong[o] + n ELSE s.strong[o]
<1>1. Fields(s)
  BY StateHasFields
<1>2. CASE ~(Keeps(h) /\ s.object[h] # NoObject)
  BY <1>2, ReferencesAssumption DEF Count, SameLists
<1>3. CASE Keeps(h) /\ s.object[h] # NoObject
  <2>. DEFINE x == s.object[h]
              strong2 == [s.strong EXCEPT ![x] = @ + n]
              s2 == [s EXCEPT !.strong = strong2]
  <2>1. x \in Objects
    BY <1>1, <1>3 DEF Fields
  <2>2. /\ strong2 \in [Objects -> Int]
        /\ \A o \in Objects : strong2[o] = IF x = o THEN s.strong[o] + n ELSE s.strong[o]
    BY <1>1, <2>1 DEF Fields
  <2>3. Count(s, h, n) = s2
    BY <1>3 DEF Count, RefState
  <2>. HIDE DEF strong2
  <2>4. /\ s2 \in RefState /\ s2.strong = strong2
        /\ s2.engine = s.engine /\ s2.object = s.object
        /\ s2.handle = s.handle /\ s2.nodes = s.nodes
    BY <2>2 DEF RefState
  <2>. QED
    BY <1>3, <2>2, <2>3, <2>4 DEF SameLists
<1>. QED
  BY <1>2, <1>3

-----------------------------------------------------------------------------
(* What is counted too much on an object.                                  *)

Holders(object, o) == {k \in Handles : Keeps(k) /\ object[k] = o}
Surplus(s, o) == s.strong[o] - Cardinality(Holders(s.object, o))
Held(x, h, o) == IF Keeps(h) /\ x = o THEN 1 ELSE 0
Balanced(s) == \A o \in Objects : Surplus(s, o) = 0

LEMMA HandlesAreFinite == IsFiniteSet(Handles)
  BY ReferencesAssumption, FS_Union DEF Handles

LEMMA HoldersAreFinite ==
  ASSUME NEW object, NEW o
  PROVE  IsFiniteSet(Holders(object, o)) /\ Cardinality(Holders(object, o)) \in Nat
<1>1. Holders(object, o) \subseteq Handles
  BY DEF Holders
<1>. QED
  BY <1>1, HandlesAreFinite, FS_Subset, FS_CardinalityType

OthersHave(object, object2, h) == \A k \in Handles : k # h => object2[k] = object[k]

LEMMA HoldersChange ==
  ASSUME NEW object, NEW object2, NEW h \in Handles, NEW o, OthersHave(object, object2, h)
  PROVE  Cardinality(Holders(object2, o)) =
         Cardinality(Holders(object, o)) - Held(object[h], h, o) + Held(object2[h], h, o)
<1>. DEFINE A == Holders(object, o)
            B == Holders(object2, o)
<1>1. /\ IsFiniteSet(A) /\ IsFiniteSet(B) /\ Cardinality(A) \in Nat /\ Cardinality(B) \in Nat
  BY HoldersAreFinite
<1>2. /\ h \in A <=> Keeps(h) /\ object[h] = o
      /\ h \in B <=> Keeps(h) /\ object2[h] = o
      /\ \A k \in Handles : k # h => (k \in A <=> k \in B)
      /\ A \subseteq Handles /\ B \subseteq Handles
  BY DEF Holders, OthersHave
<1>. HIDE DEF A, B
<1>3. CASE h \in A <=> h \in B
  <2>1. A = B
    BY <1>2, <1>3
  <2>. QED
    BY <1>1, <1>2, <1>3, <2>1 DEF Held, A, B
<1>4. CASE h \in A /\ h \notin B
  <2>1. A = B \cup {h}
    BY <1>2, <1>4
  <2>2. Cardinality(A) = Cardinality(B) + 1
    BY <1>1, <1>4, <2>1, FS_AddElement
  <2>3. Held(object[h], h, o) = 1 /\ Held(object2[h], h, o) = 0
    BY <1>2, <1>4 DEF Held
  <2>. QED
    BY <1>1, <2>2, <2>3 DEF A, B
<1>5. CASE h \notin A /\ h \in B
  <2>1. B = A \cup {h}
    BY <1>2, <1>5
  <2>2. Cardinality(B) = Cardinality(A) + 1
    BY <1>1, <1>5, <2>1, FS_AddElement
  <2>3. Held(object[h], h, o) = 0 /\ Held(object2[h], h, o) = 1
    BY <1>2, <1>5 DEF Held
  <2>. QED
    BY <1>1, <2>2, <2>3 DEF A, B
<1>. QED
  BY <1>3, <1>4, <1>5

LEMMA SurplusIsInt ==
  ASSUME NEW s \in RefState, NEW o \in Objects
  PROVE  Surplus(s, o) \in Int
<1>1. s.strong[o] \in Int
  BY StateHasFields DEF Fields
<1>. QED
  BY <1>1, HoldersAreFinite DEF Surplus

LEMMA SurplusOfSet ==
  ASSUME NEW s \in RefState, NEW h \in Handles,
         NEW e \in Engines \cup {NoEngine}, NEW x \in Objects \cup {NoObject},
         NEW o \in Objects
  PROVE  Surplus(SetValue(s, h, e, x), o) =
         Surplus(s, o) + Held(s.object[h], h, o) - Held(x, h, o)
<1>. DEFINE s2 == SetValue(s, h, e, x)
<1>1. SetDoes(s, s2, h, e, x)
  BY SetIs
<1>2. /\ \A k \in Handles : k # h => s2.object[k] = s.object[k]
      /\ s2.object[h] = x /\ s2.strong[o] = s.strong[o]
  BY <1>1 DEF SetDoes
<1>. HIDE DEF s2
<1>3. Cardinality(Holders(s2.object, o)) =
      Cardinality(Holders(s.object, o)) - Held(s.object[h], h, o) + Held(x, h, o)
  <2>1. Cardinality(Holders(s2.object, o)) =
        Cardinality(Holders(s.object, o)) - Held(s.object[h], h, o) + Held(s2.object[h], h, o)
    <3>1. OthersHave(s.object, s2.object, h)
      BY <1>2 DEF OthersHave
    <3>. QED
      BY <3>1, HoldersChange
  <2>. QED
    BY <1>2, <2>1
<1>4. /\ Cardinality(Holders(s2.object, o)) \in Nat /\ Cardinality(Holders(s.object, o)) \in Nat
      /\ s.strong[o] \in Int /\ Held(s.object[h], h, o) \in Int /\ Held(x, h, o) \in Int
  BY HoldersAreFinite, StateHasFields DEF Fields, Held
<1>5. Surplus(s2, o) = Surplus(s, o) + Held(s.object[h], h, o) - Held(x, h, o)
  BY <1>2, <1>3, <1>4 DEF Surplus
<1>. QED
  BY <1>5 DEF s2

LEMMA SurplusOfRetain ==
  ASSUME NEW s \in RefState, NEW h \in Handles, NEW o \in Objects
  PROVE  Surplus(Retain(s, h), o) = Surplus(s, o) + Held(s.object[h], h, o)
<1>1. 1 \in Int
  OBVIOUS
<1>2. /\ Retain(s, h).object = s.object
      /\ Retain(s, h).strong[o] = IF Keeps(h) /\ s.object[h] = o THEN s.strong[o] + 1 ELSE s.strong[o]
  BY <1>1, CountIs DEF Retain
<1>3. Cardinality(Holders(s.object, o)) \in Nat /\ s.strong[o] \in Int
  BY HoldersAreFinite, StateHasFields DEF Fields
<1>. QED
  BY <1>2, <1>3 DEF Surplus, Held

LEMMA SurplusOfRelease ==
  ASSUME NEW s \in RefState, NEW h \in Handles, NEW o \in Objects
  PROVE  Surplus(Release(s, h), o) = Surplus(s, o) - Held(s.object[h], h, o)
<1>1. -1 \in Int
  OBVIOUS
<1>2. /\ Release(s, h).object = s.object
      /\ Release(s, h).strong[o] = IF Keeps(h) /\ s.object[h] = o THEN s.strong[o] + -1 ELSE s.strong[o]
  BY <1>1, CountIs DEF Release
<1>3. Cardinality(Holders(s.object, o)) \in Nat /\ s.strong[o] \in Int
  BY HoldersAreFinite, StateHasFields DEF Fields
<1>. QED
  BY <1>2, <1>3 DEF Surplus, Held

-----------------------------------------------------------------------------
(* Operations on values leave the lists alone and count what they keep.    *)

OthersValued(s, s2, X) ==
  \A k \in Handles \ X : s2.engine[k] = s.engine[k] /\ s2.object[k] = s.object[k]
HasValueOf(s2, h, s, k) == s2.engine[h] = s.engine[k] /\ s2.object[h] = s.object[k]
HasValue(s, h, e, o) == s.engine[h] = e /\ s.object[h] = o
SameSurplus(s, s2) == \A o \in Objects : Surplus(s2, o) = Surplus(s, o)

OnlyValues(s, s2, X) ==
  /\ s2 \in RefState
  /\ SameLists(s, s2)
  /\ OthersValued(s, s2, X)
  /\ SameSurplus(s, s2)

LEMMA ReleaseIs ==
  ASSUME NEW s \in RefState, NEW h \in Handles
  PROVE  /\ Release(s, h) \in RefState /\ SameLists(s, Release(s, h))
         /\ Release(s, h).engine = s.engine /\ Release(s, h).object = s.object
<1>1. -1 \in Int
  OBVIOUS
<1>. QED
  BY <1>1, CountIs DEF Release

LEMMA RetainIs ==
  ASSUME NEW s \in RefState, NEW h \in Handles
  PROVE  /\ Retain(s, h) \in RefState /\ SameLists(s, Retain(s, h))
         /\ Retain(s, h).engine = s.engine /\ Retain(s, h).object = s.object
<1>1. 1 \in Int
  OBVIOUS
<1>. QED
  BY <1>1, CountIs DEF Retain

(* Whatever h had is released, and what it gets is retained.               *)
LEMMA ReplaceIs ==
  ASSUME NEW s \in RefState, NEW h \in Handles,
         NEW e \in Engines \cup {NoEngine}, NEW x \in Objects \cup {NoObject}
  PROVE  OnlyValues(s, Replace(s, h, e, x), {h}) /\ HasValue(Replace(s, h, e, x), h, e, x)
<1>. DEFINE s1 == Release(s, h)
            s2 == SetValue(s1, h, e, x)
            s3 == Retain(s2, h)
<1>1. s1 \in RefState /\ SameLists(s, s1) /\ s1.engine = s.engine /\ s1.object = s.object
  BY ReleaseIs
<1>2. \A o \in Objects : Surplus(s1, o) = Surplus(s, o) - Held(s.object[h], h, o)
  BY SurplusOfRelease
<1>3. Replace(s, h, e, x) = s3
  BY DEF Replace
<1>. HIDE DEF s1
<1>4. s2 \in RefState /\ SetDoes(s1, s2, h, e, x) /\ SameLists(s1, s2)
  BY <1>1, SetIs
<1>5. \A o \in Objects : Surplus(s2, o) = Surplus(s1, o) + Held(s1.object[h], h, o) - Held(x, h, o)
  BY <1>1, SurplusOfSet
<1>. HIDE DEF s2
<1>6. s3 \in RefState /\ SameLists(s2, s3) /\ s3.engine = s2.engine /\ s3.object = s2.object
  BY <1>4, RetainIs
<1>7. \A o \in Objects : Surplus(s3, o) = Surplus(s2, o) + Held(s2.object[h], h, o)
  BY <1>4, SurplusOfRetain
<1>. HIDE DEF s3
<1>8. s2.object[h] = x /\ s2.engine[h] = e
  BY <1>4 DEF SetDoes
<1>9. SameSurplus(s, s3)
  <2>. SUFFICES ASSUME NEW o \in Objects PROVE Surplus(s3, o) = Surplus(s, o)
    BY DEF SameSurplus
  <2>1. /\ Surplus(s, o) \in Int /\ Surplus(s1, o) \in Int /\ Surplus(s2, o) \in Int
        /\ Held(s.object[h], h, o) \in Int /\ Held(x, h, o) \in Int
    BY <1>1, <1>4, SurplusIsInt DEF Held
  <2>2. /\ Surplus(s1, o) = Surplus(s, o) - Held(s.object[h], h, o)
        /\ Surplus(s2, o) = Surplus(s1, o) + Held(s.object[h], h, o) - Held(x, h, o)
        /\ Surplus(s3, o) = Surplus(s2, o) + Held(x, h, o)
    BY <1>1, <1>2, <1>5, <1>7, <1>8
  <2>. QED
    BY <2>1, <2>2
<1>10. SameLists(s, s3)
  BY <1>1, <1>4, <1>6 DEF SameLists
<1>11. OthersValued(s, s3, {h}) /\ HasValue(s3, h, e, x)
  BY <1>1, <1>4, <1>6, <1>8 DEF OthersValued, SetDoes, HasValue
<1>. QED
  BY <1>3, <1>6, <1>9, <1>10, <1>11 DEF OnlyValues

LEMMA ValuesAreTyped ==
  ASSUME NEW s \in RefState, NEW h \in Handles
  PROVE  s.engine[h] \in Engines \cup {NoEngine} /\ s.object[h] \in Objects \cup {NoObject}
  BY StateHasFields DEF Fields

LEMMA CopyValueIs ==
  ASSUME NEW s \in RefState, NEW a \in Handles, NEW b \in Handles
  PROVE  OnlyValues(s, CopyValue(s, a, b), {a}) /\ HasValueOf(CopyValue(s, a, b), a, s, b)
<1>1. s.engine[b] \in Engines \cup {NoEngine} /\ s.object[b] \in Objects \cup {NoObject}
  BY ValuesAreTyped
<1>2. /\ OnlyValues(s, Replace(s, a, s.engine[b], s.object[b]), {a})
      /\ HasValue(Replace(s, a, s.engine[b], s.object[b]), a, s.engine[b], s.object[b])
  BY <1>1, ReplaceIs
<1>. QED
  BY <1>2 DEF CopyValue, HasValue, HasValueOf

(* What h had is released, and nothing takes its place.                    *)
LEMMA DropIs ==
  ASSUME NEW s \in RefState, NEW h \in Handles, NEW e \in Engines \cup {NoEngine}
  PROVE  /\ OnlyValues(s, SetValue(Release(s, h), h, e, NoObject), {h})
         /\ HasValue(SetValue(Release(s, h), h, e, NoObject), h, e, NoObject)
<1>. DEFINE s1 == SetValue(Release(s, h), h, e, NoObject)
            s2 == Retain(s1, h)
<1>1. Release(s, h) \in RefState
  BY ReleaseIs
<1>2. s1 \in RefState /\ SetDoes(Release(s, h), s1, h, e, NoObject)
  BY <1>1, SetIs
<1>3. s1.object[h] = NoObject
  BY <1>2 DEF SetDoes
<1>. HIDE DEF s1
<1>4. s2 = s1
  BY <1>3 DEF Retain, Count
<1>5. Replace(s, h, e, NoObject) = s2
  BY DEF Replace, s1
<1>6. OnlyValues(s, Replace(s, h, e, NoObject), {h}) /\ HasValue(Replace(s, h, e, NoObject), h, e, NoObject)
  BY ReplaceIs
<1>. QED
  BY <1>4, <1>5, <1>6 DEF s1

(* A reference without a value gets one.                                   *)
LEMMA GainIs ==
  ASSUME NEW s \in RefState, NEW h \in Handles, s.object[h] = NoObject,
         NEW e \in Engines \cup {NoEngine}, NEW x \in Objects \cup {NoObject}
  PROVE  /\ OnlyValues(s, Retain(SetValue(s, h, e, x), h), {h})
         /\ HasValue(Retain(SetValue(s, h, e, x), h), h, e, x)
<1>1. Release(s, h) = s
  BY DEF Release, Count
<1>2. Replace(s, h, e, x) = Retain(SetValue(s, h, e, x), h)
  BY <1>1 DEF Replace
<1>. QED
  BY <1>2, ReplaceIs

LEMMA FreshIs ==
  ASSUME NEW s \in RefState, NEW h \in Handles, s.object[h] = NoObject, s.handle[h] = NoEngine
  PROVE  /\ OnlyValues(s, Fresh(s, h), {h}) /\ HasValue(Fresh(s, h), h, NoEngine, NoObject)
<1>1. [s EXCEPT !.handle[h] = NoEngine] = s
  <2>1. s.handle = [s.handle EXCEPT ![h] = NoEngine]
    BY StateHasFields DEF Fields
  <2>2. [s EXCEPT !.handle[h] = NoEngine] = [s EXCEPT !.handle = [s.handle EXCEPT ![h] = NoEngine]]
    BY DEF RefState
  <2>3. s = [s EXCEPT !.handle = s.handle]
    BY DEF RefState
  <2>. QED
    BY <2>1, <2>2, <2>3
<1>2. Release(s, h) = s
  BY DEF Release, Count
<1>3. Fresh(s, h) = SetValue(Release(s, h), h, NoEngine, NoObject)
  BY <1>1, <1>2 DEF Fresh
<1>4. NoEngine \in Engines \cup {NoEngine}
  OBVIOUS
<1>. QED
  BY <1>3, <1>4, DropIs

LEMMA SameKindKeeps ==
  ASSUME NEW a, NEW b, SameKind(a, b)
  PROVE  /\ a \in Handles /\ b \in Handles /\ Keeps(a) = Keeps(b) /\ ByEngine(a) = ByEngine(b)
         /\ SameKind(b, a) /\ (a \in Weaks <=> b \in Weaks) /\ (a \in Globals <=> b \in Globals)
  BY ReferencesAssumption DEF SameKind, Handles, Keeps, ByEngine

(* b loses its value to a.                                                 *)
LEMMA MoveValueIs ==
  ASSUME NEW s \in RefState, NEW a, NEW b, SameKind(a, b), a # b
  PROVE  /\ OnlyValues(s, MoveValue(s, a, b), {a, b})
         /\ HasValueOf(MoveValue(s, a, b), a, s, b)
         /\ HasValue(MoveValue(s, a, b), b, NoEngine, NoObject)
<1>0. a \in Handles /\ b \in Handles /\ Keeps(a) = Keeps(b)
  BY SameKindKeeps
<1>. DEFINE s1 == Release(s, a)
            s2 == SetValue(s1, a, s.engine[b], s.object[b])
            s3 == SetValue(s2, b, NoEngine, NoObject)
<1>1. s1 \in RefState /\ SameLists(s, s1) /\ s1.engine = s.engine /\ s1.object = s.object
  BY <1>0, ReleaseIs
<1>2. \A o \in Objects : Surplus(s1, o) = Surplus(s, o) - Held(s.object[a], a, o)
  BY <1>0, SurplusOfRelease
<1>3. MoveValue(s, a, b) = s3
  BY DEF MoveValue
<1>. HIDE DEF s1
<1>4. s.engine[b] \in Engines \cup {NoEngine} /\ s.object[b] \in Objects \cup {NoObject}
  BY <1>0, ValuesAreTyped
<1>5. s2 \in RefState /\ SetDoes(s1, s2, a, s.engine[b], s.object[b]) /\ SameLists(s1, s2)
  BY <1>0, <1>1, <1>4, SetIs
<1>6. \A o \in Objects :
        Surplus(s2, o) = Surplus(s1, o) + Held(s1.object[a], a, o) - Held(s.object[b], a, o)
  BY <1>0, <1>1, <1>4, SurplusOfSet
<1>. HIDE DEF s2
<1>7. NoEngine \in Engines \cup {NoEngine} /\ NoObject \in Objects \cup {NoObject}
  OBVIOUS
<1>8. s3 \in RefState /\ SetDoes(s2, s3, b, NoEngine, NoObject) /\ SameLists(s2, s3)
  BY <1>0, <1>5, <1>7, SetIs
<1>9. \A o \in Objects :
        Surplus(s3, o) = Surplus(s2, o) + Held(s2.object[b], b, o) - Held(NoObject, b, o)
  BY <1>0, <1>5, <1>7, SurplusOfSet
<1>. HIDE DEF s3
<1>10. s2.object[b] = s.object[b]
  BY <1>0, <1>1, <1>5 DEF SetDoes
<1>11. SameSurplus(s, s3)
  <2>. SUFFICES ASSUME NEW o \in Objects PROVE Surplus(s3, o) = Surplus(s, o)
    BY DEF SameSurplus
  <2>1. /\ Surplus(s, o) \in Int /\ Surplus(s1, o) \in Int /\ Surplus(s2, o) \in Int
        /\ Held(s.object[a], a, o) \in Int /\ Held(s.object[b], a, o) \in Int
    BY <1>1, <1>5, SurplusIsInt DEF Held
  <2>2. Held(NoObject, b, o) = 0 /\ Held(s.object[b], b, o) = Held(s.object[b], a, o)
    BY <1>0, ReferencesAssumption DEF Held
  <2>3. /\ Surplus(s1, o) = Surplus(s, o) - Held(s.object[a], a, o)
        /\ Surplus(s2, o) = Surplus(s1, o) + Held(s.object[a], a, o) - Held(s.object[b], a, o)
        /\ Surplus(s3, o) = Surplus(s2, o) + Held(s.object[b], b, o) - Held(NoObject, b, o)
    BY <1>1, <1>2, <1>6, <1>9, <1>10
  <2>. QED
    BY <2>1, <2>2, <2>3
<1>12. SameLists(s, s3)
  BY <1>1, <1>5, <1>8 DEF SameLists
<1>13. OthersValued(s, s3, {a, b})
  BY <1>1, <1>5, <1>8 DEF OthersValued, SetDoes
<1>14. HasValueOf(s3, a, s, b) /\ HasValue(s3, b, NoEngine, NoObject)
  BY <1>0, <1>1, <1>5, <1>8 DEF SetDoes, HasValue, HasValueOf
<1>. QED
  BY <1>3, <1>8, <1>11, <1>12, <1>13, <1>14 DEF OnlyValues

LEMMA SwapValueIs ==
  ASSUME NEW s \in RefState, NEW a, NEW b, SameKind(a, b), a # b
  PROVE  /\ OnlyValues(s, SwapValue(s, a, b), {a, b})
         /\ HasValueOf(SwapValue(s, a, b), a, s, b)
         /\ HasValueOf(SwapValue(s, a, b), b, s, a)
<1>0. a \in Handles /\ b \in Handles /\ Keeps(a) = Keeps(b)
  BY SameKindKeeps
<1>. DEFINE s2 == SetValue(s, a, s.engine[b], s.object[b])
            s3 == SetValue(s2, b, s.engine[a], s.object[a])
<1>3. SwapValue(s, a, b) = s3
  BY DEF SwapValue
<1>4. /\ s.engine[b] \in Engines \cup {NoEngine} /\ s.object[b] \in Objects \cup {NoObject}
      /\ s.engine[a] \in Engines \cup {NoEngine} /\ s.object[a] \in Objects \cup {NoObject}
  BY <1>0, ValuesAreTyped
<1>5. s2 \in RefState /\ SetDoes(s, s2, a, s.engine[b], s.object[b]) /\ SameLists(s, s2)
  BY <1>0, <1>4, SetIs
<1>6. \A o \in Objects :
        Surplus(s2, o) = Surplus(s, o) + Held(s.object[a], a, o) - Held(s.object[b], a, o)
  BY <1>0, <1>4, SurplusOfSet
<1>. HIDE DEF s2
<1>8. s3 \in RefState /\ SetDoes(s2, s3, b, s.engine[a], s.object[a]) /\ SameLists(s2, s3)
  BY <1>0, <1>4, <1>5, SetIs
<1>9. \A o \in Objects :
        Surplus(s3, o) = Surplus(s2, o) + Held(s2.object[b], b, o) - Held(s.object[a], b, o)
  BY <1>0, <1>4, <1>5, SurplusOfSet
<1>. HIDE DEF s3
<1>10. s2.object[b] = s.object[b]
  BY <1>0, <1>5 DEF SetDoes
<1>11. SameSurplus(s, s3)
  <2>. SUFFICES ASSUME NEW o \in Objects PROVE Surplus(s3, o) = Surplus(s, o)
    BY DEF SameSurplus
  <2>1. /\ Surplus(s, o) \in Int /\ Surplus(s2, o) \in Int
        /\ Held(s.object[a], a, o) \in Int /\ Held(s.object[b], a, o) \in Int
    BY <1>5, SurplusIsInt DEF Held
  <2>2. /\ Held(s.object[a], b, o) = Held(s.object[a], a, o)
        /\ Held(s.object[b], b, o) = Held(s.object[b], a, o)
    BY <1>0 DEF Held
  <2>3. /\ Surplus(s2, o) = Surplus(s, o) + Held(s.object[a], a, o) - Held(s.object[b], a, o)
        /\ Surplus(s3, o) = Surplus(s2, o) + Held(s.object[b], b, o) - Held(s.object[a], b, o)
    BY <1>6, <1>9, <1>10
  <2>. QED
    BY <2>1, <2>2, <2>3
<1>12. SameLists(s, s3)
  BY <1>5, <1>8 DEF SameLists
<1>13. OthersValued(s, s3, {a, b})
  BY <1>5, <1>8 DEF OthersValued, SetDoes
<1>14. HasValueOf(s3, a, s, b) /\ HasValueOf(s3, b, s, a)
  BY <1>0, <1>5, <1>8 DEF SetDoes, HasValueOf
<1>. QED
  BY <1>3, <1>8, <1>11, <1>12, <1>13, <1>14 DEF OnlyValues

LEMMA SwapWithItself ==
  ASSUME NEW s \in RefState, NEW a \in Handles
  PROVE  SwapValue(s, a, a) = s
<1>1. SetValue(s, a, s.engine[a], s.object[a]) = s
  <2>1. [s.engine EXCEPT ![a] = s.engine[a]] = s.engine /\ [s.object EXCEPT ![a] = s.object[a]] = s.object
    BY StateHasFields DEF Fields
  <2>2. SetValue(s, a, s.engine[a], s.object[a]) =
        [s EXCEPT !.engine = [s.engine EXCEPT ![a] = s.engine[a]],
                  !.object = [s.object EXCEPT ![a] = s.object[a]]]
    BY DEF RefState, SetValue
  <2>3. s = [s EXCEPT !.engine = s.engine, !.object = s.object]
    BY DEF RefState
  <2>. QED
    BY <2>1, <2>2, <2>3
<1>. QED
  BY <1>1 DEF SwapValue

(* The engine alone.                                                       *)
LEMMA EngineIs ==
  ASSUME NEW s \in RefState, NEW h \in Handles, NEW e \in Engines \cup {NoEngine}
  PROVE  /\ OnlyValues(s, [s EXCEPT !.engine[h] = e], {h})
         /\ HasValue([s EXCEPT !.engine[h] = e], h, e, s.object[h])
<1>. DEFINE s2 == SetValue(s, h, e, s.object[h])
<1>1. s2 = [s EXCEPT !.engine[h] = e]
  <2>1. [s.object EXCEPT ![h] = s.object[h]] = s.object
    BY StateHasFields DEF Fields
  <2>2. s2 = [s EXCEPT !.engine = [s.engine EXCEPT ![h] = e],
                       !.object = [s.object EXCEPT ![h] = s.object[h]]]
    BY DEF RefState, SetValue
  <2>3. [s EXCEPT !.engine[h] = e] = [s EXCEPT !.engine = [s.engine EXCEPT ![h] = e],
                                               !.object = s.object]
    BY DEF RefState
  <2>. QED
    BY <2>1, <2>2, <2>3
<1>2. s.object[h] \in Objects \cup {NoObject}
  BY ValuesAreTyped
<1>3. s2 \in RefState /\ SetDoes(s, s2, h, e, s.object[h]) /\ SameLists(s, s2)
  BY <1>2, SetIs
<1>4. \A o \in Objects :
        Surplus(s2, o) = Surplus(s, o) + Held(s.object[h], h, o) - Held(s.object[h], h, o)
  BY <1>2, SurplusOfSet
<1>5. SameSurplus(s, s2)
  <2>. SUFFICES ASSUME NEW o \in Objects PROVE Surplus(s2, o) = Surplus(s, o)
    BY DEF SameSurplus
  <2>1. Surplus(s, o) \in Int /\ Held(s.object[h], h, o) \in Int
    BY SurplusIsInt DEF Held
  <2>. QED
    BY <1>4, <2>1
<1>6. OthersValued(s, s2, {h}) /\ HasValue(s2, h, e, s.object[h])
  BY <1>3 DEF OthersValued, HasValue, SetDoes
<1>. QED
  BY <1>1, <1>3, <1>5, <1>6 DEF OnlyValues

-----------------------------------------------------------------------------
(* The invariant.                                                          *)

(* h has a node in the list of e and in no other, and handle_ is it.       *)
ListedAt(s, h, e) ==
  s.handle[h] = e /\ \A f \in Engines : s.nodes[f][h] = IF f = e THEN 1 ELSE 0

SoundList(s, h) == ListedAt(s, h, IF IsEmpty(s, h) THEN NoEngine ELSE s.engine[h])

(* Python: a key of an engine is a reference to it.                        *)
SoundKey(s, h) ==
  /\ s.handle[h] = NoEngine
  /\ \A e \in Engines :
       /\ s.nodes[e][h] \in {0, 1}
       /\ s.nodes[e][h] = 1 => s.engine[h] = e
       /\ s.engine[h] = e /\ s.object[h] # NoObject => s.nodes[e][h] = 1

SoundValue(s, h) ==
  /\ IsEmpty(s, h) => s.object[h] = NoObject
  /\ ~IsEmpty(s, h) => s.engine[h] \in running
  /\ s.object[h] # NoObject => HomeOf[s.object[h]] = s.engine[h]
  /\ s.object[h] # NoObject /\ Keeps(h) => s.object[h] \in present
  /\ backend = "Lua" /\ IsEmpty(s, h) => s.engine[h] = NoEngine

Sound(s, h) == SoundValue(s, h) /\ IF backend = "Python" THEN SoundKey(s, h) ELSE SoundList(s, h)

Whole(s) ==
  /\ s \in RefState
  /\ running \subseteq Engines
  /\ \A h \in Handles : Sound(s, h)
  /\ Balanced(s)

(* A reference that is not there is in no list.                            *)
Dead(s, h) == IsEmpty(s, h) /\ \A e \in Engines : s.nodes[e][h] = 0

RefsInv ==
  /\ Whole(refs)
  /\ made \subseteq Handles /\ made \cap Temps = {}
  /\ present \subseteq Objects
  /\ \A h \in Handles \ made : Dead(refs, h)

Same(s, s2, h) ==
  /\ s2.engine[h] = s.engine[h] /\ s2.object[h] = s.object[h] /\ s2.handle[h] = s.handle[h]
  /\ \A e \in Engines : s2.nodes[e][h] = s.nodes[e][h]
SameBut(s, s2, X) == \A h \in Handles \ X : Same(s, s2, h)

LEMMA SameIsSound ==
  ASSUME NEW s, NEW s2, NEW h, Same(s, s2, h)
  PROVE  /\ IsEmpty(s2, h) = IsEmpty(s, h)
         /\ Sound(s, h) => Sound(s2, h)
         /\ Dead(s, h) => Dead(s2, h)
<1>1. IsEmpty(s2, h) = IsEmpty(s, h)
  BY DEF Same, IsEmpty
<1>2. SoundValue(s, h) => SoundValue(s2, h)
  BY <1>1 DEF SoundValue, Same
<1>3. SoundList(s, h) => SoundList(s2, h)
  BY <1>1 DEF SoundList, ListedAt, Same
<1>4. SoundKey(s, h) => SoundKey(s2, h)
  BY DEF SoundKey, Same
<1>5. Dead(s, h) => Dead(s2, h)
  BY <1>1 DEF Dead, Same
<1>. QED
  BY <1>1, <1>2, <1>3, <1>4, <1>5 DEF Sound

LEMMA ValueCarries ==
  ASSUME NEW s, NEW s2, NEW a, NEW b, SameKind(a, b), HasValueOf(s2, a, s, b)
  PROVE  IsEmpty(s2, a) = IsEmpty(s, b) /\ (SoundValue(s, b) => SoundValue(s2, a))
<1>1. IsEmpty(s2, a) = IsEmpty(s, b)
  BY SameKindKeeps DEF HasValueOf, IsEmpty
<1>. QED
  BY <1>1, SameKindKeeps DEF HasValueOf, SoundValue

(* The same node, as far as the references outside X are concerned.        *)
ListsSameBut(s, s2, X) ==
  \A k \in Handles \ X :
    s2.handle[k] = s.handle[k] /\ \A f \in Engines : s2.nodes[f][k] = s.nodes[f][k]

LEMMA Conclude ==
  ASSUME NEW s, Whole(s), NEW X, NEW s1, OnlyValues(s, s1, X),
         NEW s2 \in RefState, SameValues(s1, s2), ListsSameBut(s1, s2, X),
         \A k \in Handles \cap X : Sound(s2, k)
  PROVE  Whole(s2) /\ SameBut(s, s2, X)
<1>1. SameBut(s, s2, X)
  BY DEF SameBut, Same, OnlyValues, OthersValued, SameLists, SameValues, ListsSameBut
<1>2. \A k \in Handles : Sound(s2, k)
  BY <1>1, SameIsSound DEF SameBut, Whole
<1>3. \A o \in Objects : Surplus(s2, o) = Surplus(s1, o)
  BY DEF Surplus, SameValues
<1>4. Balanced(s2)
  BY <1>3 DEF Balanced, Whole, OnlyValues, SameSurplus
<1>. QED
  BY <1>1, <1>2, <1>4 DEF Whole

LEMMA AddLists ==
  ASSUME NEW s \in RefState, NEW e \in Engines, NEW h \in Handles, ListedAt(s, h, NoEngine)
  PROVE  /\ Add(s, e, h) \in RefState /\ SameValues(s, Add(s, e, h))
         /\ ListedAt(Add(s, e, h), h, e) /\ ListsSameBut(s, Add(s, e, h), {h})
<1>1. /\ Add(s, e, h) \in RefState /\ SameValues(s, Add(s, e, h))
      /\ AddDoes(s, Add(s, e, h), e, h)
  BY AddIs
<1>2. ListsSameBut(s, Add(s, e, h), {h})
  BY <1>1 DEF AddDoes, ListsSameBut
<1>3. ListedAt(Add(s, e, h), h, e)
  BY <1>1, BackendAssumption DEF AddDoes, ListedAt
<1>. QED
  BY <1>1, <1>2, <1>3

LEMMA RemoveLists ==
  ASSUME NEW s \in RefState, NEW e, NEW h \in Handles, ListedAt(s, h, e)
  PROVE  /\ Remove(s, h) \in RefState /\ SameValues(s, Remove(s, h))
         /\ ListedAt(Remove(s, h), h, NoEngine) /\ ListsSameBut(s, Remove(s, h), {h})
<1>1. /\ Remove(s, h) \in RefState /\ SameValues(s, Remove(s, h))
      /\ RemoveDoes(s, Remove(s, h), h)
  BY RemoveIs
<1>2. ListsSameBut(s, Remove(s, h), {h})
  BY <1>1 DEF RemoveDoes, ListsSameBut
<1>3. ListedAt(Remove(s, h), h, NoEngine)
  BY <1>1, BackendAssumption DEF RemoveDoes, ListedAt
<1>. QED
  BY <1>1, <1>2, <1>3

LEMMA ListsAreSame ==
  ASSUME NEW s, NEW s2, NEW X, NEW h \in Handles \ X, ListsSameBut(s, s2, X), NEW e
  PROVE  ListedAt(s, h, e) => ListedAt(s2, h, e)
  BY DEF ListsSameBut, ListedAt

-----------------------------------------------------------------------------
(* GlobalWeakBookkeeping keeps the lists right.                            *)

HasLists == backend \in RefBackends \ {"Python"}

(* The program does not put an empty reference in the place of another,    *)
(* and all that it uses is of one engine.                                  *)
MayTake(s, a, b) == ~IsEmpty(s, a) => ~IsEmpty(s, b) /\ s.engine[b] = s.engine[a]

LEMMA SoundParts ==
  ASSUME NEW s, Whole(s), HasLists, NEW h \in Handles
  PROVE  /\ s \in RefState
         /\ SoundValue(s, h)
         /\ IsEmpty(s, h) => ListedAt(s, h, NoEngine)
         /\ ~IsEmpty(s, h) => ListedAt(s, h, s.engine[h])
         /\ ~IsEmpty(s, h) => s.engine[h] \in Engines /\ s.engine[h] # NoEngine
<1>1. Sound(s, h) /\ s \in RefState /\ running \subseteq Engines
  BY DEF Whole
<1>2. SoundValue(s, h) /\ SoundList(s, h)
  BY <1>1 DEF Sound, HasLists
<1>3. ~IsEmpty(s, h) => s.engine[h] \in Engines /\ s.engine[h] # NoEngine
  BY <1>1, <1>2, BackendAssumption DEF SoundValue
<1>. QED
  BY <1>1, <1>2, <1>3 DEF SoundList

LEMMA SoundFrom ==
  ASSUME NEW s, HasLists, NEW h, SoundValue(s, h),
         IsEmpty(s, h) => ListedAt(s, h, NoEngine),
         ~IsEmpty(s, h) => ListedAt(s, h, s.engine[h])
  PROVE  Sound(s, h)
  BY DEF Sound, SoundList, HasLists

LEMMA AfterCopyIs ==
  ASSUME HasLists, NEW s, Whole(s), NEW a, NEW b, SameKind(a, b), MayTake(s, a, b),
         NEW s1, OnlyValues(s, s1, {a}), HasValueOf(s1, a, s, b),
         NEW s2, s2 = AfterCopy(s1, IsEmpty(s, a), a, b)
  PROVE  Whole(s2) /\ SameBut(s, s2, {a}) /\ HasValueOf(s2, a, s, b)
<1>1. a \in Handles /\ b \in Handles
  BY SameKindKeeps
<1>2. s1 \in RefState /\ SameLists(s, s1)
  BY DEF OnlyValues
<1>3. IsEmpty(s1, a) = IsEmpty(s, b) /\ SoundValue(s1, a)
  BY <1>1, SoundParts, ValueCarries
<1>4. /\ s1.engine[a] = s.engine[b]
      /\ \A e : ListedAt(s1, a, e) <=> ListedAt(s, a, e)
  BY <1>2 DEF HasValueOf, SameLists, ListedAt
<1>5. CASE a = b \/ IsEmpty(s, a) = IsEmpty(s1, a)
  <2>1. s2 = s1
    BY <1>5 DEF AfterCopy
  <2>2. Sound(s1, a)
    <3>1. IsEmpty(s1, a) => ListedAt(s1, a, NoEngine)
      BY <1>1, <1>3, <1>4, <1>5, SoundParts
    <3>2. ~IsEmpty(s1, a) => ListedAt(s1, a, s1.engine[a])
      BY <1>1, <1>3, <1>4, <1>5, SoundParts DEF MayTake
    <3>. QED
      BY <1>3, <3>1, <3>2, SoundFrom
  <2>3. SameValues(s1, s1) /\ ListsSameBut(s1, s1, {a})
    BY DEF SameValues, ListsSameBut
  <2>. QED
    BY <1>2, <2>1, <2>2, <2>3, Conclude
<1>6. CASE a # b /\ IsEmpty(s, a) /\ ~IsEmpty(s1, a)
  <2>. DEFINE e == s1.engine[a]
  <2>1. e \in Engines /\ e # NoEngine /\ ListedAt(s1, a, NoEngine)
    BY <1>1, <1>3, <1>4, <1>6, SoundParts
  <2>2. s2 = Add(s1, e, a)
    BY <1>6, <2>1 DEF AfterCopy, Keeper
  <2>3. s2 \in RefState /\ SameValues(s1, s2) /\ ListedAt(s2, a, e) /\ ListsSameBut(s1, s2, {a})
    BY <1>1, <1>2, <2>1, <2>2, AddLists
  <2>4. HasValueOf(s2, a, s, b) /\ s2.engine[a] = e /\ IsEmpty(s2, a) = IsEmpty(s1, a)
    BY <2>3 DEF SameValues, HasValueOf, IsEmpty
  <2>5. SoundValue(s2, a)
    BY <1>1, <2>4, SoundParts, ValueCarries
  <2>6. Sound(s2, a)
    BY <1>6, <2>3, <2>4, <2>5, SoundFrom
  <2>. QED
    BY <1>2, <2>3, <2>4, <2>6, Conclude
<1>7. CASE a # b /\ ~IsEmpty(s, a) /\ IsEmpty(s1, a)
  BY <1>3, <1>7 DEF MayTake
<1>. QED
  BY <1>5, <1>6, <1>7 DEF IsEmpty

LEMMA HandleNulled ==
  ASSUME NEW s \in RefState, NEW h \in Handles, s.handle[h] = NoEngine
  PROVE  [s EXCEPT !.handle[h] = NoEngine] = s
<1>1. s.handle = [s.handle EXCEPT ![h] = NoEngine]
  BY StateHasFields DEF Fields
<1>2. [s EXCEPT !.handle[h] = NoEngine] = [s EXCEPT !.handle = [s.handle EXCEPT ![h] = NoEngine]]
  BY DEF RefState
<1>3. s = [s EXCEPT !.handle = s.handle]
  BY DEF RefState
<1>. QED
  BY <1>1, <1>2, <1>3

(* The value of b is a's now, and b has none.                              *)
Robbed(s, s1, b) ==
  /\ IsEmpty(s1, b) /\ s1.object[b] = NoObject
  /\ \/ s1.engine[b] = NoEngine
     \/ s1.engine[b] = s.engine[b] /\ backend # "Lua"

LEMMA RobbedIsSound ==
  ASSUME NEW s, NEW s1, NEW b, Robbed(s, s1, b)
  PROVE  SoundValue(s1, b)
  BY DEF Robbed, SoundValue

LEMMA SameLists2 ==
  ASSUME NEW s, NEW s1, SameLists(s, s1), NEW h, NEW e
  PROVE  ListedAt(s1, h, e) <=> ListedAt(s, h, e)
  BY DEF SameLists, ListedAt

LEMMA ValuesStay ==
  ASSUME NEW s1, NEW s2, SameValues(s1, s2), NEW h
  PROVE  /\ IsEmpty(s2, h) = IsEmpty(s1, h) /\ (SoundValue(s1, h) => SoundValue(s2, h))
         /\ s2.engine[h] = s1.engine[h] /\ s2.object[h] = s1.object[h]
  BY DEF SameValues, IsEmpty, SoundValue

LEMMA SoundLater ==
  ASSUME HasLists, NEW s1, NEW s2, SameValues(s1, s2), NEW h, SoundValue(s1, h),
         IsEmpty(s1, h) => ListedAt(s2, h, NoEngine),
         ~IsEmpty(s1, h) => ListedAt(s2, h, s1.engine[h])
  PROVE  Sound(s2, h)
<1>1. /\ IsEmpty(s2, h) = IsEmpty(s1, h) /\ SoundValue(s2, h) /\ s2.engine[h] = s1.engine[h]
  BY ValuesStay
<1>. QED
  BY <1>1, SoundFrom

LEMMA AfterMoveIs ==
  ASSUME HasLists, NEW s, Whole(s), NEW a, NEW b, SameKind(a, b), a # b, MayTake(s, a, b),
         NEW s1, OnlyValues(s, s1, {a, b}), HasValueOf(s1, a, s, b), Robbed(s, s1, b),
         NEW s2, s2 = AfterMove(s1, IsEmpty(s, a), a, b)
  PROVE  Whole(s2) /\ SameBut(s, s2, {a, b}) /\ HasValueOf(s2, a, s, b) /\ Robbed(s, s2, b)
<1>1. a \in Handles /\ b \in Handles
  BY SameKindKeeps
<1>2. s1 \in RefState /\ SameLists(s, s1)
  BY DEF OnlyValues
<1>3. IsEmpty(s1, a) = IsEmpty(s, b) /\ SoundValue(s1, a) /\ SoundValue(s1, b) /\ IsEmpty(s1, b)
  BY <1>1, SoundParts, ValueCarries, RobbedIsSound DEF Robbed
<1>4. s1.engine[a] = s.engine[b]
  BY DEF HasValueOf
<1>5. \A e : (ListedAt(s1, a, e) <=> ListedAt(s, a, e)) /\ (ListedAt(s1, b, e) <=> ListedAt(s, b, e))
  BY <1>2, SameLists2
<1>6. SUFFICES /\ s2 \in RefState /\ SameValues(s1, s2) /\ ListsSameBut(s1, s2, {a, b})
               /\ IsEmpty(s1, a) => ListedAt(s2, a, NoEngine)
               /\ ~IsEmpty(s1, a) => ListedAt(s2, a, s1.engine[a])
               /\ ListedAt(s2, b, NoEngine)
  <2>1. Sound(s2, a) /\ Sound(s2, b)
    BY <1>3, <1>6, SoundLater
  <2>2. Whole(s2) /\ SameBut(s, s2, {a, b})
    BY <1>6, <2>1, Conclude
  <2>3. HasValueOf(s2, a, s, b)
    BY <1>6, ValuesStay DEF HasValueOf
  <2>4. Robbed(s, s2, b)
    BY <1>6, ValuesStay DEF Robbed
  <2>. QED
    BY <2>2, <2>3, <2>4
<1>7. CASE IsEmpty(s, b)
  <2>1. IsEmpty(s, a) /\ IsEmpty(s1, a) /\ ListedAt(s1, a, NoEngine) /\ ListedAt(s1, b, NoEngine)
    BY <1>1, <1>3, <1>5, <1>7, SoundParts DEF MayTake
  <2>2. s1.handle[b] = NoEngine
    BY <2>1 DEF ListedAt
  <2>3. s2 = s1
    BY <1>1, <1>2, <2>1, <2>2, HandleNulled DEF AfterMove
  <2>. QED
    BY <1>2, <2>1, <2>3 DEF SameValues, ListsSameBut
<1>8. CASE ~IsEmpty(s, b)
  <2>. DEFINE e == s.engine[b]
  <2>1. /\ e \in Engines /\ e # NoEngine /\ Keeper(s1, a, b) = e /\ ~IsEmpty(s1, a)
        /\ ListedAt(s1, b, e)
    BY <1>1, <1>3, <1>4, <1>5, <1>8, SoundParts DEF Keeper
  <2>. HIDE DEF e
  <2>2. CASE IsEmpty(s, a)
    <3>. DEFINE m == Add(s1, e, a)
                n == Remove(m, b)
    <3>1. ListedAt(s1, a, NoEngine)
      BY <1>1, <1>5, <2>2, SoundParts
    <3>2. m \in RefState /\ SameValues(s1, m) /\ ListedAt(m, a, e) /\ ListsSameBut(s1, m, {a})
      BY <1>1, <1>2, <2>1, <3>1, AddLists
    <3>. HIDE DEF m
    <3>3. ListedAt(m, b, e)
      BY <1>1, <2>1, <3>2, ListsAreSame
    <3>4. n \in RefState /\ SameValues(m, n) /\ ListedAt(n, b, NoEngine) /\ ListsSameBut(m, n, {b})
      BY <1>1, <3>2, <3>3, RemoveLists
    <3>. HIDE DEF n
    <3>5. ListedAt(n, a, e)
      BY <1>1, <3>2, <3>4, ListsAreSame
    <3>6. n.handle[b] = NoEngine
      BY <3>4 DEF ListedAt
    <3>7. s2 = [n EXCEPT !.handle[b] = NoEngine]
      BY <2>1, <2>2 DEF AfterMove, m, n
    <3>8. s2 = n
      BY <1>1, <3>4, <3>6, <3>7, HandleNulled
    <3>9. SameValues(s1, n) /\ ListsSameBut(s1, n, {a, b})
      BY <3>2, <3>4 DEF SameValues, ListsSameBut
    <3>. QED
      BY <1>4, <2>1, <3>4, <3>5, <3>8, <3>9 DEF e
  <2>3. CASE ~IsEmpty(s, a)
    <3>. DEFINE n == Remove(s1, b)
    <3>1. ListedAt(s1, a, e)
      BY <1>1, <1>5, <2>3, SoundParts DEF MayTake, e
    <3>2. n \in RefState /\ SameValues(s1, n) /\ ListedAt(n, b, NoEngine) /\ ListsSameBut(s1, n, {b})
      BY <1>1, <1>2, <2>1, RemoveLists
    <3>. HIDE DEF n
    <3>3. ListedAt(n, a, e)
      BY <1>1, <3>1, <3>2, ListsAreSame
    <3>4. n.handle[b] = NoEngine
      BY <3>2 DEF ListedAt
    <3>5. s2 = [n EXCEPT !.handle[b] = NoEngine]
      BY <2>1, <2>3 DEF AfterMove, n
    <3>6. s2 = n
      BY <1>1, <3>2, <3>4, <3>5, HandleNulled
    <3>7. ListsSameBut(s1, n, {a, b})
      BY <3>2 DEF ListsSameBut
    <3>. QED
      BY <1>4, <2>1, <3>2, <3>3, <3>6, <3>7 DEF e
  <2>. QED
    BY <2>2, <2>3
<1>. QED
  BY <1>7, <1>8

(* Both are of the engine e, or of none.                                   *)
OfOneEngine(s, a, b) ==
  \E e \in Engines : {s.engine[a], s.engine[b]} \subseteq {e, NoEngine}

LEMMA AfterSwapIs ==
  ASSUME HasLists, NEW s, Whole(s), NEW a, NEW b, SameKind(a, b), a # b, OfOneEngine(s, a, b),
         NEW s1, OnlyValues(s, s1, {a, b}), HasValueOf(s1, a, s, b), HasValueOf(s1, b, s, a),
         NEW s2, s2 = AfterSwap(s1, a, b)
  PROVE  Whole(s2) /\ SameBut(s, s2, {a, b}) /\ HasValueOf(s2, a, s, b) /\ HasValueOf(s2, b, s, a)
<1>1. a \in Handles /\ b \in Handles /\ SameKind(b, a)
  BY SameKindKeeps
<1>2. s1 \in RefState /\ SameLists(s, s1)
  BY DEF OnlyValues
<1>3. /\ IsEmpty(s1, a) = IsEmpty(s, b) /\ SoundValue(s1, a)
      /\ IsEmpty(s1, b) = IsEmpty(s, a) /\ SoundValue(s1, b)
  BY <1>1, SoundParts, ValueCarries
<1>4. s1.engine[a] = s.engine[b] /\ s1.engine[b] = s.engine[a]
  BY DEF HasValueOf
<1>5. \A e : (ListedAt(s1, a, e) <=> ListedAt(s, a, e)) /\ (ListedAt(s1, b, e) <=> ListedAt(s, b, e))
  BY <1>2, SameLists2
<1>6. SUFFICES /\ s2 \in RefState /\ SameValues(s1, s2) /\ ListsSameBut(s1, s2, {a, b})
               /\ IsEmpty(s1, a) => ListedAt(s2, a, NoEngine)
               /\ ~IsEmpty(s1, a) => ListedAt(s2, a, s1.engine[a])
               /\ IsEmpty(s1, b) => ListedAt(s2, b, NoEngine)
               /\ ~IsEmpty(s1, b) => ListedAt(s2, b, s1.engine[b])
  <2>1. Sound(s2, a) /\ Sound(s2, b)
    BY <1>3, <1>6, SoundLater
  <2>2. Whole(s2) /\ SameBut(s, s2, {a, b})
    BY <1>6, <2>1, Conclude
  <2>3. HasValueOf(s2, a, s, b) /\ HasValueOf(s2, b, s, a)
    BY <1>6, ValuesStay DEF HasValueOf
  <2>. QED
    BY <2>2, <2>3
<1>7. PICK e \in Engines : {s.engine[a], s.engine[b]} \subseteq {e, NoEngine}
  BY DEF OfOneEngine
<1>8. /\ ~IsEmpty(s, a) => s.engine[a] = e
      /\ ~IsEmpty(s, b) => s.engine[b] = e
      /\ e # NoEngine
  BY <1>1, <1>7, SoundParts, BackendAssumption
<1>9. CASE IsEmpty(s1, a) = IsEmpty(s1, b)
  <2>1. s2 = s1
    BY <1>9 DEF AfterSwap
  <2>. QED
    BY <1>1, <1>2, <1>3, <1>4, <1>5, <1>8, <1>9, <2>1, SoundParts DEF SameValues, ListsSameBut
<1>10. CASE IsEmpty(s1, a) /\ ~IsEmpty(s1, b)
  <2>1. /\ Keeper(s1, a, b) = e /\ s1.engine[b] = e
        /\ ListedAt(s1, a, e) /\ ListedAt(s1, b, NoEngine)
    BY <1>1, <1>3, <1>4, <1>5, <1>7, <1>8, <1>10, SoundParts DEF Keeper
  <2>. DEFINE m == Remove(s1, a)
              n == Add(m, e, b)
  <2>2. m \in RefState /\ SameValues(s1, m) /\ ListedAt(m, a, NoEngine) /\ ListsSameBut(s1, m, {a})
    BY <1>1, <1>2, <2>1, RemoveLists
  <2>. HIDE DEF m
  <2>3. ListedAt(m, b, NoEngine)
    BY <1>1, <2>1, <2>2, ListsAreSame
  <2>4. n \in RefState /\ SameValues(m, n) /\ ListedAt(n, b, e) /\ ListsSameBut(m, n, {b})
    BY <1>1, <2>2, <2>3, AddLists
  <2>. HIDE DEF n
  <2>5. ListedAt(n, a, NoEngine)
    BY <1>1, <2>2, <2>4, ListsAreSame
  <2>6. s2 = n
    BY <1>8, <1>10, <2>1 DEF AfterSwap, m, n
  <2>7. SameValues(s1, n) /\ ListsSameBut(s1, n, {a, b})
    BY <2>2, <2>4 DEF SameValues, ListsSameBut
  <2>. QED
    BY <1>10, <2>1, <2>4, <2>5, <2>6, <2>7
<1>11. CASE ~IsEmpty(s1, a) /\ IsEmpty(s1, b)
  <2>1. /\ Keeper(s1, a, b) = e /\ s1.engine[a] = e
        /\ ListedAt(s1, b, e) /\ ListedAt(s1, a, NoEngine)
    BY <1>1, <1>3, <1>4, <1>5, <1>7, <1>8, <1>11, SoundParts DEF Keeper
  <2>. DEFINE m == Add(s1, e, a)
              n == Remove(m, b)
  <2>2. m \in RefState /\ SameValues(s1, m) /\ ListedAt(m, a, e) /\ ListsSameBut(s1, m, {a})
    BY <1>1, <1>2, <2>1, AddLists
  <2>. HIDE DEF m
  <2>3. ListedAt(m, b, e)
    BY <1>1, <2>1, <2>2, ListsAreSame
  <2>4. n \in RefState /\ SameValues(m, n) /\ ListedAt(n, b, NoEngine) /\ ListsSameBut(m, n, {b})
    BY <1>1, <2>2, <2>3, RemoveLists
  <2>. HIDE DEF n
  <2>5. ListedAt(n, a, e)
    BY <1>1, <2>2, <2>4, ListsAreSame
  <2>6. s2 = n
    BY <1>8, <1>11, <2>1 DEF AfterSwap, m, n
  <2>7. SameValues(s1, n) /\ ListsSameBut(s1, n, {a, b})
    BY <2>2, <2>4 DEF SameValues, ListsSameBut
  <2>. QED
    BY <1>11, <2>1, <2>4, <2>5, <2>6, <2>7
<1>. QED
  BY <1>9, <1>10, <1>11 DEF IsEmpty

-----------------------------------------------------------------------------
(* References come and go.                                                 *)

Result(s, s2, X) == Whole(s2) /\ SameBut(s, s2, X)

LEMMA ResultsFollow ==
  ASSUME NEW s, NEW s1, NEW s2, NEW X, NEW Y, Result(s, s1, X), Result(s1, s2, Y)
  PROVE  Result(s, s2, X \cup Y)
  BY DEF Result, SameBut, Same

LEMMA OthersStay ==
  ASSUME NEW s, NEW s2, NEW X, Result(s, s2, X), NEW h \in Handles \ X
  PROVE  /\ Same(s, s2, h) /\ IsEmpty(s2, h) = IsEmpty(s, h) /\ (Dead(s, h) => Dead(s2, h))
         /\ s2.engine[h] = s.engine[h] /\ s2.object[h] = s.object[h]
<1>1. Same(s, s2, h)
  BY DEF Result, SameBut
<1>. QED
  BY <1>1, SameIsSound DEF Same

(* An empty reference has neither object nor node.                         *)
LEMMA EmptyIs ==
  ASSUME NEW s, Whole(s), NEW h \in Handles, Dead(s, h)
  PROVE  /\ s \in RefState /\ s.object[h] = NoObject /\ s.handle[h] = NoEngine
         /\ backend \in RefBackends => Sound(s, h)
<1>1. s \in RefState /\ Sound(s, h) /\ IsEmpty(s, h)
  BY DEF Whole, Dead
<1>2. s.object[h] = NoObject
  BY <1>1 DEF Sound, SoundValue
<1>3. s.handle[h] = NoEngine
  BY <1>1 DEF Sound, SoundKey, SoundList, ListedAt
<1>. QED
  BY <1>1, <1>2, <1>3

LEMMA FreshIsWhole ==
  ASSUME NEW s, Whole(s), NEW h \in Handles, Dead(s, h)
  PROVE  /\ Result(s, Fresh(s, h), {h}) /\ Dead(Fresh(s, h), h)
         /\ HasValue(Fresh(s, h), h, NoEngine, NoObject)
<1>. DEFINE s1 == Fresh(s, h)
<1>1. /\ s \in RefState /\ s.object[h] = NoObject /\ s.handle[h] = NoEngine
      /\ \A e \in Engines : s.nodes[e][h] = 0
  BY EmptyIs DEF Dead
<1>2. OnlyValues(s, s1, {h}) /\ HasValue(s1, h, NoEngine, NoObject)
  BY <1>1, FreshIs
<1>. HIDE DEF s1
<1>3. /\ s1.engine[h] = NoEngine /\ s1.object[h] = NoObject /\ s1.handle[h] = NoEngine
      /\ \A e \in Engines : s1.nodes[e][h] = 0
  BY <1>1, <1>2 DEF HasValue, OnlyValues, SameLists
<1>4. IsEmpty(s1, h)
  BY <1>3 DEF IsEmpty
<1>5. Dead(s1, h)
  BY <1>3, <1>4 DEF Dead
<1>6. SoundValue(s1, h)
  BY <1>3, <1>4 DEF SoundValue
<1>7. SoundKey(s1, h)
  BY <1>3, BackendAssumption DEF SoundKey
<1>8. SoundList(s1, h)
  BY <1>3, <1>4, BackendAssumption DEF SoundList, ListedAt
<1>9. Sound(s1, h)
  BY <1>6, <1>7, <1>8 DEF Sound
<1>10. Whole(s1) /\ SameBut(s, s1, {h})
  <2>1. SameValues(s1, s1) /\ ListsSameBut(s1, s1, {h}) /\ s1 \in RefState
    BY <1>2 DEF SameValues, ListsSameBut, OnlyValues
  <2>. QED
    BY <1>2, <1>9, <2>1, Conclude
<1>. QED
  BY <1>2, <1>5, <1>10 DEF Result, s1

LEMMA GoneIsDead ==
  ASSUME HasLists, NEW s, Whole(s), NEW h \in Handles, IsEmpty(s, h)
  PROVE  Dead(s, h)
  BY SoundParts, BackendAssumption DEF Dead, ListedAt

(* Taking the value and taking the node may be done in either order.       *)
LEMMA SetAfterRemove ==
  ASSUME NEW s \in RefState, NEW h \in Handles, NEW e, NEW o
  PROVE  SetValue(Remove(s, h), h, e, o) = Remove(SetValue(s, h, e, o), h)
<1>. DEFINE s1 == SetValue(s, h, e, o)
            eng == [s.engine EXCEPT ![h] = e]
            obj == [s.object EXCEPT ![h] = o]
            nod == [s.nodes EXCEPT ![s.handle[h]][h] = @ - 1]
            han == [s.handle EXCEPT ![h] = NoEngine]
<1>1. s1 = [s EXCEPT !.engine = eng, !.object = obj]
  BY DEF SetValue, RefState
<1>. HIDE DEF eng, obj
<1>2. s1.handle = s.handle /\ s1.nodes = s.nodes
  BY <1>1 DEF RefState
<1>3. CASE s.handle[h] = NoEngine
  BY <1>2, <1>3 DEF Remove
<1>4. CASE s.handle[h] # NoEngine
  <2>1. Remove(s, h) = [s EXCEPT !.nodes = nod, !.handle = han]
    BY <1>4 DEF Remove, RefState
  <2>2. SetValue(Remove(s, h), h, e, o) =
        [Remove(s, h) EXCEPT !.engine = [Remove(s, h).engine EXCEPT ![h] = e],
                             !.object = [Remove(s, h).object EXCEPT ![h] = o]]
    BY <2>1 DEF SetValue, RefState
  <2>3. Remove(s1, h) = [s1 EXCEPT !.nodes = nod, !.handle = han]
    BY <1>1, <1>2, <1>4 DEF Remove, RefState
  <2>. HIDE DEF nod, han, s1
  <2>4. Remove(s, h).engine = s.engine /\ Remove(s, h).object = s.object
    BY <2>1 DEF RefState
  <2>5. SetValue(Remove(s, h), h, e, o) = [Remove(s, h) EXCEPT !.engine = eng, !.object = obj]
    BY <2>2, <2>4 DEF eng, obj
  <2>6. [[s EXCEPT !.nodes = nod, !.handle = han] EXCEPT !.engine = eng, !.object = obj] =
        [[s EXCEPT !.engine = eng, !.object = obj] EXCEPT !.nodes = nod, !.handle = han]
    BY DEF RefState
  <2>. QED
    BY <1>1, <2>1, <2>3, <2>5, <2>6 DEF s1
<1>. QED
  BY <1>3, <1>4

LEMMA DropListed ==
  ASSUME HasLists, NEW s, Whole(s), NEW h \in Handles, ~IsEmpty(s, h),
         NEW e \in Engines \cup {NoEngine}, ByEngine(h) \/ backend = "Lua" => e = NoEngine,
         NEW s2, s2 = Remove(SetValue(Release(s, h), h, e, NoObject), h)
  PROVE  Result(s, s2, {h}) /\ IsEmpty(s2, h)
<1>. DEFINE s1 == SetValue(Release(s, h), h, e, NoObject)
<1>1. s \in RefState /\ ListedAt(s, h, s.engine[h])
  BY SoundParts
<1>2. OnlyValues(s, s1, {h}) /\ HasValue(s1, h, e, NoObject)
  BY <1>1, DropIs
<1>3. s2 = Remove(s1, h)
  OBVIOUS
<1>. HIDE DEF s1
<1>4. s1 \in RefState /\ ListedAt(s1, h, s.engine[h])
  BY <1>1, <1>2, SameLists2 DEF OnlyValues
<1>5. s2 \in RefState /\ SameValues(s1, s2) /\ ListedAt(s2, h, NoEngine) /\ ListsSameBut(s1, s2, {h})
  BY <1>3, <1>4, RemoveLists
<1>6. IsEmpty(s1, h) /\ SoundValue(s1, h)
  BY <1>2 DEF HasValue, IsEmpty, SoundValue
<1>7. Sound(s2, h) /\ IsEmpty(s2, h)
  BY <1>5, <1>6, SoundLater, ValuesStay
<1>8. Whole(s2) /\ SameBut(s, s2, {h})
  BY <1>2, <1>5, <1>7, Conclude
<1>. QED
  BY <1>7, <1>8 DEF Result

LEMMA StillThere ==
  ASSUME NEW s, Whole(s), NEW X
  PROVE  Result(s, s, X)
  BY DEF Result, SameBut, Same

LEMMA ResetIs ==
  ASSUME HasLists, NEW s, Whole(s), NEW h \in Handles, NEW s2, s2 = ResetOne(s, h)
  PROVE  Result(s, s2, {h}) /\ Dead(s2, h)
<1>1. NoEngine \in Engines \cup {NoEngine} /\ s.engine[h] \in Engines \cup {NoEngine} /\ s \in RefState
  BY ValuesAreTyped DEF Whole
<1>2. SUFFICES Result(s, s2, {h}) /\ IsEmpty(s2, h)
  BY GoneIsDead DEF Result
<1>3. CASE IsEmpty(s, h)
  <2>1. s2 = s
    BY <1>3 DEF ResetOne, QjsReset, V8Reset, JscReset, LuaReset, HasLists, RefBackends
  <2>. QED
    BY <1>3, <2>1, StillThere
<1>4. CASE ~IsEmpty(s, h) /\ backend = "V8"
  <2>. DEFINE e == IF h \in Globals THEN s.engine[h] ELSE NoEngine
  <2>1. s2 = Remove(SetValue(Release(s, h), h, e, NoObject), h)
    BY <1>4 DEF ResetOne, V8Reset
  <2>2. e \in Engines \cup {NoEngine} /\ (ByEngine(h) \/ backend = "Lua" => e = NoEngine)
    BY <1>1, <1>4, ReferencesAssumption DEF ByEngine
  <2>. QED
    BY <1>4, <2>1, <2>2, DropListed
<1>5. CASE ~IsEmpty(s, h) /\ backend # "V8"
  <2>1. s2 = SetValue(Remove(Release(s, h), h), h, NoEngine, NoObject)
    BY <1>5 DEF ResetOne, QjsReset, JscReset, LuaReset, HasLists, RefBackends
  <2>2. Release(s, h) \in RefState
    BY <1>1, ReleaseIs
  <2>3. s2 = Remove(SetValue(Release(s, h), h, NoEngine, NoObject), h)
    BY <2>1, <2>2, SetAfterRemove
  <2>. QED
    BY <1>1, <1>5, <2>3, DropListed
<1>. QED
  BY <1>3, <1>4, <1>5 DEF IsEmpty

(* A Local of the scope the program is in.                                 *)
LocalOf(e, o) == LocalIn(e, o) /\ e \in Engines /\ o \in Objects

LEMMA KeepIs ==
  ASSUME HasLists, NEW s, Whole(s), NEW h \in Handles, Dead(s, h), NEW e, NEW o, LocalOf(e, o),
         NEW s2, s2 = Keep(Retain(SetValue(s, h, e, o), h), h)
  PROVE  Result(s, s2, {h}) /\ HasValue(s2, h, e, o) /\ ~IsEmpty(s2, h)
<1>. DEFINE s1 == Retain(SetValue(s, h, e, o), h)
<1>1. /\ s \in RefState /\ s.object[h] = NoObject /\ IsEmpty(s, h)
      /\ e \in Engines /\ e # NoEngine /\ o \in Objects /\ o # NoObject
  BY EmptyIs, BackendAssumption, ReferencesAssumption DEF LocalOf, Dead
<1>2. OnlyValues(s, s1, {h}) /\ HasValue(s1, h, e, o)
  BY <1>1, GainIs
<1>3. s2 = Keep(s1, h)
  OBVIOUS
<1>. HIDE DEF s1
<1>4. ~IsEmpty(s1, h) /\ SoundValue(s1, h)
  BY <1>1, <1>2 DEF HasValue, IsEmpty, SoundValue, LocalOf, LocalIn
<1>5. s2 = Add(s1, e, h)
  BY <1>1, <1>2, <1>3, <1>4 DEF Keep, HasValue
<1>6. s1 \in RefState /\ ListedAt(s1, h, NoEngine)
  BY <1>1, <1>2, SoundParts, SameLists2 DEF OnlyValues
<1>7. s2 \in RefState /\ SameValues(s1, s2) /\ ListedAt(s2, h, e) /\ ListsSameBut(s1, s2, {h})
  BY <1>1, <1>5, <1>6, AddLists
<1>8. Sound(s2, h) /\ ~IsEmpty(s2, h) /\ HasValue(s2, h, e, o)
  BY <1>2, <1>4, <1>7, SoundLater, ValuesStay DEF HasValue
<1>9. Whole(s2) /\ SameBut(s, s2, {h})
  BY <1>2, <1>7, <1>8, Conclude
<1>. QED
  BY <1>8, <1>9 DEF Result

LEMMA FromLocalIs ==
  ASSUME HasLists, NEW s, Whole(s), NEW h \in Handles, Dead(s, h), NEW e, NEW o, LocalOf(e, o),
         NEW s2, s2 = FromLocal(Fresh(s, h), h, e, o)
  PROVE  Result(s, s2, {h}) /\ HasValue(s2, h, e, o) /\ ~IsEmpty(s2, h)
<1>. DEFINE s1 == Fresh(s, h)
<1>1. Result(s, s1, {h}) /\ Dead(s1, h)
  BY FreshIsWhole
<1>2. s2 = Keep(Retain(SetValue(s1, h, e, o), h), h)
  BY DEF FromLocal, QjsFromLocal, V8FromLocal, JscFromLocal, LuaFromLocal, HasLists, RefBackends
<1>. HIDE DEF s1
<1>3. Result(s1, s2, {h}) /\ HasValue(s2, h, e, o) /\ ~IsEmpty(s2, h)
  BY <1>1, <1>2, KeepIs DEF Result
<1>. QED
  BY <1>1, <1>3, ResultsFollow

LEMMA Widened ==
  ASSUME NEW s, NEW s2, NEW X, NEW Y, Result(s, s2, X), X \subseteq Y
  PROVE  Result(s, s2, Y)
  BY DEF Result, SameBut

LEMMA CopyIs ==
  ASSUME HasLists, NEW s, Whole(s), NEW a, NEW b, SameKind(a, b), MayTake(s, a, b),
         NEW s2, s2 = AfterCopy(CopyValue(s, a, b), IsEmpty(s, a), a, b)
  PROVE  Result(s, s2, {a}) /\ HasValueOf(s2, a, s, b)
<1>1. a \in Handles /\ b \in Handles /\ s \in RefState
  BY SameKindKeeps DEF Whole
<1>2. OnlyValues(s, CopyValue(s, a, b), {a}) /\ HasValueOf(CopyValue(s, a, b), a, s, b)
  BY <1>1, CopyValueIs
<1>. QED
  BY <1>2, AfterCopyIs DEF Result

(* A moved-from Weak of JavaScriptCore keeps its engine.                   *)
LEMMA MoveIs ==
  ASSUME HasLists, NEW s, Whole(s), NEW a, NEW b, SameKind(a, b), a # b, MayTake(s, a, b),
         NEW s2, \/ s2 = AfterMove(MoveValue(s, a, b), IsEmpty(s, a), a, b)
                 \/ backend = "JavaScriptCore" /\ s2 = JscWeakMove(s, a, b)
  PROVE  Result(s, s2, {a, b}) /\ HasValueOf(s2, a, s, b) /\ Robbed(s, s2, b)
<1>1. a \in Handles /\ b \in Handles /\ s \in RefState
  BY SameKindKeeps DEF Whole
<1>. DEFINE m == MoveValue(s, a, b)
<1>2. OnlyValues(s, m, {a, b}) /\ HasValueOf(m, a, s, b) /\ HasValue(m, b, NoEngine, NoObject)
  BY <1>1, MoveValueIs
<1>. HIDE DEF m
<1>3. CASE s2 = AfterMove(m, IsEmpty(s, a), a, b)
  <2>1. Robbed(s, m, b)
    BY <1>2 DEF Robbed, HasValue, IsEmpty
  <2>. QED
    BY <1>2, <1>3, <2>1, AfterMoveIs DEF Result
<1>4. CASE backend = "JavaScriptCore" /\ s2 = JscWeakMove(s, a, b)
  <2>. DEFINE n == [m EXCEPT !.engine[b] = s.engine[b]]
  <2>1. s2 = AfterMove(n, IsEmpty(s, a), a, b)
    BY <1>4 DEF JscWeakMove, m
  <2>2. m \in RefState /\ s.engine[b] \in Engines \cup {NoEngine} /\ m.object[b] = NoObject
    BY <1>1, <1>2, ValuesAreTyped DEF OnlyValues, HasValue
  <2>3. OnlyValues(m, n, {b}) /\ HasValue(n, b, s.engine[b], NoObject)
    BY <1>1, <2>2, EngineIs
  <2>. HIDE DEF n
  <2>4. OnlyValues(s, n, {a, b})
    BY <1>2, <2>3 DEF OnlyValues, SameLists, OthersValued, SameSurplus
  <2>5. HasValueOf(n, a, s, b)
    BY <1>1, <1>2, <2>3 DEF HasValueOf, OnlyValues, OthersValued
  <2>6. Robbed(s, n, b)
    BY <1>4, <2>3 DEF Robbed, HasValue, IsEmpty, ByEngine
  <2>. QED
    BY <2>1, <2>4, <2>5, <2>6, AfterMoveIs DEF Result
<1>. QED
  BY <1>3, <1>4 DEF m

LEMMA SwapIs ==
  ASSUME HasLists, NEW s, Whole(s), NEW a, NEW b, SameKind(a, b), OfOneEngine(s, a, b),
         NEW s2, s2 = AfterSwap(SwapValue(s, a, b), a, b)
  PROVE  Result(s, s2, {a, b}) /\ HasValueOf(s2, a, s, b) /\ HasValueOf(s2, b, s, a)
<1>1. a \in Handles /\ b \in Handles /\ s \in RefState
  BY SameKindKeeps DEF Whole
<1>2. CASE a = b
  <2>1. s2 = s
    BY <1>1, <1>2, SwapWithItself DEF AfterSwap
  <2>. QED
    BY <1>2, <2>1, StillThere DEF HasValueOf
<1>3. CASE a # b
  BY <1>1, <1>3, SwapValueIs, AfterSwapIs DEF Result
<1>. QED
  BY <1>2, <1>3

(* The lifetime of a temporary t that has been dealt with begins and ends  *)
(* within the assignment.                                                  *)
LEMMA TempIs ==
  ASSUME NEW h \in Handles
  PROVE  TempOf(h) \in Temps /\ SameKind(h, TempOf(h)) /\ SameKind(TempOf(h), h)
  BY ReferencesAssumption DEF TempOf, Temps, SameKind, Handles

(* What the program assigns a Local to, in the scope of e: it is empty, or *)
(* of that engine.                                                         *)
OfEngine(s, h, e) == IsEmpty(s, h) \/ s.engine[h] = e

LEMMA AssignByMove ==
  ASSUME HasLists, NEW s, Whole(s), NEW h \in Handles, NEW t, t = TempOf(h), h # t, Dead(s, t),
         NEW e, NEW o, LocalOf(e, o), OfEngine(s, h, e),
         NEW s1, s1 = FromLocal(Fresh(s, t), t, e, o),
         NEW s2, \/ s2 = AfterMove(MoveValue(s1, h, t), IsEmpty(s1, h), h, t)
                 \/ backend = "JavaScriptCore" /\ s2 = JscWeakMove(s1, h, t),
         NEW s3, s3 = ResetOne(s2, t)
  PROVE  Result(s, s3, {h, t}) /\ Dead(s3, t)
<1>1. SameKind(h, t) /\ t \in Handles
  BY TempIs, SameKindKeeps
<1>2. Result(s, s1, {t}) /\ HasValue(s1, t, e, o) /\ ~IsEmpty(s1, t)
  BY <1>1, FromLocalIs
<1>3. MayTake(s1, h, t) /\ Whole(s1)
  BY <1>2, OthersStay DEF MayTake, OfEngine, HasValue, Result
<1>4. Result(s1, s2, {h, t})
  BY <1>1, <1>3, MoveIs
<1>5. Result(s2, s3, {t}) /\ Dead(s3, t)
  BY <1>1, <1>4, ResetIs DEF Result
<1>6. Result(s, s2, {t} \cup {h, t}) /\ Result(s, s3, {t} \cup {h, t} \cup {t})
  BY <1>2, <1>4, <1>5, ResultsFollow
<1>. QED
  BY <1>5, <1>6, Widened

(* Lua assigns through a temporary that it swaps with the target.          *)
LEMMA AssignBySwap ==
  ASSUME HasLists, NEW s, Whole(s), NEW a \in Handles, NEW t, t = TempOf(a), a # t,
         NEW s1, NEW X, Result(s, s1, X), OfOneEngine(s1, t, a),
         NEW s2, s2 = ResetOne(AfterSwap(SwapValue(s1, t, a), t, a), t)
  PROVE  Result(s, s2, {a, t} \cup X) /\ Dead(s2, t)
<1>. DEFINE m == AfterSwap(SwapValue(s1, t, a), t, a)
<1>1. SameKind(t, a) /\ t \in Handles /\ Whole(s1)
  BY TempIs, SameKindKeeps DEF Result
<1>2. Result(s1, m, {t, a})
  BY <1>1, SwapIs
<1>3. s2 = ResetOne(m, t)
  OBVIOUS
<1>. HIDE DEF m
<1>4. Result(m, s2, {t}) /\ Dead(s2, t)
  BY <1>1, <1>2, <1>3, ResetIs DEF Result
<1>5. Result(s, s2, X \cup {t, a} \cup {t})
  BY <1>2, <1>4, ResultsFollow
<1>. QED
  BY <1>4, <1>5, Widened

-----------------------------------------------------------------------------
(* The assignments of the backends that have lists.                        *)

MayPut(s, a, b) == backend = "Lua" \/ IsEmpty(s, a) \/ ~IsEmpty(s, b)
Assigned(s, s2, a, b) == Result(s, s2, {a, b, TempOf(a)}) /\ Dead(s2, TempOf(a))

(* a and b are references of the scope of e, and no temporary is alive.    *)
InScope(s, a, b, e) ==
  /\ Whole(s)
  /\ SameKind(a, b) /\ a \notin Temps /\ b \notin Temps
  /\ \A t \in Temps : Dead(s, t)
  /\ e \in Engines /\ OfEngine(s, a, e) /\ OfEngine(s, b, e)

LEMMA ScopeGives ==
  ASSUME NEW s, NEW a, NEW b, NEW e, InScope(s, a, b, e), NEW t, t = TempOf(a)
  PROVE  /\ a \in Handles /\ b \in Handles /\ t \in Handles /\ t # a /\ t # b /\ Dead(s, t)
         /\ SameKind(a, b) /\ SameKind(t, a) /\ SameKind(t, b) /\ Whole(s)
         /\ backend # "Lua" /\ MayPut(s, a, b) => MayTake(s, a, b)
         /\ HasLists /\ backend = "Lua" => {s.engine[a], s.engine[b]} \subseteq {e, NoEngine}
<1>1. a \in Handles /\ b \in Handles /\ SameKind(a, b) /\ Whole(s)
  BY SameKindKeeps DEF InScope
<1>2. t \in Temps /\ SameKind(t, a) /\ t \in Handles
  BY <1>1, TempIs, SameKindKeeps
<1>3. SameKind(t, b)
  BY <1>1, <1>2, ReferencesAssumption DEF SameKind
<1>4. HasLists /\ backend = "Lua" => {s.engine[a], s.engine[b]} \subseteq {e, NoEngine}
  BY <1>1, SoundParts DEF InScope, OfEngine, SoundValue
<1>5. backend # "Lua" /\ MayPut(s, a, b) => MayTake(s, a, b)
  BY DEF MayPut, MayTake, InScope, OfEngine
<1>. QED
  BY <1>1, <1>2, <1>3, <1>4, <1>5 DEF InScope

LEMMA AssignedWithoutTemp ==
  ASSUME NEW s, NEW a, NEW b, NEW e, InScope(s, a, b, e), NEW s2, Result(s, s2, {a, b})
  PROVE  Assigned(s, s2, a, b)
<1>. DEFINE t == TempOf(a)
<1>1. t \in Handles \ {a, b} /\ Dead(s, t)
  BY ScopeGives
<1>. HIDE DEF t
<1>2. Dead(s2, t)
  BY <1>1, OthersStay
<1>3. Result(s, s2, {a, b, t})
  BY Widened
<1>. QED
  BY <1>2, <1>3 DEF Assigned, t

LEMMA CopiedIs ==
  ASSUME HasLists, NEW s, NEW a, NEW b, NEW e, InScope(s, a, b, e), MayPut(s, a, b),
         NEW s2, s2 = Copied(s, a, b)
  PROVE  Assigned(s, s2, a, b)
<1>. DEFINE t == TempOf(a)
<1>1. /\ a \in Handles /\ b \in Handles /\ t \in Handles /\ t # a /\ t # b /\ Dead(s, t)
      /\ SameKind(a, b) /\ SameKind(t, a) /\ SameKind(t, b) /\ Whole(s)
      /\ backend # "Lua" => MayTake(s, a, b)
      /\ backend = "Lua" => {s.engine[a], s.engine[b]} \subseteq {e, NoEngine}
  BY ScopeGives
<1>2. CASE backend # "Lua"
  <2>1. \/ s2 = AfterCopy(CopyValue(s, a, b), IsEmpty(s, a), a, b)
        \/ s2 = s
    BY <1>2 DEF Copied, QjsCopy, V8Copy, JscCopy, HasLists, RefBackends
  <2>2. Result(s, s2, {a})
    BY <1>1, <1>2, <2>1, CopyIs, StillThere
  <2>. QED
    BY <2>2, Widened, AssignedWithoutTemp
<1>3. CASE backend = "Lua"
  <2>. DEFINE s0 == Fresh(s, t)
              s1 == AfterCopy(CopyValue(s0, t, b), TRUE, t, b)
  <2>1. s2 = ResetOne(AfterSwap(SwapValue(s1, t, a), t, a), t)
    BY <1>3 DEF Copied, LuaCopy, LuaCopyCtor, LuaSwap, ResetOne
  <2>2. Result(s, s0, {t}) /\ Dead(s0, t)
    BY <1>1, FreshIsWhole
  <2>. HIDE DEF s0, t
  <2>3. IsEmpty(s0, t) = TRUE /\ MayTake(s0, t, b) /\ Whole(s0)
    BY <2>2 DEF Dead, IsEmpty, MayTake, Result
  <2>4. Result(s0, s1, {t}) /\ HasValueOf(s1, t, s0, b)
    BY <1>1, <2>3, CopyIs
  <2>. HIDE DEF s1
  <2>5. s0.engine[b] = s.engine[b] /\ s0.engine[a] = s.engine[a] /\ s1.engine[a] = s0.engine[a]
    BY <1>1, <2>2, <2>4, OthersStay
  <2>6. e \in Engines
    BY DEF InScope
  <2>7. OfOneEngine(s1, t, a)
    BY <1>1, <1>3, <2>4, <2>5, <2>6 DEF OfOneEngine, HasValueOf
  <2>8. Result(s, s1, {t} \cup {t})
    BY <2>2, <2>4, ResultsFollow
  <2>9. Result(s, s2, {a, t} \cup ({t} \cup {t})) /\ Dead(s2, t)
    BY <1>1, <2>1, <2>7, <2>8, AssignBySwap DEF t
  <2>10. Result(s, s2, {a, b, t})
    BY <2>9, Widened
  <2>. QED
    BY <2>9, <2>10 DEF Assigned, t
<1>. QED
  BY <1>2, <1>3

LEMMA MovedIs ==
  ASSUME HasLists, NEW s, NEW a, NEW b, NEW e, InScope(s, a, b, e), MayPut(s, a, b), a # b,
         NEW s2, s2 = Moved(s, a, b)
  PROVE  Assigned(s, s2, a, b)
<1>. DEFINE t == TempOf(a)
<1>1. /\ a \in Handles /\ b \in Handles /\ t \in Handles /\ t # a /\ t # b /\ Dead(s, t)
      /\ SameKind(a, b) /\ SameKind(t, a) /\ SameKind(t, b) /\ Whole(s)
      /\ backend # "Lua" => MayTake(s, a, b)
      /\ backend = "Lua" => {s.engine[a], s.engine[b]} \subseteq {e, NoEngine}
  BY ScopeGives
<1>2. CASE backend # "Lua"
  <2>1. \/ s2 = AfterMove(MoveValue(s, a, b), IsEmpty(s, a), a, b)
        \/ backend = "JavaScriptCore" /\ s2 = JscWeakMove(s, a, b)
    BY <1>2 DEF Moved, QjsMove, V8Move, JscMove, JscGlobalMove, HasLists, RefBackends
  <2>2. Result(s, s2, {a, b})
    BY <1>1, <1>2, <2>1, MoveIs
  <2>. QED
    BY <2>2, AssignedWithoutTemp
<1>3. CASE backend = "Lua"
  <2>. DEFINE s0 == Fresh(s, t)
              s1 == AfterMove(MoveValue(s0, t, b), TRUE, t, b)
  <2>1. s2 = ResetOne(AfterSwap(SwapValue(s1, t, a), t, a), t)
    BY <1>3 DEF Moved, LuaMove, LuaMoveCtor, LuaSwap, ResetOne
  <2>2. Result(s, s0, {t}) /\ Dead(s0, t)
    BY <1>1, FreshIsWhole
  <2>. HIDE DEF s0, t
  <2>3. IsEmpty(s0, t) = TRUE /\ MayTake(s0, t, b) /\ Whole(s0)
    BY <2>2 DEF Dead, IsEmpty, MayTake, Result
  <2>4. Result(s0, s1, {t, b}) /\ HasValueOf(s1, t, s0, b)
    BY <1>1, <2>3, MoveIs
  <2>. HIDE DEF s1
  <2>5. s0.engine[b] = s.engine[b] /\ s0.engine[a] = s.engine[a] /\ s1.engine[a] = s0.engine[a]
    BY <1>1, <2>2, <2>4, OthersStay
  <2>6. e \in Engines
    BY DEF InScope
  <2>7. OfOneEngine(s1, t, a)
    BY <1>1, <1>3, <2>4, <2>5, <2>6 DEF OfOneEngine, HasValueOf
  <2>8. Result(s, s1, {t} \cup {t, b})
    BY <2>2, <2>4, ResultsFollow
  <2>9. Result(s, s2, {a, t} \cup ({t} \cup {t, b})) /\ Dead(s2, t)
    BY <1>1, <2>1, <2>7, <2>8, AssignBySwap DEF t
  <2>10. Result(s, s2, {a, b, t})
    BY <2>9, Widened
  <2>. QED
    BY <2>9, <2>10 DEF Assigned, t
<1>. QED
  BY <1>2, <1>3

LEMMA SwappedIs ==
  ASSUME HasLists, NEW s, NEW a, NEW b, NEW e, InScope(s, a, b, e), OfOneEngine(s, a, b),
         NEW s2, s2 = Swapped(s, a, b)
  PROVE  Assigned(s, s2, a, b)
<1>1. SameKind(a, b) /\ Whole(s)
  BY DEF InScope
<1>2. s2 = AfterSwap(SwapValue(s, a, b), a, b) \/ s2 = s
  BY DEF Swapped, QjsSwap, V8Swap, JscSwap, LuaSwap, HasLists, RefBackends
<1>3. Result(s, s2, {a, b})
  BY <1>1, <1>2, SwapIs, StillThere
<1>. QED
  BY <1>3, AssignedWithoutTemp

LEMMA LocalAssignedIs ==
  ASSUME HasLists, NEW s, NEW a, NEW e, InScope(s, a, a, e), NEW o, LocalOf(e, o),
         NEW s2, s2 = LocalAssigned(s, a, e, o)
  PROVE  Assigned(s, s2, a, a)
<1>. DEFINE t == TempOf(a)
            s1 == FromLocal(Fresh(s, t), t, e, o)
<1>1. /\ a \in Handles /\ t \in Handles /\ t # a /\ Dead(s, t)
      /\ SameKind(t, a) /\ Whole(s) /\ OfEngine(s, a, e)
      /\ backend = "Lua" => {s.engine[a]} \subseteq {e, NoEngine}
  BY ScopeGives DEF InScope
<1>2. CASE backend # "Lua"
  <2>. DEFINE m == Moved(s1, a, t)
  <2>1. s2 = ResetOne(m, t)
    BY <1>2 DEF LocalAssigned, QjsAssignLocal, V8AssignLocal, JscAssignLocal, ResetOne, FromLocal,
                Moved, HasLists, RefBackends
  <2>2. \/ m = AfterMove(MoveValue(s1, a, t), IsEmpty(s1, a), a, t)
        \/ backend = "JavaScriptCore" /\ m = JscWeakMove(s1, a, t)
    BY <1>1, <1>2 DEF Moved, QjsMove, V8Move, JscMove, JscGlobalMove, HasLists, RefBackends
  <2>3. Result(s, s2, {a, t}) /\ Dead(s2, t)
    BY <1>1, <2>1, <2>2, AssignByMove
  <2>. QED
    BY <2>3, Widened DEF Assigned
<1>3. CASE backend = "Lua"
  <2>1. s2 = ResetOne(AfterSwap(SwapValue(s1, t, a), t, a), t)
    BY <1>3 DEF LocalAssigned, LuaAssignLocal, LuaSwap, ResetOne, FromLocal
  <2>2. Result(s, s1, {t}) /\ HasValue(s1, t, e, o)
    BY <1>1, FromLocalIs
  <2>. HIDE DEF s1
  <2>3. s1.engine[a] = s.engine[a] /\ e \in Engines
    BY <1>1, <2>2, OthersStay DEF InScope
  <2>4. OfOneEngine(s1, t, a)
    BY <1>1, <1>3, <2>2, <2>3 DEF OfOneEngine, HasValue
  <2>5. Result(s, s2, {a, t} \cup {t}) /\ Dead(s2, t)
    BY <1>1, <2>1, <2>2, <2>4, AssignBySwap
  <2>. QED
    BY <2>5, Widened DEF Assigned
<1>. QED
  BY <1>2, <1>3

LEMMA CopyConstructedIs ==
  ASSUME HasLists, NEW s, Whole(s), NEW a, NEW b, SameKind(a, b), a # b, Dead(s, a),
         NEW s2, s2 = CopyConstructed(Fresh(s, a), a, b)
  PROVE  Result(s, s2, {a})
<1>. DEFINE s0 == Fresh(s, a)
<1>1. Result(s, s0, {a}) /\ Dead(s0, a)
  BY SameKindKeeps, FreshIsWhole
<1>2. s2 = CopyConstructed(s0, a, b)
  OBVIOUS
<1>. HIDE DEF s0
<1>3. IsEmpty(s0, a) = TRUE /\ MayTake(s0, a, b) /\ Whole(s0)
  BY <1>1 DEF Dead, IsEmpty, MayTake, Result
<1>4. s2 = AfterCopy(CopyValue(s0, a, b), IsEmpty(s0, a), a, b)
  BY <1>2, <1>3 DEF CopyConstructed, Copied, QjsCopy, V8CopyCtor, JscCopy, LuaCopyCtor, HasLists,
                    RefBackends
<1>5. Result(s0, s2, {a})
  BY <1>3, <1>4, CopyIs
<1>. QED
  BY <1>1, <1>5, ResultsFollow

LEMMA MoveConstructedIs ==
  ASSUME HasLists, NEW s, Whole(s), NEW a, NEW b, SameKind(a, b), a # b, Dead(s, a),
         NEW s2, s2 = MoveConstructed(Fresh(s, a), a, b)
  PROVE  Result(s, s2, {a, b})
<1>. DEFINE s0 == Fresh(s, a)
<1>1. Result(s, s0, {a}) /\ Dead(s0, a)
  BY SameKindKeeps, FreshIsWhole
<1>2. s2 = MoveConstructed(s0, a, b)
  OBVIOUS
<1>. HIDE DEF s0
<1>3. IsEmpty(s0, a) = TRUE /\ MayTake(s0, a, b) /\ Whole(s0)
  BY <1>1 DEF Dead, IsEmpty, MayTake, Result
<1>4. \/ s2 = AfterMove(MoveValue(s0, a, b), IsEmpty(s0, a), a, b)
      \/ backend = "JavaScriptCore" /\ s2 = JscWeakMove(s0, a, b)
  BY <1>2, <1>3 DEF MoveConstructed, Moved, QjsMove, V8MoveCtor, JscMove, JscGlobalMove, LuaMoveCtor,
                    HasLists, RefBackends
<1>5. Result(s0, s2, {a, b})
  BY <1>3, <1>4, MoveIs
<1>6. Result(s, s2, {a} \cup {a, b})
  BY <1>1, <1>5, ResultsFollow
<1>. QED
  BY <1>6, Widened

-----------------------------------------------------------------------------
(* Python keeps its keys.                                                  *)

KeyIs(s, s2, h, e) ==
  /\ s2.handle = s.handle
  /\ \A f \in Engines, k \in Handles :
       s2.nodes[f][k] = IF k = h THEN IF e = f THEN 1 ELSE 0 ELSE s.nodes[f][k]

LEMMA ColumnChanges ==
  ASSUME NEW m \in [Engines -> [Handles -> Int]], NEW h \in Handles, NEW c \in [Engines -> Int]
  PROVE  LET m2 == [f \in Engines |-> [m[f] EXCEPT ![h] = c[f]]]
         IN  /\ m2 \in [Engines -> [Handles -> Int]]
             /\ \A f \in Engines, k \in Handles : m2[f][k] = IF k = h THEN c[f] ELSE m[f][k]
<1>. DEFINE row(f) == [m[f] EXCEPT ![h] = c[f]]
<1>1. \A f \in Engines : /\ row(f) \in [Handles -> Int]
                         /\ \A k \in Handles : row(f)[k] = IF k = h THEN c[f] ELSE m[f][k]
  OBVIOUS
<1>. HIDE DEF row
<1>2. LET m2 == [f \in Engines |-> row(f)]
      IN  /\ m2 \in [Engines -> [Handles -> Int]]
          /\ \A f \in Engines, k \in Handles : m2[f][k] = IF k = h THEN c[f] ELSE m[f][k]
  BY <1>1
<1>. QED
  BY <1>2 DEF row

LEMMA PyUpdateIs ==
  ASSUME NEW s \in RefState, NEW h \in Handles
  PROVE  /\ PyUpdate(s, h) \in RefState /\ SameValues(s, PyUpdate(s, h))
         /\ KeyIs(s, PyUpdate(s, h), h, s.engine[h])
<1>. DEFINE c == [f \in Engines |-> IF s.engine[h] = f THEN 1 ELSE 0]
            nodes2 == [f \in Engines |-> [s.nodes[f] EXCEPT ![h] = c[f]]]
            s2 == [s EXCEPT !.nodes = nodes2]
<1>1. Fields(s)
  BY StateHasFields
<1>2. c \in [Engines -> Int] /\ \A f \in Engines : c[f] = IF s.engine[h] = f THEN 1 ELSE 0
  OBVIOUS
<1>3. PyUpdate(s, h) = s2
  BY DEF PyUpdate, RefState
<1>. HIDE DEF c
<1>4. /\ nodes2 \in [Engines -> [Handles -> Int]]
      /\ \A f \in Engines, k \in Handles : nodes2[f][k] = IF k = h THEN c[f] ELSE s.nodes[f][k]
  BY <1>1, <1>2, ColumnChanges DEF Fields
<1>. HIDE DEF nodes2
<1>5. /\ s2 \in RefState /\ s2.nodes = nodes2 /\ s2.handle = s.handle
      /\ s2.engine = s.engine /\ s2.object = s.object /\ s2.strong = s.strong
  BY <1>4 DEF RefState
<1>. QED
  BY <1>2, <1>3, <1>4, <1>5 DEF SameValues, KeyIs

LEMMA PyEraseIs ==
  ASSUME NEW s \in RefState, NEW h \in Handles
  PROVE  /\ PyErase(s, h) \in RefState /\ SameValues(s, PyErase(s, h))
         /\ KeyIs(s, PyErase(s, h), h, NoEngine)
<1>. DEFINE c == [f \in Engines |-> 0]
            nodes2 == [f \in Engines |-> [s.nodes[f] EXCEPT ![h] = c[f]]]
            s2 == [s EXCEPT !.nodes = nodes2]
<1>1. Fields(s)
  BY StateHasFields
<1>2. c \in [Engines -> Int] /\ \A f \in Engines : c[f] = 0
  OBVIOUS
<1>3. PyErase(s, h) = s2
  BY DEF PyErase, RefState
<1>. HIDE DEF c
<1>4. /\ nodes2 \in [Engines -> [Handles -> Int]]
      /\ \A f \in Engines, k \in Handles : nodes2[f][k] = IF k = h THEN c[f] ELSE s.nodes[f][k]
  BY <1>1, <1>2, ColumnChanges DEF Fields
<1>. HIDE DEF nodes2
<1>5. /\ s2 \in RefState /\ s2.nodes = nodes2 /\ s2.handle = s.handle
      /\ s2.engine = s.engine /\ s2.object = s.object /\ s2.strong = s.strong
  BY <1>4 DEF RefState
<1>. QED
  BY <1>2, <1>3, <1>4, <1>5, BackendAssumption DEF SameValues, KeyIs

IsPython == backend = "Python"

LEMMA PySoundParts ==
  ASSUME NEW s, Whole(s), IsPython, NEW h \in Handles
  PROVE  s \in RefState /\ SoundValue(s, h) /\ SoundKey(s, h)
  BY DEF Whole, Sound, IsPython

(* A key that names the engine of the reference is right.                  *)
LEMMA KeySound ==
  ASSUME NEW s, NEW s2, NEW h \in Handles, s.handle[h] = NoEngine, NEW e,
         KeyIs(s, s2, h, e), s2.engine[h] = e
  PROVE  SoundKey(s2, h)
  BY DEF KeyIs, SoundKey

(* So is a key that was right for the same engine, once the value is gone. *)
LEMMA KeyRemains ==
  ASSUME NEW s, NEW s2, NEW h \in Handles, SoundKey(s, h), SameLists(s, s2),
         s2.engine[h] = s.engine[h], s2.object[h] = NoObject
  PROVE  SoundKey(s2, h)
  BY DEF SoundKey, SameLists

LEMMA PyUpdated ==
  ASSUME IsPython, NEW s, Whole(s), NEW a \in Handles, NEW X, a \in X,
         NEW s1, OnlyValues(s, s1, X), SoundValue(s1, a),
         \A k \in Handles \cap X : k # a => SoundValue(s1, k) /\ SoundKey(s1, k),
         NEW s2, s2 = PyUpdate(s1, a)
  PROVE  Result(s, s2, X) /\ SameValues(s1, s2)
<1>1. s1 \in RefState /\ SameLists(s, s1)
  BY DEF OnlyValues
<1>2. s2 \in RefState /\ SameValues(s1, s2) /\ KeyIs(s1, s2, a, s1.engine[a])
  BY <1>1, PyUpdateIs
<1>3. s1.handle[a] = NoEngine
  BY <1>1, PySoundParts DEF SoundKey, SameLists
<1>4. SoundKey(s2, a)
  BY <1>2, <1>3, KeySound DEF SameValues
<1>5. ASSUME NEW k \in Handles \cap X PROVE Sound(s2, k)
  <2>1. SoundValue(s2, k)
    BY <1>2, ValuesStay
  <2>2. SoundKey(s2, k)
    <3>1. k # a => SoundKey(s1, k)
      OBVIOUS
    <3>. QED
      BY <1>2, <1>4, <3>1 DEF SoundKey, KeyIs, SameValues
  <2>. QED
    BY <2>1, <2>2 DEF Sound, IsPython
<1>6. ListsSameBut(s1, s2, X)
  BY <1>2 DEF ListsSameBut, KeyIs
<1>7. Whole(s2) /\ SameBut(s, s2, X)
  BY <1>2, <1>5, <1>6, Conclude
<1>. QED
  BY <1>2, <1>7 DEF Result

LEMMA PyResetIs ==
  ASSUME IsPython, NEW s, Whole(s), NEW h \in Handles, NEW s2, s2 = PyReset(s, h)
  PROVE  Result(s, s2, {h})
<1>. DEFINE s1 == Release(s, h)
            s3 == SetValue(s1, h, s.engine[h], NoObject)
<1>1. s \in RefState /\ SoundKey(s, h) /\ s.engine[h] \in Engines \cup {NoEngine}
  BY PySoundParts, ValuesAreTyped
<1>2. s1 \in RefState /\ s1.engine = s.engine
  BY <1>1, ReleaseIs
<1>3. OnlyValues(s, s3, {h}) /\ HasValue(s3, h, s.engine[h], NoObject)
  BY <1>1, DropIs
<1>4. s2 = s3
  <2>1. s2 = [s1 EXCEPT !.object[h] = NoObject]
    BY DEF PyReset
  <2>. HIDE DEF s1
  <2>2. [s1.engine EXCEPT ![h] = s.engine[h]] = s1.engine
    BY <1>2, StateHasFields DEF Fields
  <2>3. s3 = [s1 EXCEPT !.engine = [s1.engine EXCEPT ![h] = s.engine[h]],
                        !.object = [s1.object EXCEPT ![h] = NoObject]]
    BY <1>2 DEF RefState, SetValue
  <2>4. [s1 EXCEPT !.object[h] = NoObject] =
        [s1 EXCEPT !.engine = s1.engine, !.object = [s1.object EXCEPT ![h] = NoObject]]
    BY <1>2 DEF RefState
  <2>. QED
    BY <2>1, <2>2, <2>3, <2>4
<1>. HIDE DEF s1, s3
<1>5. SoundKey(s3, h)
  BY <1>1, <1>3, KeyRemains DEF OnlyValues, HasValue
<1>6. SoundValue(s3, h)
  BY <1>3 DEF HasValue, IsEmpty, ByEngine, IsPython, SoundValue
<1>7. SameValues(s3, s3) /\ ListsSameBut(s3, s3, {h}) /\ s3 \in RefState /\ Sound(s3, h)
  BY <1>3, <1>5, <1>6 DEF SameValues, ListsSameBut, OnlyValues, Sound, IsPython
<1>. QED
  BY <1>3, <1>4, <1>7, Conclude DEF Result

LEMMA PyDtorIs ==
  ASSUME IsPython, NEW s, Whole(s), NEW h \in Handles, NEW s2, s2 = PyDtor(s, h)
  PROVE  Result(s, s2, {h}) /\ Dead(s2, h)
<1>. DEFINE s1 == SetValue(Release(s, h), h, NoEngine, NoObject)
<1>1. s \in RefState /\ SoundKey(s, h) /\ NoEngine \in Engines \cup {NoEngine}
  BY PySoundParts
<1>2. OnlyValues(s, s1, {h}) /\ HasValue(s1, h, NoEngine, NoObject)
  BY <1>1, DropIs
<1>3. s2 = PyErase(s1, h)
  BY DEF PyDtor
<1>. HIDE DEF s1
<1>4. s1 \in RefState /\ s1.handle[h] = NoEngine
  BY <1>1, <1>2 DEF OnlyValues, SameLists, SoundKey
<1>5. s2 \in RefState /\ SameValues(s1, s2) /\ KeyIs(s1, s2, h, NoEngine)
  BY <1>3, <1>4, PyEraseIs
<1>6. SoundKey(s2, h)
  BY <1>2, <1>4, <1>5, KeySound DEF SameValues, HasValue
<1>7. SoundValue(s1, h) /\ IsEmpty(s1, h)
  BY <1>2 DEF HasValue, IsEmpty, ByEngine, IsPython, SoundValue
<1>8. Sound(s2, h) /\ IsEmpty(s2, h)
  BY <1>5, <1>6, <1>7, ValuesStay DEF Sound, IsPython
<1>9. ListsSameBut(s1, s2, {h})
  BY <1>5 DEF ListsSameBut, KeyIs
<1>10. Whole(s2) /\ SameBut(s, s2, {h})
  BY <1>2, <1>5, <1>8, <1>9, Conclude
<1>11. Dead(s2, h)
  BY <1>5, <1>8, BackendAssumption DEF Dead, KeyIs
<1>. QED
  BY <1>10, <1>11 DEF Result

LEMMA PyFromLocalIs ==
  ASSUME IsPython, NEW s, Whole(s), NEW h \in Handles, Dead(s, h), NEW e, NEW o, LocalOf(e, o),
         NEW s2, s2 = FromLocal(Fresh(s, h), h, e, o)
  PROVE  Result(s, s2, {h})
<1>. DEFINE s0 == Fresh(s, h)
            s1 == Retain(SetValue(s0, h, e, o), h)
<1>1. Result(s, s0, {h}) /\ HasValue(s0, h, NoEngine, NoObject)
  BY FreshIsWhole
<1>2. s2 = PyUpdate(s1, h)
  BY DEF FromLocal, PyFromLocal, IsPython
<1>. HIDE DEF s0
<1>3. OnlyValues(s0, s1, {h}) /\ HasValue(s1, h, e, o)
  BY <1>1, GainIs DEF LocalOf, Result, Whole, HasValue
<1>. HIDE DEF s1
<1>4. SoundValue(s1, h)
  BY <1>3, ReferencesAssumption DEF HasValue, IsEmpty, ByEngine, IsPython, SoundValue, LocalOf, LocalIn
<1>5. Result(s0, s2, {h})
  BY <1>1, <1>2, <1>3, <1>4, PyUpdated DEF Result
<1>. QED
  BY <1>1, <1>5, ResultsFollow

LEMMA PyCopyIs ==
  ASSUME IsPython, NEW s, Whole(s), NEW a, NEW b, SameKind(a, b),
         NEW s2, s2 = PyUpdate(CopyValue(s, a, b), a)
  PROVE  Result(s, s2, {a})
<1>. DEFINE s1 == CopyValue(s, a, b)
<1>1. a \in Handles /\ b \in Handles /\ s \in RefState
  BY SameKindKeeps DEF Whole
<1>2. OnlyValues(s, s1, {a}) /\ HasValueOf(s1, a, s, b)
  BY <1>1, CopyValueIs
<1>3. SoundValue(s1, a)
  BY <1>1, <1>2, ValueCarries, PySoundParts
<1>. HIDE DEF s1
<1>4. s2 = PyUpdate(s1, a)
  BY DEF s1
<1>. QED
  BY <1>1, <1>2, <1>3, <1>4, PyUpdated

(* A moved-from reference keeps its engine and its key.                    *)
LEMMA PyMoveIs ==
  ASSUME IsPython, NEW s, Whole(s), NEW a, NEW b, SameKind(a, b), a # b,
         NEW s2, s2 = PyUpdate(PyMoved(s, a, b), a)
  PROVE  Result(s, s2, {a, b})
<1>. DEFINE m == MoveValue(s, a, b)
            n == [m EXCEPT !.engine[b] = s.engine[b]]
<1>1. a \in Handles /\ b \in Handles /\ s \in RefState
  BY SameKindKeeps DEF Whole
<1>2. OnlyValues(s, m, {a, b}) /\ HasValueOf(m, a, s, b) /\ HasValue(m, b, NoEngine, NoObject)
  BY <1>1, MoveValueIs
<1>3. s2 = PyUpdate(n, a)
  BY DEF PyMoved
<1>. HIDE DEF m
<1>4. OnlyValues(m, n, {b}) /\ HasValue(n, b, s.engine[b], NoObject)
  <2>1. m \in RefState /\ s.engine[b] \in Engines \cup {NoEngine} /\ m.object[b] = NoObject
    BY <1>1, <1>2, ValuesAreTyped DEF OnlyValues, HasValue
  <2>. QED
    BY <1>1, <2>1, EngineIs
<1>. HIDE DEF n
<1>5. OnlyValues(s, n, {a, b})
  BY <1>2, <1>4 DEF OnlyValues, SameLists, OthersValued, SameSurplus
<1>6. HasValueOf(n, a, s, b)
  BY <1>1, <1>2, <1>4 DEF HasValueOf, OnlyValues, OthersValued
<1>7. SoundValue(n, a)
  BY <1>1, <1>6, ValueCarries, PySoundParts
<1>8. SoundValue(n, b)
  BY <1>4 DEF HasValue, IsEmpty, ByEngine, IsPython, SoundValue
<1>9. SoundKey(n, b)
  BY <1>1, <1>4, <1>5, PySoundParts, KeyRemains DEF OnlyValues, HasValue
<1>. QED
  BY <1>1, <1>3, <1>5, <1>7, <1>8, <1>9, PyUpdated

LEMMA PySwapIs ==
  ASSUME IsPython, NEW s, Whole(s), NEW a, NEW b, SameKind(a, b),
         NEW s2, s2 = Swapped(s, a, b)
  PROVE  Result(s, s2, {a, b})
<1>. DEFINE m == SwapValue(s, a, b)
            n == PyUpdate(m, a)
<1>1. a \in Handles /\ b \in Handles /\ s \in RefState /\ SameKind(b, a)
  BY SameKindKeeps DEF Whole
<1>2. s2 = PyUpdate(n, b)
  BY DEF Swapped, PySwap, IsPython
<1>3. /\ OnlyValues(s, m, {a, b}) /\ SoundValue(m, a) /\ SoundValue(m, b)
  <2>1. CASE a = b
    <3>1. m = s
      BY <1>1, <2>1, SwapWithItself
    <3>. QED
      BY <1>1, <3>1, PySoundParts DEF OnlyValues, SameLists, OthersValued, SameSurplus
  <2>2. CASE a # b
    BY <1>1, <2>2, SwapValueIs, ValueCarries, PySoundParts
  <2>. QED
    BY <2>1, <2>2
<1>. HIDE DEF m
<1>4. m \in RefState /\ SameLists(s, m)
  BY <1>3 DEF OnlyValues
<1>5. n \in RefState /\ SameValues(m, n) /\ KeyIs(m, n, a, m.engine[a])
  BY <1>1, <1>4, PyUpdateIs
<1>. HIDE DEF n
<1>6. s2 \in RefState /\ SameValues(n, s2) /\ KeyIs(n, s2, b, n.engine[b])
  BY <1>1, <1>2, <1>5, PyUpdateIs
<1>7. m.handle[a] = NoEngine /\ m.handle[b] = NoEngine
  BY <1>1, <1>4, PySoundParts DEF SoundKey, SameLists
<1>8. SameValues(m, s2)
  BY <1>5, <1>6 DEF SameValues
<1>9. SoundKey(n, a) /\ SoundKey(s2, b)
  BY <1>1, <1>5, <1>6, <1>7, KeySound DEF SameValues, KeyIs
<1>10. SoundKey(s2, a)
  <2>1. CASE a = b
    BY <1>9, <2>1
  <2>2. CASE a # b
    BY <1>1, <1>6, <1>9, <2>2 DEF SoundKey, KeyIs, SameValues
  <2>. QED
    BY <2>1, <2>2
<1>11. SoundValue(s2, a) /\ SoundValue(s2, b)
  BY <1>3, <1>8, ValuesStay
<1>12. \A k \in Handles \cap {a, b} : Sound(s2, k)
  BY <1>9, <1>10, <1>11 DEF Sound, IsPython
<1>13. ListsSameBut(m, s2, {a, b})
  BY <1>5, <1>6 DEF ListsSameBut, KeyIs
<1>. QED
  BY <1>3, <1>6, <1>8, <1>12, <1>13, Conclude DEF Result

LEMMA PyDefaultIs ==
  ASSUME IsPython, NEW s, Whole(s), NEW h \in Handles, Dead(s, h), NEW e \in Engines \cup {NoEngine},
         NEW s2, s2 = DefaultConstructed(Fresh(s, h), h, e)
  PROVE  Result(s, s2, {h})
<1>. DEFINE s0 == Fresh(s, h)
            s1 == SetValue(s0, h, e, NoObject)
<1>1. Result(s, s0, {h}) /\ HasValue(s0, h, NoEngine, NoObject)
  BY FreshIsWhole
<1>2. s2 = PyUpdate(s1, h)
  BY DEF DefaultConstructed, IsPython
<1>. HIDE DEF s0
<1>3. Release(s0, h) = s0
  BY <1>1 DEF HasValue, Release, Count
<1>4. s0 \in RefState
  BY <1>1 DEF Result, Whole
<1>5. OnlyValues(s0, s1, {h}) /\ HasValue(s1, h, e, NoObject)
  BY <1>3, <1>4, DropIs
<1>. HIDE DEF s1
<1>6. SoundValue(s1, h)
  BY <1>5 DEF HasValue, IsEmpty, ByEngine, IsPython, SoundValue
<1>7. Result(s0, s2, {h})
  BY <1>1, <1>2, <1>5, <1>6, PyUpdated DEF Result
<1>. QED
  BY <1>1, <1>7, ResultsFollow

LEMMA PyLocalAssignedIs ==
  ASSUME IsPython, NEW s, NEW a, NEW e, InScope(s, a, a, e), NEW o, LocalOf(e, o),
         NEW s2, s2 = LocalAssigned(s, a, e, o)
  PROVE  Assigned(s, s2, a, a)
<1>. DEFINE t == TempOf(a)
            s1 == FromLocal(Fresh(s, t), t, e, o)
            m  == PyUpdate(PyMoved(s1, a, t), a)
<1>1. /\ a \in Handles /\ t \in Handles /\ t # a /\ Dead(s, t) /\ SameKind(a, t) /\ Whole(s)
  BY ScopeGives, SameKindKeeps
<1>2. s2 = PyDtor(m, t)
  BY DEF LocalAssigned, PyAssignLocal, PyMove, FromLocal, IsPython
<1>3. Result(s, s1, {t})
  BY <1>1, PyFromLocalIs
<1>. HIDE DEF s1, t
<1>4. Result(s1, m, {a, t})
  BY <1>1, <1>3, PyMoveIs DEF Result
<1>. HIDE DEF m
<1>5. Result(m, s2, {t}) /\ Dead(s2, t)
  BY <1>1, <1>2, <1>4, PyDtorIs DEF Result
<1>6. Result(s, m, {t} \cup {a, t}) /\ Result(s, s2, {t} \cup {a, t} \cup {t})
  BY <1>3, <1>4, <1>5, ResultsFollow
<1>7. Result(s, s2, {a, t})
  BY <1>6, Widened
<1>. QED
  BY <1>5, <1>7, Widened DEF Assigned, t

-----------------------------------------------------------------------------
(* Every operation of the program keeps the invariant.                     *)

LEMMA NextState ==
  ASSUME UNCHANGED <<running, present, backend>>
  PROVE  /\ Whole(refs') => Whole(refs)'
         /\ \A h \in Handles : Dead(refs', h) => Dead(refs, h)'
<1>1. \A h \in Handles : IsEmpty(refs', h) = IsEmpty(refs, h)' /\ Keeps(h) = Keeps(h)'
  BY DEF IsEmpty, ByEngine, Keeps
<1>2. \A h \in Handles : Dead(refs', h) => Dead(refs, h)'
  BY <1>1 DEF Dead
<1>3. Balanced(refs') => Balanced(refs)'
  BY DEF Balanced, Surplus, Holders, Keeps
<1>4. \A h \in Handles : SoundValue(refs', h) => SoundValue(refs, h)'
  BY <1>1 DEF SoundValue
<1>5. \A h \in Handles : SoundList(refs', h) => SoundList(refs, h)'
  BY <1>1 DEF SoundList, ListedAt
<1>6. \A h \in Handles : SoundKey(refs', h) => SoundKey(refs, h)'
  BY DEF SoundKey
<1>7. \A h \in Handles : Sound(refs', h) => Sound(refs, h)'
  BY <1>4, <1>5, <1>6 DEF Sound
<1>. QED
  BY <1>2, <1>3, <1>7 DEF Whole

LEMMA InvFollows ==
  ASSUME RefsInv, UNCHANGED <<running, present, backend>>,
         NEW X, Result(refs, refs', X),
         made' \subseteq Handles, made' \cap Temps = {}, made \subseteq made' \cup X,
         \A h \in (Handles \cap X) \ made' : Dead(refs', h)
  PROVE  RefsInv'
<1>1. ASSUME NEW h \in Handles \ made' PROVE Dead(refs', h)
  <2>1. CASE h \in X
    BY <2>1
  <2>2. CASE h \notin X
    <3>1. Dead(refs, h)
      BY <2>2 DEF RefsInv
    <3>. QED
      BY <2>2, <3>1, OthersStay
  <2>. QED
    BY <2>1, <2>2
<1>2. Whole(refs)' /\ \A h \in (Handles \ made)' : Dead(refs, h)'
  BY <1>1, NextState DEF Result
<1>. QED
  BY <1>2 DEF RefsInv

Backends == HasLists \/ IsPython

LEMMA BackendsAre == backend \in RefBackends <=> Backends
  BY DEF Backends, HasLists, IsPython, RefBackends

(* The temporaries are not alive between operations.                       *)
LEMMA ScopeIs ==
  ASSUME RefsInv, NEW e \in Engines, NEW a, NEW b, SameKind(a, b), Usable(e, a), Usable(e, b)
  PROVE  InScope(refs, a, b, e)
  BY ReferencesAssumption DEF RefsInv, InScope, Usable, OfEngine, Temps, Handles

LEMMA AssignedKeeps ==
  ASSUME RefsInv, NEW e \in Engines, NEW a, NEW b, SameKind(a, b), Usable(e, a), Usable(e, b),
         Assigned(refs, refs', a, b), UNCHANGED <<made, running, present, backend>>
  PROVE  RefsInv'
<1>. DEFINE X == {a, b, TempOf(a)}
<1>1. Result(refs, refs', X) /\ Dead(refs', TempOf(a)) /\ a \in made /\ b \in made
  BY DEF Assigned, Usable
<1>2. /\ made' \subseteq Handles /\ made' \cap Temps = {} /\ made \subseteq made' \cup X
  BY DEF RefsInv
<1>3. \A h \in (Handles \cap X) \ made' : Dead(refs', h)
  BY <1>1
<1>. HIDE DEF X
<1>. QED
  BY <1>1, <1>2, <1>3, InvFollows

LEMMA BornKeeps ==
  ASSUME RefsInv, NEW a \in Handles, Born(a), NEW X, X \subseteq made \cup {a},
         Result(refs, refs', X), made' = made \cup {a}, UNCHANGED <<running, present, backend>>
  PROVE  RefsInv'
<1>1. /\ made' \subseteq Handles /\ made' \cap Temps = {} /\ made \subseteq made' \cup X
      /\ \A h \in (Handles \cap X) \ made' : Dead(refs', h)
  BY DEF RefsInv, Born
<1>. QED
  BY <1>1, InvFollows

LEMMA BornIsDead ==
  ASSUME RefsInv, NEW a \in Handles, Born(a)
  PROVE  Whole(refs) /\ Dead(refs, a)
  BY DEF RefsInv, Born

LEMMA ConstructEmptyKeeps ==
  ASSUME RefsInv, Backends, UNCHANGED backend,
         NEW e \in running \cup {NoEngine}, NEW h \in Handles, ConstructEmpty(e, h)
  PROVE  RefsInv'
<1>1. Born(h) /\ Whole(refs) /\ Dead(refs, h) /\ e \in Engines \cup {NoEngine}
  BY BornIsDead DEF ConstructEmpty, Whole
<1>2. refs' = DefaultConstructed(Fresh(refs, h), h, e)
  BY DEF ConstructEmpty
<1>3. Result(refs, refs', {h})
  <2>1. CASE IsPython
    BY <1>1, <1>2, <2>1, PyDefaultIs
  <2>2. CASE HasLists
    <3>1. refs' = Fresh(refs, h)
      BY <1>2, <2>2 DEF DefaultConstructed, HasLists
    <3>. QED
      BY <1>1, <3>1, FreshIsWhole
  <2>. QED
    BY <2>1, <2>2 DEF Backends
<1>4. made' = made \cup {h} /\ UNCHANGED <<running, present, backend>>
  BY DEF ConstructEmpty
<1>. QED
  BY <1>1, <1>3, <1>4, BornKeeps

LEMMA FromLocalKeeps ==
  ASSUME RefsInv, Backends, UNCHANGED <<running, present, backend>>,
         NEW e \in Engines, NEW h \in Handles, NEW o \in Objects, Born(h), LocalIn(e, o),
         refs' = FromLocal(Fresh(refs, h), h, e, o), made' = made \cup {h}
  PROVE  RefsInv'
<1>1. Whole(refs) /\ Dead(refs, h) /\ LocalOf(e, o)
  BY BornIsDead DEF LocalOf
<1>2. Result(refs, refs', {h})
  BY <1>1, FromLocalIs, PyFromLocalIs DEF Backends
<1>. QED
  BY <1>2, BornKeeps

LEMMA ConvertKeeps ==
  ASSUME RefsInv, Backends, UNCHANGED backend,
         NEW e \in Engines, NEW a \in Handles, NEW b \in Handles, Convert(e, a, b)
  PROVE  RefsInv'
<1>. DEFINE o == refs.object[b]
<1>1. /\ Born(a) /\ Usable(e, b) /\ o \in present
      /\ refs' = FromLocal(Fresh(refs, a), a, e, o) /\ made' = made \cup {a}
      /\ UNCHANGED <<running, present, backend>>
  BY DEF Convert, Readable
<1>2. o \in Objects /\ o # NoObject /\ SoundValue(refs, b)
  BY <1>1, ReferencesAssumption DEF RefsInv, Whole, Sound
<1>3. LocalIn(e, o)
  BY <1>1, <1>2 DEF SoundValue, LocalIn, Usable
<1>. HIDE DEF o
<1>. QED
  BY <1>1, <1>2, <1>3, FromLocalKeeps

LEMMA CopyConstructKeeps ==
  ASSUME RefsInv, Backends, UNCHANGED backend,
         NEW e \in Engines, NEW a \in Handles, NEW b \in Handles, CopyConstruct(e, a, b)
  PROVE  RefsInv'
<1>1. /\ Born(a) /\ Whole(refs) /\ Dead(refs, a) /\ SameKind(a, b) /\ b \in made /\ a # b
      /\ refs' = CopyConstructed(Fresh(refs, a), a, b) /\ made' = made \cup {a}
      /\ UNCHANGED <<running, present, backend>>
  BY BornIsDead DEF CopyConstruct, Readable, Usable, Born
<1>2. Result(refs, refs', {a})
  <2>1. CASE HasLists
    BY <1>1, <2>1, CopyConstructedIs
  <2>2. CASE IsPython
    <3>1. refs' = PyUpdate(CopyValue(Fresh(refs, a), a, b), a)
      BY <1>1, <2>2 DEF CopyConstructed, PyCopyCtor, IsPython
    <3>2. Result(refs, Fresh(refs, a), {a})
      BY <1>1, FreshIsWhole
    <3>3. Result(Fresh(refs, a), refs', {a})
      BY <1>1, <2>2, <3>1, <3>2, PyCopyIs DEF Result
    <3>. QED
      BY <3>2, <3>3, ResultsFollow
  <2>. QED
    BY <2>1, <2>2 DEF Backends
<1>. QED
  BY <1>1, <1>2, BornKeeps

LEMMA MoveConstructKeeps ==
  ASSUME RefsInv, Backends, UNCHANGED backend,
         NEW e \in Engines, NEW a \in Handles, NEW b \in Handles, MoveConstruct(e, a, b)
  PROVE  RefsInv'
<1>1. /\ Born(a) /\ Whole(refs) /\ Dead(refs, a) /\ SameKind(a, b) /\ b \in made /\ a # b
      /\ refs' = MoveConstructed(Fresh(refs, a), a, b) /\ made' = made \cup {a}
      /\ UNCHANGED <<running, present, backend>>
  BY BornIsDead DEF MoveConstruct, Readable, Usable, Born
<1>2. Result(refs, refs', {a, b})
  <2>1. CASE HasLists
    BY <1>1, <2>1, MoveConstructedIs
  <2>2. CASE IsPython
    <3>1. refs' = PyUpdate(PyMoved(Fresh(refs, a), a, b), a)
      BY <1>1, <2>2 DEF MoveConstructed, PyMoveCtor, IsPython
    <3>2. Result(refs, Fresh(refs, a), {a})
      BY <1>1, FreshIsWhole
    <3>3. Result(Fresh(refs, a), refs', {a, b})
      BY <1>1, <2>2, <3>1, <3>2, PyMoveIs DEF Result
    <3>4. Result(refs, refs', {a} \cup {a, b})
      BY <3>2, <3>3, ResultsFollow
    <3>. QED
      BY <3>4, Widened
  <2>. QED
    BY <2>1, <2>2 DEF Backends
<1>. QED
  BY <1>1, <1>2, BornKeeps

LEMMA CopyAssignKeeps ==
  ASSUME RefsInv, Backends, UNCHANGED backend,
         NEW e \in Engines, NEW a \in Handles, NEW b \in Handles, CopyAssign(e, a, b)
  PROVE  RefsInv'
<1>1. /\ Usable(e, a) /\ Usable(e, b) /\ SameKind(a, b) /\ MayAssign(a, b)
      /\ refs' = Copied(refs, a, b) /\ UNCHANGED <<made, running, present, backend>>
  BY DEF CopyAssign, Readable
<1>2. InScope(refs, a, b, e) /\ Whole(refs)
  BY <1>1, ScopeIs DEF RefsInv
<1>3. CASE HasLists
  <2>1. MayPut(refs, a, b)
    BY <1>1, <1>3 DEF MayAssign, MayPut, HasLists
  <2>. QED
    BY <1>1, <1>2, <1>3, <2>1, CopiedIs, AssignedKeeps
<1>4. CASE IsPython
  <2>1. refs' = PyUpdate(CopyValue(refs, a, b), a)
    BY <1>1, <1>4 DEF Copied, PyCopy, IsPython
  <2>2. Result(refs, refs', {a})
    BY <1>1, <1>2, <1>4, <2>1, PyCopyIs
  <2>3. Assigned(refs, refs', a, b)
    BY <1>2, <2>2, Widened, AssignedWithoutTemp
  <2>. QED
    BY <1>1, <2>3, AssignedKeeps
<1>. QED
  BY <1>3, <1>4 DEF Backends

LEMMA MoveAssignKeeps ==
  ASSUME RefsInv, Backends, UNCHANGED backend,
         NEW e \in Engines, NEW a \in Handles, NEW b \in Handles, MoveAssign(e, a, b)
  PROVE  RefsInv'
<1>1. /\ Usable(e, a) /\ Usable(e, b) /\ SameKind(a, b) /\ MayAssign(a, b) /\ a # b
      /\ refs' = Moved(refs, a, b) /\ UNCHANGED <<made, running, present, backend>>
  BY DEF MoveAssign, Readable
<1>2. InScope(refs, a, b, e) /\ Whole(refs)
  BY <1>1, ScopeIs DEF RefsInv
<1>3. CASE HasLists
  <2>1. MayPut(refs, a, b)
    BY <1>1, <1>3 DEF MayAssign, MayPut, HasLists
  <2>. QED
    BY <1>1, <1>2, <1>3, <2>1, MovedIs, AssignedKeeps
<1>4. CASE IsPython
  <2>1. refs' = PyUpdate(PyMoved(refs, a, b), a)
    BY <1>1, <1>4 DEF Moved, PyMove, IsPython
  <2>2. Result(refs, refs', {a, b})
    BY <1>1, <1>2, <1>4, <2>1, PyMoveIs
  <2>3. Assigned(refs, refs', a, b)
    BY <1>2, <2>2, AssignedWithoutTemp
  <2>. QED
    BY <1>1, <2>3, AssignedKeeps
<1>. QED
  BY <1>3, <1>4 DEF Backends

LEMMA SwapKeeps ==
  ASSUME RefsInv, Backends, UNCHANGED backend,
         NEW e \in Engines, NEW a \in Handles, NEW b \in Handles, Swap(e, a, b)
  PROVE  RefsInv'
<1>1. /\ Usable(e, a) /\ Usable(e, b) /\ SameKind(a, b) /\ MaySwap(e, a, b)
      /\ refs' = Swapped(refs, a, b) /\ UNCHANGED <<made, running, present, backend>>
  BY DEF Swap, Readable
<1>2. InScope(refs, a, b, e) /\ Whole(refs)
  BY <1>1, ScopeIs DEF RefsInv
<1>3. CASE HasLists
  <2>1. OfOneEngine(refs, a, b)
    BY <1>1 DEF MaySwap, OfOneEngine
  <2>. QED
    BY <1>1, <1>2, <1>3, <2>1, SwappedIs, AssignedKeeps
<1>4. CASE IsPython
  <2>1. Result(refs, refs', {a, b})
    BY <1>1, <1>2, <1>4, PySwapIs
  <2>2. Assigned(refs, refs', a, b)
    BY <1>2, <2>1, AssignedWithoutTemp
  <2>. QED
    BY <1>1, <2>2, AssignedKeeps
<1>. QED
  BY <1>3, <1>4 DEF Backends

LEMMA AssignLocalKeeps ==
  ASSUME RefsInv, Backends, UNCHANGED backend,
         NEW e \in Engines, NEW h \in Handles, NEW o \in Objects, AssignLocal(e, h, o)
  PROVE  RefsInv'
<1>1. /\ Usable(e, h) /\ LocalOf(e, o) /\ SameKind(h, h)
      /\ refs' = LocalAssigned(refs, h, e, o) /\ UNCHANGED <<made, running, present, backend>>
  BY DEF AssignLocal, LocalOf, SameKind, Handles
<1>2. InScope(refs, h, h, e)
  BY <1>1, ScopeIs
<1>3. Assigned(refs, refs', h, h)
  BY <1>1, <1>2, LocalAssignedIs, PyLocalAssignedIs DEF Backends
<1>. QED
  BY <1>1, <1>3, AssignedKeeps

LEMMA ResetKeeps ==
  ASSUME RefsInv, Backends, UNCHANGED backend,
         NEW e \in Engines, NEW h \in Handles, Reset(e, h)
  PROVE  RefsInv'
<1>1. /\ h \in made /\ Whole(refs)
      /\ refs' = ResetOne(refs, h) /\ UNCHANGED <<made, running, present, backend>>
  BY DEF Reset, Usable, RefsInv
<1>2. Result(refs, refs', {h})
  <2>1. CASE HasLists
    BY <1>1, <2>1, ResetIs
  <2>2. CASE IsPython
    <3>1. refs' = PyReset(refs, h)
      BY <1>1, <2>2 DEF ResetOne, IsPython
    <3>. QED
      BY <1>1, <2>2, <3>1, PyResetIs
  <2>. QED
    BY <2>1, <2>2 DEF Backends
<1>3. /\ made' \subseteq Handles /\ made' \cap Temps = {} /\ made \subseteq made' \cup {h}
      /\ \A k \in (Handles \cap {h}) \ made' : Dead(refs', k)
  BY <1>1 DEF RefsInv
<1>. QED
  BY <1>1, <1>2, <1>3, InvFollows

LEMMA DestructKeeps ==
  ASSUME RefsInv, Backends, UNCHANGED backend, NEW h \in Handles, Destruct(h)
  PROVE  RefsInv'
<1>1. /\ h \in made /\ Whole(refs) /\ made' = made \ {h}
      /\ refs' = Destructed(refs, h) /\ UNCHANGED <<running, present, backend>>
  BY DEF Destruct, RefsInv
<1>2. Result(refs, refs', {h}) /\ Dead(refs', h)
  <2>1. CASE HasLists
    <3>1. refs' = ResetOne(refs, h)
      BY <1>1, <2>1 DEF Destructed, HasLists
    <3>. QED
      BY <1>1, <2>1, <3>1, ResetIs
  <2>2. CASE IsPython
    <3>1. refs' = PyDtor(refs, h)
      BY <1>1, <2>2 DEF Destructed, IsPython
    <3>. QED
      BY <1>1, <2>2, <3>1, PyDtorIs
  <2>. QED
    BY <2>1, <2>2 DEF Backends
<1>3. /\ made' \subseteq Handles /\ made' \cap Temps = {} /\ made \subseteq made' \cup {h}
      /\ \A k \in (Handles \cap {h}) \ made' : Dead(refs', k)
  BY <1>1, <1>2 DEF RefsInv
<1>. QED
  BY <1>1, <1>2, <1>3, InvFollows

-----------------------------------------------------------------------------
(* destroy() and the collector.                                            *)

LEMMA ListedIs ==
  ASSUME Backends, NEW s, Whole(s), NEW e \in Engines, NEW h \in Handles
  PROVE  /\ h \in Listed(s, e) => s.engine[h] = e /\ \A f \in Engines \ {e} : s.nodes[f][h] = 0
         /\ h \notin Listed(s, e) =>
              s.nodes[e][h] = 0 /\ s.handle[h] # e /\ (~IsEmpty(s, h) => s.engine[h] # e)
<1>1. CASE HasLists
  BY <1>1, SoundParts, BackendAssumption DEF ListedAt, Listed, HasLists
<1>2. CASE IsPython
  <2>1. SoundValue(s, h) /\ SoundKey(s, h)
    BY <1>2, PySoundParts
  <2>2. IsEmpty(s, h) <=> s.object[h] = NoObject
    BY <1>2 DEF IsEmpty, ByEngine, IsPython
  <2>3. h \in Listed(s, e) <=> s.nodes[e][h] > 0
    BY <1>2 DEF Listed, IsPython
  <2>4. s.nodes[e][h] > 0 <=> s.nodes[e][h] = 1
    BY <2>1 DEF SoundKey
  <2>. QED
    BY <2>1, <2>2, <2>3, <2>4, BackendAssumption DEF SoundKey
<1>. QED
  BY <1>1, <1>2 DEF Backends

ClearDoes(s, r, e) ==
  /\ \A h \in Listed(s, e) :
       /\ r.engine[h] = IF KeepsEngine(h) THEN s.engine[h] ELSE NoEngine
       /\ r.object[h] = NoObject /\ r.handle[h] = NoEngine
  /\ \A h \in Handles \ Listed(s, e) :
       r.engine[h] = s.engine[h] /\ r.object[h] = s.object[h] /\ r.handle[h] = s.handle[h]
  /\ \A f \in Engines, h \in Handles : r.nodes[f][h] = IF f = e THEN 0 ELSE s.nodes[f][h]

LEMMA ClearIs ==
  ASSUME NEW s \in RefState, NEW e \in Engines
  PROVE  Clear(s, e) \in RefState /\ ClearDoes(s, Clear(s, e), e)
<1>. DEFINE gone == Listed(s, e)
            nodes2 == [s.nodes EXCEPT ![e] = [h \in Handles |-> 0]]
            engine2 == [h \in Handles |-> IF h \in gone /\ ~KeepsEngine(h) THEN NoEngine ELSE s.engine[h]]
            object2 == [h \in Handles |-> IF h \in gone THEN NoObject ELSE s.object[h]]
            handle2 == [h \in Handles |-> IF h \in gone THEN NoEngine ELSE s.handle[h]]
            lost(o) == Cardinality({h \in gone : Keeps(h) /\ s.object[h] = o})
            strong2 == [o \in Objects |-> s.strong[o] - lost(o)]
<1>1. Fields(s) /\ gone \subseteq Handles
  BY StateHasFields DEF Listed
<1>. HIDE DEF gone
<1>2. \A o \in Objects : lost(o) \in Nat
  <2>. SUFFICES ASSUME NEW o \in Objects PROVE lost(o) \in Nat
    OBVIOUS
  <2>1. {h \in gone : Keeps(h) /\ s.object[h] = o} \subseteq Handles
    BY <1>1
  <2>. QED
    BY <2>1, HandlesAreFinite, FS_Subset, FS_CardinalityType
<1>. HIDE DEF lost
<1>3. strong2 \in [Objects -> Int]
  BY <1>1, <1>2 DEF Fields
<1>4. /\ nodes2 \in [Engines -> [Handles -> Int]]
      /\ \A f \in Engines, h \in Handles : nodes2[f][h] = IF f = e THEN 0 ELSE s.nodes[f][h]
  BY <1>1 DEF Fields
<1>5. /\ engine2 \in [Handles -> Engines \cup {NoEngine}]
      /\ object2 \in [Handles -> Objects \cup {NoObject}]
      /\ handle2 \in [Handles -> Engines \cup {NoEngine}]
  BY <1>1 DEF Fields
<1>6. Clear(s, e) = [engine |-> engine2, object |-> object2, handle |-> handle2,
                     nodes |-> nodes2, strong |-> strong2]
  BY DEF Clear, gone, lost
<1>7. /\ \A h \in gone : /\ engine2[h] = IF KeepsEngine(h) THEN s.engine[h] ELSE NoEngine
                         /\ object2[h] = NoObject /\ handle2[h] = NoEngine
      /\ \A h \in Handles \ gone :
           engine2[h] = s.engine[h] /\ object2[h] = s.object[h] /\ handle2[h] = s.handle[h]
  <2>1. \A h \in Handles :
          /\ engine2[h] = IF h \in gone /\ ~KeepsEngine(h) THEN NoEngine ELSE s.engine[h]
          /\ object2[h] = IF h \in gone THEN NoObject ELSE s.object[h]
          /\ handle2[h] = IF h \in gone THEN NoEngine ELSE s.handle[h]
    OBVIOUS
  <2>. HIDE DEF engine2, object2, handle2
  <2>. QED
    BY <1>1, <2>1 DEF KeepsEngine
<1>. HIDE DEF nodes2, engine2, object2, handle2, strong2
<1>8. Clear(s, e) \in RefState
  BY <1>3, <1>4, <1>5, <1>6 DEF RefState
<1>9. /\ Clear(s, e).engine = engine2 /\ Clear(s, e).object = object2
      /\ Clear(s, e).handle = handle2 /\ Clear(s, e).nodes = nodes2
  BY <1>6
<1>10. gone = Listed(s, e)
  BY DEF gone
<1>. QED
  BY <1>4, <1>7, <1>8, <1>9, <1>10 DEF ClearDoes, KeepsEngine

LEMMA ClearBalances ==
  ASSUME NEW s \in RefState, NEW e \in Engines, NEW o \in Objects
  PROVE  Surplus(Clear(s, e), o) = Surplus(s, o)
<1>. DEFINE r == Clear(s, e)
            A == Holders(s.object, o)
            B == Holders(r.object, o)
            G == {h \in Listed(s, e) : Keeps(h) /\ s.object[h] = o}
<1>1. IsFiniteSet(A) /\ Cardinality(A) \in Nat /\ Cardinality(B) \in Nat
  BY HoldersAreFinite
<1>2. Listed(s, e) \subseteq Handles /\ NoObject \notin Objects
  BY ReferencesAssumption DEF Listed
<1>3. ClearDoes(s, r, e)
  BY ClearIs
<1>4. r.strong[o] = s.strong[o] - Cardinality(G)
  BY DEF Clear
<1>. HIDE DEF r
<1>5. B = A \ G /\ A \cap G = G
  BY <1>2, <1>3 DEF Holders, ClearDoes
<1>6. IsFiniteSet(G) /\ Cardinality(G) \in Nat
  <2>1. G \subseteq Handles
    BY <1>2
  <2>. QED
    BY <2>1, HandlesAreFinite, FS_Subset, FS_CardinalityType
<1>. HIDE DEF A, B, G
<1>7. Cardinality(B) = Cardinality(A) - Cardinality(G)
  <2>1. Cardinality(A \ G) = Cardinality(A) - Cardinality(A \cap G)
    BY <1>1, FS_Difference
  <2>. QED
    BY <1>5, <2>1
<1>8. s.strong[o] \in Int
  BY StateHasFields DEF Fields
<1>. QED
  BY <1>1, <1>4, <1>6, <1>7, <1>8 DEF Surplus, A, B, r

LEMMA DestroyEngineKeeps ==
  ASSUME RefsInv, Backends, UNCHANGED backend, NEW e \in Engines, DestroyEngine(e)
  PROVE  RefsInv'
<1>. DEFINE s == refs
            gone == Listed(refs, e)
<1>1. /\ Whole(refs) /\ refs \in RefState /\ refs' = Clear(refs, e) /\ made' = made
      /\ running' = running \ {e} /\ present' = {o \in present : HomeOf[o] # e}
  BY DEF DestroyEngine, RefsInv, Whole
<1>2. refs' \in RefState /\ ClearDoes(refs, refs', e)
  BY <1>1, ClearIs
<1>3. Balanced(refs)'
  <2>1. \A o \in Objects : Surplus(refs', o) = 0
    BY <1>1, ClearBalances DEF Whole, Balanced
  <2>. QED
    BY <2>1 DEF Balanced, Surplus, Holders, Keeps
<1>4. ASSUME NEW h \in Handles
      PROVE  Sound(refs, h)' /\ (Dead(refs, h) => Dead(refs, h)')
  <2>1. /\ h \in gone => refs.engine[h] = e /\ \A f \in Engines \ {e} : refs.nodes[f][h] = 0
        /\ h \notin gone =>
             refs.nodes[e][h] = 0 /\ refs.handle[h] # e /\ (~IsEmpty(refs, h) => refs.engine[h] # e)
    BY <1>1, ListedIs
  <2>2. Sound(refs, h) /\ SoundValue(refs, h) /\ running \subseteq Engines
    BY <1>1 DEF Whole, Sound
  <2>3. /\ h \in gone => /\ refs'.engine[h] = IF KeepsEngine(h) THEN refs.engine[h] ELSE NoEngine
                         /\ refs'.object[h] = NoObject /\ refs'.handle[h] = NoEngine
        /\ h \notin gone => /\ refs'.engine[h] = refs.engine[h] /\ refs'.object[h] = refs.object[h]
                            /\ refs'.handle[h] = refs.handle[h]
        /\ \A f \in Engines : refs'.nodes[f][h] = IF f = e THEN 0 ELSE refs.nodes[f][h]
    BY <1>2 DEF ClearDoes
  <2>. HIDE DEF gone
  <2>4. CASE h \in gone
    <3>1. IsEmpty(refs, h)'
      BY <2>3, <2>4, ReferencesAssumption DEF IsEmpty, ByEngine, KeepsEngine
    <3>2. \A f \in Engines : refs'.nodes[f][h] = 0
      BY <2>1, <2>3, <2>4
    <3>3. SoundValue(refs, h)'
      BY <2>3, <2>4, <3>1 DEF SoundValue, KeepsEngine
    <3>4. SoundList(refs, h)'
      BY <2>3, <2>4, <3>1, <3>2, BackendAssumption DEF SoundList, ListedAt
    <3>5. SoundKey(refs, h)'
      BY <2>3, <2>4, <3>2 DEF SoundKey
    <3>. QED
      BY <3>1, <3>2, <3>3, <3>4, <3>5 DEF Sound, Dead
  <2>5. CASE h \notin gone
    <3>1. IsEmpty(refs, h)' = IsEmpty(refs, h) /\ Keeps(h)' = Keeps(h)
      BY <2>3, <2>5 DEF IsEmpty, ByEngine, Keeps
    <3>2. SoundValue(refs, h)'
      BY <1>1, <2>1, <2>2, <2>3, <2>5, <3>1 DEF SoundValue
    <3>3. SoundList(refs, h) => SoundList(refs, h)'
      BY <2>1, <2>3, <2>5, <3>1 DEF SoundList, ListedAt
    <3>4. SoundKey(refs, h) => SoundKey(refs, h)'
      BY <2>1, <2>3, <2>5 DEF SoundKey
    <3>5. Dead(refs, h) => Dead(refs, h)'
      BY <2>3, <3>1 DEF Dead
    <3>. QED
      BY <2>2, <3>2, <3>3, <3>4, <3>5 DEF Sound
  <2>. QED
    BY <2>4, <2>5
<1>5. Whole(refs)'
  BY <1>1, <1>2, <1>3, <1>4 DEF Whole
<1>. QED
  BY <1>1, <1>4, <1>5 DEF RefsInv

(* What is collected is held by no reference that keeps it.                *)
LEMMA CollectKeeps ==
  ASSUME RefsInv, Backends, UNCHANGED backend, NEW o \in Objects, Collect(o)
  PROVE  RefsInv'
<1>. DEFINE empties(h) == backend \in {"V8", "Python"} /\ h \in Weaks /\ refs.object[h] = o
<1>1. /\ Whole(refs) /\ refs \in RefState /\ Fields(refs) /\ o # NoObject
      /\ refs.strong[o] = 0 /\ present' = present \ {o}
      /\ UNCHANGED <<made, running, backend>>
  BY StateHasFields, ReferencesAssumption DEF Collect, RefsInv, Whole
<1>2. \A h \in Handles : Keeps(h) => refs.object[h] # o
  <2>1. Surplus(refs, o) = 0
    BY <1>1 DEF Whole, Balanced
  <2>2. IsFiniteSet(Holders(refs.object, o)) /\ Cardinality(Holders(refs.object, o)) \in Nat
    BY HoldersAreFinite
  <2>3. Cardinality(Holders(refs.object, o)) = 0
    BY <1>1, <2>1, <2>2 DEF Surplus
  <2>4. Holders(refs.object, o) = {}
    BY <2>2, <2>3, FS_EmptySet
  <2>. QED
    BY <2>4 DEF Holders
<1>3. /\ refs' \in RefState
      /\ refs'.engine = refs.engine /\ SameLists(refs, refs') /\ refs'.strong = refs.strong
      /\ \A h \in Handles : refs'.object[h] = IF empties(h) THEN NoObject ELSE refs.object[h]
  <2>1. CASE backend \in {"V8", "Python"}
    <3>. DEFINE object2 == [h \in Handles |-> IF h \in Weaks /\ refs.object[h] = o THEN NoObject
                                              ELSE refs.object[h]]
    <3>1. refs' = [refs EXCEPT !.object = object2]
      BY <2>1 DEF Collect, RefState
    <3>2. object2 \in [Handles -> Objects \cup {NoObject}]
      BY <1>1 DEF Fields
    <3>3. \A h \in Handles : object2[h] = IF empties(h) THEN NoObject ELSE refs.object[h]
      BY <2>1
    <3>. HIDE DEF object2
    <3>. QED
      BY <1>1, <3>1, <3>2, <3>3 DEF RefState, SameLists
  <2>2. CASE backend \notin {"V8", "Python"}
    BY <1>1, <2>2 DEF Collect, SameLists
  <2>. QED
    BY <2>1, <2>2
<1>. HIDE DEF empties
<1>4. \A h \in Handles : empties(h) => ~Keeps(h) /\ refs.object[h] = o
  BY <1>2 DEF empties
<1>5. Balanced(refs)'
  <2>. SUFFICES ASSUME NEW x \in Objects PROVE Surplus(refs, x)' = 0
    BY DEF Balanced
  <2>1. Holders(refs.object, x)' = Holders(refs.object, x)
    BY <1>1, <1>3, <1>4 DEF Holders, Keeps
  <2>2. Surplus(refs, x) = 0
    BY <1>1 DEF Whole, Balanced
  <2>. QED
    BY <1>3, <2>1, <2>2 DEF Surplus
<1>6. ASSUME NEW h \in Handles
      PROVE  Sound(refs, h)' /\ (Dead(refs, h) => Dead(refs, h)')
  <2>1. /\ refs'.engine[h] = refs.engine[h] /\ refs'.handle[h] = refs.handle[h]
        /\ \A f \in Engines : refs'.nodes[f][h] = refs.nodes[f][h]
        /\ refs'.object[h] = IF empties(h) THEN NoObject ELSE refs.object[h]
        /\ Keeps(h)' = Keeps(h)
    BY <1>1, <1>3 DEF SameLists, Keeps
  <2>2. Sound(refs, h) /\ SoundValue(refs, h)
    BY <1>1 DEF Whole, Sound
  <2>3. IsEmpty(refs, h)' = IsEmpty(refs, h) \/ (IsPython /\ IsEmpty(refs, h)')
    <3>1. empties(h) => ByEngine(h) \/ IsPython
      BY DEF empties, ByEngine, IsPython
    <3>2. ByEngine(h)' = ByEngine(h)
      BY <1>1 DEF ByEngine
    <3>. QED
      BY <2>1, <3>1, <3>2 DEF IsEmpty, ByEngine, IsPython
  <2>4. SoundValue(refs, h)'
    <3>1. refs.object[h] # NoObject /\ Keeps(h) => refs.object[h] # o
      BY <1>2
    <3>2. IsPython /\ IsEmpty(refs, h)' => refs'.object[h] = NoObject /\ backend # "Lua"
      BY <1>1 DEF IsEmpty, ByEngine, IsPython
    <3>3. CASE IsEmpty(refs, h)' = IsEmpty(refs, h)
      BY <1>1, <2>1, <2>2, <3>1, <3>3 DEF SoundValue
    <3>4. CASE IsPython /\ IsEmpty(refs, h)'
      BY <1>1, <3>2, <3>4 DEF SoundValue
    <3>. QED
      BY <2>3, <3>3, <3>4
  <2>5. HasLists => (SoundList(refs, h) => SoundList(refs, h)')
    BY <2>1, <2>3 DEF SoundList, ListedAt, HasLists, IsPython
  <2>6. SoundKey(refs, h) => SoundKey(refs, h)'
    BY <2>1 DEF SoundKey
  <2>7. Dead(refs, h) => Dead(refs, h)'
    BY <2>1, <2>3 DEF Dead
  <2>8. Sound(refs, h)'
    BY <1>1, <2>2, <2>4, <2>5, <2>6 DEF Sound, Backends, IsPython
  <2>. QED
    BY <2>7, <2>8
<1>7. Whole(refs)'
  BY <1>1, <1>3, <1>5, <1>6 DEF Whole
<1>. QED
  BY <1>1, <1>6, <1>7 DEF RefsInv

-----------------------------------------------------------------------------

LEMMA RefsInitHolds == RefsInit /\ backend \in RefBackends => RefsInv
<1>. SUFFICES ASSUME RefsInit, backend \in RefBackends PROVE RefsInv
  OBVIOUS
<1>1. refs \in RefState /\ running \subseteq Engines /\ made = {} /\ present \subseteq Objects
  BY DEF RefsInit, RefState
<1>2. /\ \A h \in Handles : /\ refs.engine[h] = NoEngine /\ refs.object[h] = NoObject
                            /\ refs.handle[h] = NoEngine
      /\ \A e \in Engines, h \in Handles : refs.nodes[e][h] = 0
      /\ \A o \in Objects : refs.strong[o] = 0
  BY DEF RefsInit
<1>3. \A h \in Handles : IsEmpty(refs, h) /\ Dead(refs, h)
  BY <1>2 DEF IsEmpty, Dead
<1>4. \A h \in Handles : Sound(refs, h)
  <2>. SUFFICES ASSUME NEW h \in Handles PROVE Sound(refs, h)
    OBVIOUS
  <2>1. SoundValue(refs, h)
    BY <1>2, <1>3 DEF SoundValue
  <2>2. SoundList(refs, h)
    BY <1>2, <1>3, BackendAssumption DEF SoundList, ListedAt
  <2>3. SoundKey(refs, h)
    BY <1>2 DEF SoundKey
  <2>. QED
    BY <2>1, <2>2, <2>3 DEF Sound
<1>5. Balanced(refs)
  <2>. SUFFICES ASSUME NEW o \in Objects PROVE Surplus(refs, o) = 0
    BY DEF Balanced
  <2>1. Holders(refs.object, o) = {}
    BY <1>2, ReferencesAssumption DEF Holders
  <2>. QED
    BY <1>2, <2>1, FS_EmptySet DEF Surplus
<1>. QED
  BY <1>1, <1>3, <1>4, <1>5 DEF RefsInv, Whole

LEMMA RefsNextKeeps ==
  ASSUME RefsInv, Backends, RefsNext, UNCHANGED backend
  PROVE  RefsInv'
<1>0. running \subseteq Engines
  BY DEF RefsInv, Whole
<1>1. CASE \E e \in running \cup {NoEngine}, h \in Handles : ConstructEmpty(e, h)
  BY <1>1, ConstructEmptyKeeps
<1>2. CASE \E h \in Handles : Destruct(h)
  BY <1>2, DestructKeeps
<1>3. CASE \E e \in Engines, h \in Handles, o \in Objects : ConstructFromLocal(e, h, o)
  BY <1>3, FromLocalKeeps DEF ConstructFromLocal
<1>4. CASE \E e \in Engines, h \in Handles, o \in Objects : AssignLocal(e, h, o)
  BY <1>4, AssignLocalKeeps
<1>5. CASE \E e \in Engines, a, b \in Handles :
             Convert(e, a, b) \/ CopyConstruct(e, a, b) \/ MoveConstruct(e, a, b)
  BY <1>5, ConvertKeeps, CopyConstructKeeps, MoveConstructKeeps
<1>6. CASE \E e \in Engines, a, b \in Handles :
             CopyAssign(e, a, b) \/ MoveAssign(e, a, b) \/ Swap(e, a, b)
  BY <1>6, CopyAssignKeeps, MoveAssignKeeps, SwapKeeps
<1>7. CASE \E e \in Engines, h \in Handles : Reset(e, h)
  BY <1>7, ResetKeeps
<1>8. CASE \E e \in Engines : DestroyEngine(e)
  BY <1>8, DestroyEngineKeeps
<1>9. CASE \E o \in Objects : Collect(o)
  BY <1>9, CollectKeeps
<1>. QED
  BY <1>1, <1>2, <1>3, <1>4, <1>5, <1>6, <1>7, <1>8, <1>9 DEF RefsNext

LEMMA RefsInvImplies ==
  ASSUME RefsInv, Backends
  PROVE  ReferencesAreListed /\ RefsTypeOK
<1>1. ASSUME NEW h \in Handles
      PROVE  /\ SoundValue(refs, h) /\ Sound(refs, h)
             /\ HasLists => SoundList(refs, h)
             /\ IsPython => SoundKey(refs, h)
             /\ h \notin made => \A e \in Engines : refs.nodes[e][h] = 0
  BY DEF RefsInv, Whole, Sound, HasLists, IsPython, Dead
<1>2. ListedOnce
  <2>. SUFFICES ASSUME NEW h \in Handles, NEW e \in Engines
                PROVE  LET due == ~IsEmpty(refs, h) /\ refs.engine[h] = e
                       IN  /\ refs.nodes[e][h] \in {0, 1}
                           /\ due => refs.nodes[e][h] = 1
                           /\ refs.nodes[e][h] = 1 => h \in made /\ (due \/ backend = "Python")
                           /\ backend # "Python" => (refs.handle[h] = e <=> due)
    BY DEF ListedOnce
  <2>1. CASE HasLists
    BY <1>1, <2>1, BackendAssumption DEF SoundList, ListedAt
  <2>2. CASE IsPython
    BY <1>1, <2>2 DEF SoundKey, IsEmpty, ByEngine, IsPython
  <2>. QED
    BY <2>1, <2>2 DEF Backends
<1>3. HoldersCounted
  <2>. SUFFICES ASSUME NEW o \in Objects
                PROVE  /\ refs.strong[o] = Cardinality(Holders(refs.object, o))
                       /\ Holders(refs.object, o) # {} => o \in present
    BY DEF HoldersCounted, Holders
  <2>1. Surplus(refs, o) = 0 /\ refs.strong[o] \in Int /\ Cardinality(Holders(refs.object, o)) \in Nat
    BY HoldersAreFinite, StateHasFields DEF RefsInv, Whole, Balanced, Fields
  <2>2. o # NoObject
    BY ReferencesAssumption
  <2>. QED
    BY <1>1, <2>1, <2>2 DEF Surplus, Holders, SoundValue
<1>4. NoneOutlivesItsEngine
  BY <1>1 DEF NoneOutlivesItsEngine, SoundValue
<1>5. RefsTypeOK
  BY DEF RefsInv, Whole, RefsTypeOK
<1>. QED
  BY <1>2, <1>3, <1>4, <1>5 DEF ReferencesAreListed

LEMMA RefsInvHolds == RefsSpec => [](RefsInv /\ Backends)
<1>1. RefsInit /\ backend \in RefBackends => RefsInv /\ Backends
  BY RefsInitHolds, BackendsAre
<1>2. RefsInv /\ Backends /\ [RefsNext /\ UNCHANGED backend]_<<refsVars, backend>>
      => (RefsInv /\ Backends)'
  <2>. SUFFICES ASSUME RefsInv, Backends, [RefsNext /\ UNCHANGED backend]_<<refsVars, backend>>
                PROVE  RefsInv' /\ Backends'
    OBVIOUS
  <2>1. UNCHANGED backend
    OBVIOUS
  <2>2. Backends'
    BY <2>1 DEF Backends, HasLists, IsPython
  <2>3. CASE RefsNext /\ UNCHANGED backend
    BY <2>2, <2>3, RefsNextKeeps
  <2>4. CASE UNCHANGED <<refsVars, backend>>
    <3>1. UNCHANGED <<refs, made, running, present, backend>>
      BY <2>4 DEF refsVars
    <3>2. refs' \in RefState => Result(refs, refs', {})
      BY <3>1, StillThere DEF RefsInv
    <3>3. RefsInv'
      BY <3>1, <3>2, InvFollows DEF RefsInv, Whole
    <3>. QED
      BY <2>2, <3>3
  <2>. QED
    BY <2>2, <2>3, <2>4
<1>. QED
  BY <1>1, <1>2, PTL DEF RefsSpec

(* Whatever the program does with its references, in each backend: a       *)
(* reference with a value is in the list of its engine once and no empty   *)
(* or destructed one is in a list, the references counted on an object are *)
(* those that hold it, and no value is left of an engine that is destroyed.*)
THEOREM ReferencesAreAlwaysListed == RefsSpec => []ReferencesAreListed
<1>1. RefsInv /\ Backends => ReferencesAreListed
  BY RefsInvImplies
<1>. QED
  BY <1>1, RefsInvHolds, PTL

(* The engines, objects, nodes and counts of references have their types.  *)
THEOREM ReferencesAreTyped == RefsSpec => []RefsTypeOK
<1>1. RefsInv /\ Backends => RefsTypeOK
  BY RefsInvImplies
<1>. QED
  BY <1>1, RefsInvHolds, PTL

-----------------------------------------------------------------------------
(* Lua and WebAssembly. A Local designates the value it was made for,      *)
(* whatever is pushed, popped, called, returned and thrown in between.     *)

StackSpec == StackInit /\ [][StackNext]_stackVars

Typed(sl, sc, lo) ==
  /\ sl \in Seq(Slot) /\ Len(sl) <= MaxSlots
  /\ sc \in Seq(Scope) /\ Len(sc) <= MaxScopes
  /\ lo \in Seq(Local) /\ Len(lo) <= MaxLocals

(* A Local l designates its value in the stack sl.                         *)
Designates(sl, l) ==
  IF l.index = 0 THEN l.value = Nil ELSE l.index <= Len(sl) /\ sl[l.index] = l.value
AllDesignate(sl, lo) == \A i \in 1..Len(lo) : Designates(sl, lo[i])

(* Scopes are opened above each other, in the stack and among the Locals.  *)
Nested(sl, sc, lo) ==
  \A d \in 1..Len(sc) :
    /\ sc[d].base <= Len(sl)
    /\ sc[d].outside <= Len(lo)
    /\ \A c \in 1..d - 1 : sc[c].base < sc[d].base /\ sc[c].outside <= sc[d].outside

(* The Locals outside a scope designate nothing that its end cuts off.     *)
OutsideIsBelow(sc, lo) ==
  \A d \in 1..Len(sc) : \A i \in 1..sc[d].outside : lo[i].index < sc[d].base

WellFormed(sl, sc, lo) ==
  Typed(sl, sc, lo) /\ AllDesignate(sl, lo) /\ Nested(sl, sc, lo) /\ OutsideIsBelow(sc, lo)

StackInv == WellFormed(slots, scopes, locals)

-----------------------------------------------------------------------------

LEMMA CutIs ==
  ASSUME NEW S, NEW s \in Seq(S), NEW n \in 0..Len(s)
  PROVE  /\ Cut(s, n) \in Seq(S)
         /\ Len(Cut(s, n)) = n
         /\ \A i \in 1..n : Cut(s, n)[i] = s[i]
  BY DEF Cut

LEMMA AppendIs ==
  ASSUME NEW S, NEW s \in Seq(S), NEW x \in S
  PROVE  /\ Append(s, x) \in Seq(S)
         /\ Len(Append(s, x)) = Len(s) + 1
         /\ \A i \in 1..Len(s) : Append(s, x)[i] = s[i]
         /\ Append(s, x)[Len(s) + 1] = x
  OBVIOUS

LEMMA ConcatIs ==
  ASSUME NEW S, NEW s \in Seq(S), NEW t \in Seq(S)
  PROVE  /\ s \o t \in Seq(S)
         /\ Len(s \o t) = Len(s) + Len(t)
         /\ \A i \in 1..Len(s) : (s \o t)[i] = s[i]
         /\ \A i \in 1..Len(t) : (s \o t)[Len(s) + i] = t[i]
  OBVIOUS

LEMMA StackScopeIs ==
  ASSUME NEW s \in Scope
  PROVE  /\ s.base \in 1..MaxSlots /\ s.base \in Nat
         /\ s.outside \in 0..MaxLocals /\ s.outside \in Nat
  BY LocalStackAssumption DEF Scope

(* sl2 has what sl has, and perhaps more above it.                         *)
Extends(sl2, sl) ==
  /\ sl2 \in Seq(Slot) /\ Len(sl2) <= MaxSlots
  /\ Len(sl) <= Len(sl2)
  /\ \A k \in 1..Len(sl) : sl2[k] = sl[k]

LEMMA PushedValues ==
  ASSUME NEW sl \in Seq(Slot), NEW t \in Seq(Slot), Len(sl) + Len(t) <= MaxSlots
  PROVE  Extends(sl \o t, sl)
  BY ConcatIs, LocalStackAssumption DEF Extends

LEMMA PushedValue ==
  ASSUME NEW sl \in Seq(Slot), NEW v \in Slot, Len(sl) + 1 <= MaxSlots
  PROVE  Extends(Append(sl, v), sl)
  BY AppendIs, LocalStackAssumption DEF Extends

LEMMA StillDesignates ==
  ASSUME NEW sl \in Seq(Slot), NEW sl2, Extends(sl2, sl), NEW l \in Local, Designates(sl, l)
  PROVE  Designates(sl2, l)
  BY LocalStackAssumption DEF Extends, Designates, Local

(* Declarations above a well-formed stack.                                 *)
LEMMA Declare ==
  ASSUME NEW sl, NEW sc, NEW lo, WellFormed(sl, sc, lo),
         NEW sl2, Extends(sl2, sl),
         NEW new \in Seq(Local), Len(lo) + Len(new) <= MaxLocals,
         \A n \in 1..Len(new) : Designates(sl2, new[n])
  PROVE  WellFormed(sl2, sc, lo \o new)
<1>. DEFINE lo2 == lo \o new
<1>1. /\ sl \in Seq(Slot) /\ sc \in Seq(Scope) /\ lo \in Seq(Local)
      /\ Len(lo) <= MaxLocals /\ Len(sc) <= MaxScopes /\ MaxLocals \in Nat /\ MaxSlots \in Nat
  BY LocalStackAssumption DEF WellFormed, Typed
<1>2. /\ lo2 \in Seq(Local) /\ Len(lo2) = Len(lo) + Len(new)
      /\ \A i \in 1..Len(lo) : lo2[i] = lo[i]
      /\ \A i \in 1..Len(new) : lo2[Len(lo) + i] = new[i]
  BY <1>1, ConcatIs
<1>. HIDE DEF lo2
<1>3. Typed(sl2, sc, lo2)
  BY <1>1, <1>2 DEF Typed, Extends
<1>4. AllDesignate(sl2, lo2)
  <2>. SUFFICES ASSUME NEW i \in 1..Len(lo2) PROVE Designates(sl2, lo2[i])
    BY DEF AllDesignate
  <2>1. CASE i <= Len(lo)
    <3>1. i \in 1..Len(lo) /\ lo2[i] = lo[i] /\ lo[i] \in Local
      BY <1>1, <1>2, <2>1
    <3>2. Designates(sl, lo[i])
      BY <3>1 DEF WellFormed, AllDesignate
    <3>. QED
      BY <1>1, <3>1, <3>2, StillDesignates
  <2>2. CASE ~(i <= Len(lo))
    <3>1. i - Len(lo) \in 1..Len(new) /\ lo2[i] = new[i - Len(lo)]
      <4>1. i - Len(lo) \in 1..Len(new) /\ Len(lo) + (i - Len(lo)) = i
        BY <1>1, <1>2, <2>2
      <4>. QED
        BY <1>2, <4>1
    <3>. QED
      BY <3>1
  <2>. QED
    BY <2>1, <2>2
<1>5. Nested(sl2, sc, lo2)
  <2>1. Nested(sl, sc, lo)
    BY DEF WellFormed
  <2>2. \A d \in 1..Len(sc) : sc[d].base \in Nat /\ sc[d].outside \in Nat
    BY <1>1, StackScopeIs
  <2>3. Len(sl) <= Len(sl2) /\ Len(lo) <= Len(lo2) /\ {Len(sl), Len(sl2), Len(lo), Len(lo2)} \subseteq Nat
    BY <1>1, <1>2 DEF Extends
  <2>. QED
    BY <2>1, <2>2, <2>3 DEF Nested
<1>6. OutsideIsBelow(sc, lo2)
  <2>. SUFFICES ASSUME NEW d \in 1..Len(sc), NEW i \in 1..sc[d].outside
                PROVE  lo2[i].index < sc[d].base
    BY DEF OutsideIsBelow
  <2>1. sc[d].outside <= Len(lo) /\ lo[i].index < sc[d].base
    BY DEF WellFormed, Nested, OutsideIsBelow
  <2>2. sc[d].outside \in Nat
    BY <1>1, StackScopeIs
  <2>3. i \in 1..Len(lo)
    BY <1>1, <2>1, <2>2
  <2>. QED
    BY <1>2, <2>1, <2>3
<1>. QED
  BY <1>3, <1>4, <1>5, <1>6 DEF WellFormed, lo2

LEMMA DeclareOne ==
  ASSUME NEW sl, NEW sc, NEW lo, WellFormed(sl, sc, lo),
         NEW sl2, Extends(sl2, sl),
         NEW l \in Local, Len(lo) < MaxLocals, Designates(sl2, l)
  PROVE  WellFormed(sl2, sc, Append(lo, l))
<1>1. lo \in Seq(Local) /\ MaxLocals \in Nat
  BY LocalStackAssumption DEF WellFormed, Typed
<1>2. <<l>> \in Seq(Local) /\ Len(<<l>>) = 1 /\ <<l>>[1] = l
  OBVIOUS
<1>3. Append(lo, l) = lo \o <<l>>
  BY <1>1
<1>4. \A n \in 1..Len(<<l>>) : Designates(sl2, <<l>>[n])
  BY <1>2
<1>5. Len(lo) + Len(<<l>>) <= MaxLocals
  BY <1>1, <1>2
<1>6. WellFormed(sl2, sc, lo \o <<l>>)
  BY <1>2, <1>4, <1>5, Declare
<1>. QED
  BY <1>3, <1>6

LEMMA DeclareNone ==
  ASSUME NEW sl, NEW sc, NEW lo, WellFormed(sl, sc, lo), NEW sl2, Extends(sl2, sl)
  PROVE  WellFormed(sl2, sc, lo)
<1>1. lo \in Seq(Local) /\ Len(lo) <= MaxLocals /\ MaxLocals \in Nat
  BY LocalStackAssumption DEF WellFormed, Typed
<1>2. << >> \in Seq(Local) /\ Len(<< >>) = 0 /\ lo \o << >> = lo
  BY <1>1
<1>3. Len(lo) + Len(<< >>) <= MaxLocals /\ \A n \in 1..Len(<< >>) : Designates(sl2, << >>[n])
  BY <1>1, <1>2
<1>4. WellFormed(sl2, sc, lo \o << >>)
  BY <1>2, <1>3, Declare
<1>. QED
  BY <1>2, <1>4

(* The end of the scope d and of those above it.                           *)
LEMMA CutBack ==
  ASSUME NEW sl, NEW sc, NEW lo, WellFormed(sl, sc, lo), NEW d \in 1..Len(sc)
  PROVE  /\ WellFormed(Cut(sl, sc[d].base - 1), Cut(sc, d - 1), Cut(lo, sc[d].outside))
         /\ Len(Cut(sl, sc[d].base - 1)) = sc[d].base - 1
         /\ Len(Cut(lo, sc[d].outside)) = sc[d].outside
         /\ sc[d] \in Scope
<1>. DEFINE sl2 == Cut(sl, sc[d].base - 1)
            sc2 == Cut(sc, d - 1)
            lo2 == Cut(lo, sc[d].outside)
<1>1. /\ sl \in Seq(Slot) /\ sc \in Seq(Scope) /\ lo \in Seq(Local)
      /\ Len(sl) <= MaxSlots /\ Len(sc) <= MaxScopes /\ Len(lo) <= MaxLocals
      /\ {MaxSlots, MaxLocals, MaxScopes} \subseteq Nat
  BY LocalStackAssumption DEF WellFormed, Typed
<1>2. sc[d] \in Scope /\ sc[d].base \in 1..MaxSlots /\ sc[d].outside \in 0..MaxLocals
  BY <1>1, StackScopeIs
<1>3. sc[d].base <= Len(sl) /\ sc[d].outside <= Len(lo)
  BY DEF WellFormed, Nested
<1>4. /\ sl2 \in Seq(Slot) /\ Len(sl2) = sc[d].base - 1
      /\ \A k \in 1..sc[d].base - 1 : sl2[k] = sl[k]
  <2>1. sc[d].base - 1 \in 0..Len(sl)
    BY <1>1, <1>2, <1>3
  <2>. QED
    BY <1>1, <2>1, CutIs
<1>5. /\ lo2 \in Seq(Local) /\ Len(lo2) = sc[d].outside
      /\ \A k \in 1..sc[d].outside : lo2[k] = lo[k]
  <2>1. sc[d].outside \in 0..Len(lo)
    BY <1>1, <1>2, <1>3
  <2>. QED
    BY <1>1, <2>1, CutIs
<1>6. sc2 \in Seq(Scope) /\ Len(sc2) = d - 1 /\ \A k \in 1..d - 1 : sc2[k] = sc[k]
  <2>1. d - 1 \in 0..Len(sc)
    BY <1>1
  <2>. QED
    BY <1>1, <2>1, CutIs
<1>. HIDE DEF sl2, sc2, lo2
<1>7. Typed(sl2, sc2, lo2)
  BY SMTT(30), <1>1, <1>2, <1>3, <1>4, <1>5, <1>6 DEF Typed
<1>8. AllDesignate(sl2, lo2)
  <2>. SUFFICES ASSUME NEW i \in 1..Len(lo2) PROVE Designates(sl2, lo2[i])
    BY DEF AllDesignate
  <2>1. i \in 1..Len(lo) /\ i \in 1..sc[d].outside /\ lo2[i] = lo[i] /\ lo[i] \in Local
    BY <1>1, <1>2, <1>3, <1>5
  <2>2. Designates(sl, lo[i]) /\ lo[i].index < sc[d].base
    BY <2>1 DEF WellFormed, AllDesignate, OutsideIsBelow
  <2>3. lo[i].index \in 0..MaxSlots /\ lo[i].index \in Nat
    BY <1>1, <2>1 DEF Local
  <2>4. lo[i].index # 0 => lo[i].index \in 1..sc[d].base - 1 /\ lo[i].index <= Len(sl2)
    BY <1>2, <1>4, <2>2, <2>3
  <2>. QED
    BY <1>4, <2>1, <2>2, <2>4 DEF Designates
<1>9. Nested(sl2, sc2, lo2)
  <2>1. Nested(sl, sc, lo)
    BY DEF WellFormed
  <2>2. \A c \in 1..Len(sc2) : c \in 1..d - 1 /\ c \in 1..Len(sc) /\ sc2[c] = sc[c] /\ sc[c] \in Scope
    BY <1>1, <1>6
  <2>3. \A c \in 1..d - 1 : sc[c].base < sc[d].base /\ sc[c].outside <= sc[d].outside
    BY <2>1 DEF Nested
  <2>4. \A c \in 1..Len(sc2) : sc2[c].base <= Len(sl2) /\ sc2[c].outside <= Len(lo2)
    <3>. SUFFICES ASSUME NEW c \in 1..Len(sc2)
                  PROVE  sc2[c].base <= Len(sl2) /\ sc2[c].outside <= Len(lo2)
      OBVIOUS
    <3>1. sc2[c] = sc[c] /\ sc[c].base < sc[d].base /\ sc[c].outside <= sc[d].outside
      BY <2>2, <2>3
    <3>2. sc[c].base \in Nat /\ sc[d].base \in Nat
      BY <1>2, <2>2, StackScopeIs
    <3>. QED
      BY <1>4, <1>5, <3>1, <3>2
  <2>5. \A c \in 1..Len(sc2) : \A b \in 1..c - 1 :
          sc2[b].base < sc2[c].base /\ sc2[b].outside <= sc2[c].outside
    BY <1>6, <2>1, <2>2 DEF Nested
  <2>. QED
    BY <2>4, <2>5 DEF Nested
<1>10. OutsideIsBelow(sc2, lo2)
  <2>. SUFFICES ASSUME NEW c \in 1..Len(sc2), NEW i \in 1..sc2[c].outside
                PROVE  lo2[i].index < sc2[c].base
    BY DEF OutsideIsBelow
  <2>1. c \in 1..d - 1 /\ c \in 1..Len(sc) /\ sc2[c] = sc[c] /\ sc[c] \in Scope
    BY <1>1, <1>6
  <2>2. sc[c].outside <= sc[d].outside
    BY <2>1 DEF WellFormed, Nested
  <2>3. i \in 1..sc[d].outside
    BY <1>2, <2>1, <2>2 DEF Scope
  <2>4. lo[i].index < sc[c].base
    BY <2>1 DEF WellFormed, OutsideIsBelow
  <2>. QED
    BY <1>5, <2>1, <2>3, <2>4
<1>. QED
  BY <1>2, <1>4, <1>5, <1>7, <1>8, <1>9, <1>10 DEF WellFormed, sl2, sc2, lo2

(* A scope that is opened on top.                                          *)
LEMMA OpenScope ==
  ASSUME NEW sl, NEW sc, NEW lo, WellFormed(sl, sc, lo),
         NEW sl2, Extends(sl2, sl), Len(sl) + 1 <= Len(sl2),
         NEW s \in Scope, Len(sc) < MaxScopes, s.base = Len(sl) + 1, s.outside = Len(lo)
  PROVE  WellFormed(sl2, Append(sc, s), lo)
<1>. DEFINE sc2 == Append(sc, s)
<1>1. WellFormed(sl2, sc, lo)
  BY DeclareNone
<1>2. /\ sl \in Seq(Slot) /\ sl2 \in Seq(Slot) /\ sc \in Seq(Scope) /\ lo \in Seq(Local)
      /\ Len(sl2) <= MaxSlots /\ Len(lo) <= MaxLocals
      /\ {MaxSlots, MaxLocals, MaxScopes} \subseteq Nat
  BY <1>1, LocalStackAssumption DEF WellFormed, Typed
<1>3. /\ sc2 \in Seq(Scope) /\ Len(sc2) = Len(sc) + 1 /\ sc2[Len(sc) + 1] = s
      /\ \A d \in 1..Len(sc) : sc2[d] = sc[d] /\ sc[d] \in Scope
  BY <1>2, AppendIs
<1>. HIDE DEF sc2
<1>4. Typed(sl2, sc2, lo)
  BY <1>2, <1>3 DEF Typed
<1>5. \A d \in 1..Len(sc) :
        /\ sc[d].base <= Len(sl) /\ sc[d].outside <= Len(lo)
        /\ \A c \in 1..d - 1 : sc[c].base < sc[d].base /\ sc[c].outside <= sc[d].outside
  BY DEF WellFormed, Nested
<1>6. Nested(sl2, sc2, lo)
  <2>. SUFFICES ASSUME NEW d \in 1..Len(sc2)
                PROVE  /\ sc2[d].base <= Len(sl2)
                       /\ sc2[d].outside <= Len(lo)
                       /\ \A c \in 1..d - 1 :
                            sc2[c].base < sc2[d].base /\ sc2[c].outside <= sc2[d].outside
    BY DEF Nested
  <2>0. Len(sl) < Len(sl2) /\ {Len(sl), Len(sl2), Len(lo), Len(sc)} \subseteq Nat
    BY <1>2, <1>5
  <2>1. CASE d \in 1..Len(sc)
    <3>1. sc2[d] = sc[d] /\ sc[d].base \in Nat
      BY <1>3, <2>1, StackScopeIs
    <3>2. \A c \in 1..d - 1 : c \in 1..Len(sc) /\ sc2[c] = sc[c]
      BY <1>3, <2>0, <2>1
    <3>. QED
      BY SMTT(30), <1>5, <2>0, <2>1, <3>1, <3>2
  <2>2. CASE d = Len(sc) + 1
    <3>1. \A c \in 1..d - 1 : c \in 1..Len(sc) /\ sc2[c] = sc[c] /\ sc[c].base \in Nat
      BY <1>3, <2>0, <2>2, StackScopeIs
    <3>2. \A c \in 1..d - 1 : sc2[c].base <= Len(sl) /\ sc2[c].outside <= Len(lo)
      BY <1>5, <3>1
    <3>. QED
      BY <1>3, <2>0, <2>2, <3>1, <3>2
  <2>. QED
    BY <1>2, <1>3, <2>1, <2>2
<1>7. OutsideIsBelow(sc2, lo)
  <2>. SUFFICES ASSUME NEW d \in 1..Len(sc2), NEW i \in 1..sc2[d].outside
                PROVE  lo[i].index < sc2[d].base
    BY DEF OutsideIsBelow
  <2>1. CASE d \in 1..Len(sc)
    BY <1>3, <2>1 DEF WellFormed, OutsideIsBelow
  <2>2. CASE d = Len(sc) + 1
    <3>1. i \in 1..Len(lo) /\ lo[i] \in Local /\ Designates(sl, lo[i])
      BY <1>2, <1>3, <2>2 DEF WellFormed, AllDesignate
    <3>. QED
      BY <1>2, <1>3, <2>2, <3>1 DEF Designates, Local
  <2>. QED
    BY <1>2, <1>3, <2>1, <2>2
<1>. QED
  BY <1>1, <1>4, <1>6, <1>7 DEF WellFormed, sc2

-----------------------------------------------------------------------------

Kept == WellFormed(slots', scopes', locals')

LEMMA NowTyped ==
  ASSUME StackInv
  PROVE  /\ slots \in Seq(Slot) /\ Top <= MaxSlots /\ Top \in Nat
         /\ scopes \in Seq(Scope) /\ Depth <= MaxScopes /\ Depth \in Nat
         /\ locals \in Seq(Local) /\ Len(locals) <= MaxLocals /\ Len(locals) \in Nat
         /\ MaxSlots \in Nat /\ MaxLocals \in Nat /\ MaxScopes \in Nat
  BY LocalStackAssumption DEF StackInv, WellFormed, Typed, Top, Depth

(* What adds up.                                                           *)
LEMMA NowBounded ==
  ASSUME StackInv
  PROVE  /\ Top \in Nat /\ Depth \in Nat /\ Len(locals) \in Nat
         /\ Top <= MaxSlots /\ Depth <= MaxScopes /\ Len(locals) <= MaxLocals
         /\ MaxSlots \in Nat /\ MaxLocals \in Nat /\ MaxScopes \in Nat
  BY NowTyped

LEMMA LocalIs ==
  ASSUME NEW index \in 0..MaxSlots, NEW value \in Slot
  PROVE  /\ NewLocal(index, value) \in Local
         /\ NewLocal(index, value).index = index /\ NewLocal(index, value).value = value
  BY DEF NewLocal, Local

LEMMA SlotHas == /\ Nil \in Slot /\ Array \in Slot /\ Handler \in Slot
                 /\ Values \subseteq Slot /\ Strings \subseteq Slot
  BY LocalStackAssumption DEF Slot

(* What is pushed on top is what the new Local was made for.               *)
LEMMA NewDesignates ==
  ASSUME NEW sl \in Seq(Slot), NEW index \in 1..Len(sl), Len(sl) <= MaxSlots
  PROVE  /\ NewLocal(index, sl[index]) \in Local
         /\ Designates(sl, NewLocal(index, sl[index]))
<1>1. index \in 0..MaxSlots /\ sl[index] \in Slot /\ index # 0 /\ index <= Len(sl)
  BY LocalStackAssumption
<1>. QED
  BY <1>1, LocalIs DEF Designates

LEMMA EmptyDesignates ==
  ASSUME NEW sl \in Seq(Slot)
  PROVE  NewLocal(0, Nil) \in Local /\ Designates(sl, NewLocal(0, Nil))
<1>1. 0 \in 0..MaxSlots
  BY LocalStackAssumption
<1>. QED
  BY <1>1, LocalIs, SlotHas DEF Designates

(* A Local of the invariant has its value.                                 *)
LEMMA LocalHas ==
  ASSUME StackInv, NEW i \in 1..Len(locals)
  PROVE  /\ locals[i] \in Local /\ Designates(slots, locals[i])
         /\ ValueAt(i) = locals[i].value /\ ValueAt(i) \in Slot
         /\ locals[i].index \in 0..Top
         /\ NewLocal(locals[i].index, locals[i].value) \in Local
         /\ Designates(slots, NewLocal(locals[i].index, locals[i].value))
<1>1. locals[i] \in Local /\ Designates(slots, locals[i])
  BY NowTyped DEF StackInv, WellFormed, AllDesignate
<1>2. locals[i].index \in 0..MaxSlots /\ locals[i].value \in Slot
  BY <1>1 DEF Local
<1>3. ValueAt(i) = locals[i].value /\ locals[i].index \in 0..Top
  BY <1>1, <1>2, NowTyped DEF Designates, ValueAt, Top
<1>. QED
  BY <1>1, <1>2, <1>3, LocalIs DEF Designates

LEMMA ThePushed ==
  ASSUME StackInv, NEW v \in Slot, Top + 1 <= MaxSlots
  PROVE  /\ Extends(Append(slots, v), slots)
         /\ NewLocal(Top + 1, v) \in Local
         /\ Designates(Append(slots, v), NewLocal(Top + 1, v))
<1>1. slots \in Seq(Slot) /\ Len(slots) + 1 <= MaxSlots
  BY NowTyped DEF Top
<1>2. Extends(Append(slots, v), slots)
  BY <1>1, PushedValue
<1>3. /\ Append(slots, v) \in Seq(Slot) /\ Top + 1 \in 1..Len(Append(slots, v))
      /\ Append(slots, v)[Top + 1] = v /\ Len(Append(slots, v)) <= MaxSlots
  BY <1>1, AppendIs, NowTyped DEF Top
<1>. QED
  BY <1>2, <1>3, NewDesignates

LEMMA PushNewKeeps ==
  ASSUME StackInv, NEW v \in Values, Room(1, 1), PushNew(v)
  PROVE  Kept
<1>1. v \in Slot /\ Top + 1 <= MaxSlots /\ Len(locals) < MaxLocals
  BY SlotHas, NowTyped DEF Room
<1>2. WellFormed(slots, scopes, locals)
  BY DEF StackInv
<1>. QED
  BY <1>1, <1>2, ThePushed, DeclareOne DEF PushNew, Kept

(* What copies of a Local are.                                             *)
LEMMA Copies ==
  ASSUME StackInv, NEW i \in 1..Len(locals), Top + 1 <= MaxSlots
  PROVE  /\ Extends(CopyOf(i).top, slots)
         /\ NewLocal(CopyOf(i).index, locals[i].value) \in Local
         /\ Designates(CopyOf(i).top, NewLocal(CopyOf(i).index, locals[i].value))
         /\ CopyOf(i).index \in 0..MaxSlots
<1>0. Extends(slots, slots)
  BY NowTyped DEF Extends, Top
<1>1. /\ locals[i] \in Local /\ ValueAt(i) = locals[i].value /\ ValueAt(i) \in Slot
      /\ locals[i].index \in 0..Top
      /\ NewLocal(locals[i].index, locals[i].value) \in Local
      /\ Designates(slots, NewLocal(locals[i].index, locals[i].value))
  BY LocalHas
<1>2. CASE backend # "Lua"
  BY <1>0, <1>1, <1>2, NowTyped DEF CopyOf, WasmCopied
<1>3. CASE backend = "Lua" /\ locals[i].index = 0
  BY <1>0, <1>1, <1>3, NowTyped DEF CopyOf, LuaCopied
<1>4. CASE backend = "Lua" /\ locals[i].index # 0
  <2>1. CopyOf(i).top = Append(slots, ValueAt(i)) /\ CopyOf(i).index = Top + 1
    BY <1>4 DEF CopyOf, LuaCopied
  <2>. QED
    BY <1>1, <2>1, ThePushed, NowTyped
<1>. QED
  BY <1>2, <1>3, <1>4

LEMMA CopyLocalKeeps ==
  ASSUME StackInv, NEW i \in Visible, Room(1, 1), CopyLocal(i)
  PROVE  Kept
<1>1. i \in 1..Len(locals) /\ Top + 1 <= MaxSlots /\ Len(locals) < MaxLocals
  BY NowTyped DEF Room, Visible
<1>2. WellFormed(slots, scopes, locals)
  BY DEF StackInv
<1>. QED
  BY <1>1, <1>2, Copies, DeclareOne DEF CopyLocal, Kept

LEMMA AliasLocalKeeps ==
  ASSUME StackInv, NEW i \in Visible, Room(0, 1), AliasLocal(i)
  PROVE  Kept
<1>1. i \in 1..Len(locals) /\ Len(locals) < MaxLocals
  BY NowTyped DEF Room, Visible
<1>2. WellFormed(slots, scopes, locals) /\ Extends(slots, slots)
  BY NowTyped DEF StackInv, Extends, Top
<1>. QED
  BY <1>1, <1>2, LocalHas, DeclareOne DEF AliasLocal, Kept

(* A Local variable that gets another value, or none.                      *)
LEMMA Reassign ==
  ASSUME NEW sl, NEW sc, NEW lo, WellFormed(sl, sc, lo), NEW i \in 1..Len(lo),
         NEW l \in Local, Designates(sl, l),
         l.index = 0 \/ \A d \in 1..Len(sc) : sc[d].outside < i
  PROVE  WellFormed(sl, sc, [lo EXCEPT ![i] = l])
<1>. DEFINE lo2 == [lo EXCEPT ![i] = l]
<1>1. /\ sl \in Seq(Slot) /\ sc \in Seq(Scope) /\ lo \in Seq(Local)
      /\ Len(lo) <= MaxLocals /\ Len(lo) \in Nat
  BY DEF WellFormed, Typed
<1>2. /\ lo2 \in Seq(Local) /\ Len(lo2) = Len(lo) /\ lo2[i] = l
      /\ \A j \in 1..Len(lo) : j # i => lo2[j] = lo[j]
  BY <1>1
<1>. HIDE DEF lo2
<1>3. Typed(sl, sc, lo2) /\ Nested(sl, sc, lo2)
  BY <1>2 DEF WellFormed, Typed, Nested
<1>4. AllDesignate(sl, lo2)
  BY <1>2 DEF WellFormed, AllDesignate
<1>5. OutsideIsBelow(sc, lo2)
  <2>. SUFFICES ASSUME NEW d \in 1..Len(sc), NEW j \in 1..sc[d].outside
                PROVE  lo2[j].index < sc[d].base
    BY DEF OutsideIsBelow
  <2>1. /\ sc[d].outside <= Len(lo) /\ lo[j].index < sc[d].base
        /\ sc[d].outside \in Nat /\ sc[d].base \in 1..MaxSlots
    BY <1>1, StackScopeIs DEF WellFormed, Nested, OutsideIsBelow
  <2>2. CASE j # i
    BY <1>1, <1>2, <2>1, <2>2
  <2>3. CASE j = i
    BY <1>2, <2>1, <2>3, LocalStackAssumption
  <2>. QED
    BY <2>2, <2>3
<1>. QED
  BY <1>3, <1>4, <1>5 DEF WellFormed, lo2

LEMMA OwnIsInside ==
  ASSUME StackInv, NEW i \in Own
  PROVE  i \in 1..Len(locals) /\ \A d \in 1..Len(scopes) : scopes[d].outside < i
<1>1. i \in 1..Len(locals) /\ (Depth > 0 => i > scopes[Depth].outside)
  BY DEF Own
<1>2. ASSUME NEW d \in 1..Len(scopes) PROVE scopes[d].outside < i
  <2>1. Depth \in 1..Len(scopes) /\ scopes[d].outside \in Nat /\ scopes[Depth].outside \in Nat
    BY NowTyped, StackScopeIs DEF Depth
  <2>2. d # Depth => scopes[d].outside <= scopes[Depth].outside
    BY <2>1 DEF StackInv, WellFormed, Nested, Depth
  <2>. QED
    BY <1>1, <2>1, <2>2
<1>. QED
  BY <1>1, <1>2

LEMMA AssignKeeps ==
  ASSUME StackInv, NEW i \in Own, NEW j \in Visible, Room(1, 0), AssignLocalVariable(i, j)
  PROVE  Kept
<1>1. /\ i \in 1..Len(locals) /\ j \in 1..Len(locals) /\ Top + 1 <= MaxSlots
      /\ \A d \in 1..Len(scopes) : scopes[d].outside < i
  BY OwnIsInside DEF Visible, Room
<1>. DEFINE l == NewLocal(CopyOf(j).index, locals[j].value)
<1>2. Extends(CopyOf(j).top, slots) /\ l \in Local /\ Designates(CopyOf(j).top, l)
  BY <1>1, Copies
<1>3. WellFormed(CopyOf(j).top, scopes, locals)
  BY <1>2, DeclareNone DEF StackInv
<1>4. locals' = [locals EXCEPT ![i] = l] /\ slots' = CopyOf(j).top /\ scopes' = scopes
  BY DEF AssignLocalVariable
<1>5. WellFormed(CopyOf(j).top, scopes, [locals EXCEPT ![i] = l])
  <2>. HIDE DEF l
  <2>. QED
    BY <1>1, <1>2, <1>3, Reassign
<1>. HIDE DEF l
<1>. QED
  BY <1>1, <1>2, <1>3, <1>4, <1>5, Reassign DEF Kept

LEMMA MoveLocalKeeps ==
  ASSUME StackInv, NEW i \in Visible, Room(0, 1), MoveLocal(i)
  PROVE  Kept
<1>1. i \in 1..Len(locals) /\ Len(locals) < MaxLocals
  BY NowTyped DEF Visible, Room
<1>. DEFINE lo == [locals EXCEPT ![i] = NewLocal(0, Nil)]
            l == NewLocal(locals[i].index, locals[i].value)
<1>2. NewLocal(0, Nil) \in Local /\ Designates(slots, NewLocal(0, Nil)) /\ NewLocal(0, Nil).index = 0
  BY EmptyDesignates, NowTyped DEF NewLocal
<1>3. WellFormed(slots, scopes, lo)
  BY <1>1, <1>2, Reassign DEF StackInv
<1>4. locals' = Append(lo, l)
  BY <1>1, NowTyped, LocalHas DEF MoveLocal, EmptyLocal
<1>5. l \in Local /\ Designates(slots, l) /\ Extends(slots, slots) /\ Len(lo) < MaxLocals
  BY <1>1, LocalHas, NowTyped DEF Extends, Top
<1>. HIDE DEF lo, l
<1>. QED
  BY <1>3, <1>4, <1>5, DeclareOne DEF MoveLocal, Kept

LEMMA ResetLocalKeeps ==
  ASSUME StackInv, NEW i \in Visible, ResetLocal(i)
  PROVE  Kept
<1>1. i \in 1..Len(locals)
  BY DEF Visible
<1>. DEFINE lo == [locals EXCEPT ![i] = NewLocal(0, Nil)]
<1>2. NewLocal(0, Nil) \in Local /\ Designates(slots, NewLocal(0, Nil)) /\ NewLocal(0, Nil).index = 0
  BY EmptyDesignates, NowTyped DEF NewLocal
<1>3. WellFormed(slots, scopes, lo)
  BY <1>1, <1>2, Reassign DEF StackInv
<1>4. locals' = lo /\ scopes' = scopes
  BY <1>1, NowTyped, LocalHas DEF ResetLocal, EmptyLocal
<1>5. CASE slots' = slots
  BY <1>3, <1>4, <1>5 DEF Kept
<1>6. CASE slots' # slots
  <2>1. /\ \A j \in 1..Len(locals) : j # i => locals[j].index # locals[i].index
        /\ locals[i].index # 0 /\ slots' = [slots EXCEPT ![locals[i].index] = Nil]
    BY <1>6 DEF ResetLocal, LuaResetSlot, WasmResetSlot
  <2>2. locals[i].index \in 1..Top
    BY <1>1, <2>1, LocalHas, NowTyped
  <2>3. /\ slots' \in Seq(Slot) /\ Len(slots') = Len(slots)
        /\ \A k \in 1..Len(slots) : k # locals[i].index => slots'[k] = slots[k]
    BY <2>1, <2>2, NowTyped, SlotHas DEF Top
  <2>4. /\ lo \in Seq(Local) /\ Len(lo) = Len(locals) /\ lo[i] = NewLocal(0, Nil)
        /\ \A j \in 1..Len(locals) : j # i => lo[j] = locals[j]
    BY <1>1, <1>2, NowTyped
  <2>. HIDE DEF lo
  <2>5. AllDesignate(slots', lo)
    <3>. SUFFICES ASSUME NEW j \in 1..Len(lo) PROVE Designates(slots', lo[j])
      BY DEF AllDesignate
    <3>1. CASE j = i
      BY <2>3, <2>4, <3>1, EmptyDesignates
    <3>2. CASE j # i
      <4>1. /\ j \in 1..Len(locals) /\ lo[j] = locals[j]
            /\ locals[j].index # locals[i].index
            /\ Designates(slots, locals[j]) /\ locals[j].index \in 0..Top
        BY <2>1, <2>4, <3>2, LocalHas
      <4>. QED
        BY <2>3, <4>1, NowTyped DEF Designates, Top
    <3>. QED
      BY <3>1, <3>2
  <2>6. Typed(slots', scopes, lo) /\ Nested(slots', scopes, lo) /\ OutsideIsBelow(scopes, lo)
    BY <1>3, <2>3 DEF WellFormed, Typed, Nested
  <2>. QED
    BY <1>4, <2>5, <2>6 DEF WellFormed, Kept
<1>. QED
  BY <1>5, <1>6

LEMMA EndLocalKeeps ==
  ASSUME StackInv, EndLocal
  PROVE  Kept
<1>1. /\ Len(locals) \in 1..Len(locals)
      /\ \A d \in 1..Len(scopes) : scopes[d].outside < Len(locals)
  BY OwnIsInside DEF EndLocal
<1>2. /\ locals' \in Seq(Local) /\ Len(locals') = Len(locals) - 1
      /\ \A i \in 1..Len(locals) - 1 : locals'[i] = locals[i]
  <2>1. Len(locals) - 1 \in 0..Len(locals)
    BY <1>1, NowTyped
  <2>. QED
    BY <2>1, NowTyped, CutIs DEF EndLocal
<1>3. slots' = slots /\ scopes' = scopes
  BY DEF EndLocal
<1>4. \A d \in 1..Len(scopes) : scopes[d].outside \in Nat /\ scopes[d].outside <= Len(locals) - 1
  BY <1>1, NowTyped, StackScopeIs
<1>5. WellFormed(slots, scopes, locals)
  BY DEF StackInv
<1>6. Typed(slots, scopes, locals') /\ AllDesignate(slots, locals')
  BY <1>2, <1>5, NowTyped DEF WellFormed, Typed, AllDesignate
<1>7. Nested(slots, scopes, locals')
  BY <1>2, <1>4, <1>5 DEF WellFormed, Nested
<1>8. OutsideIsBelow(scopes, locals')
  <2>1. \A d \in 1..Len(scopes) : \A i \in 1..scopes[d].outside : i \in 1..Len(locals) - 1
    BY <1>4, NowTyped
  <2>. QED
    BY <1>2, <1>5, <2>1 DEF WellFormed, OutsideIsBelow
<1>. QED
  BY <1>3, <1>6, <1>7, <1>8 DEF WellFormed, Kept

(* Locals for several values that are pushed above the slots sl.           *)
LEMMA ManyDesignate ==
  ASSUME NEW sl \in Seq(Slot), NEW at, at = Len(sl),
         NEW values \in Seq(Slot), at + Len(values) <= MaxSlots
  PROVE  LET new == [n \in 1..Len(values) |-> NewLocal(at + n, values[n])]
         IN  /\ new \in Seq(Local) /\ Len(new) = Len(values)
             /\ \A n \in 1..Len(new) : Designates(sl \o values, new[n])
<1>. DEFINE new == [n \in 1..Len(values) |-> NewLocal(at + n, values[n])]
            top == sl \o values
<1>1. /\ top \in Seq(Slot) /\ Len(top) = Len(sl) + Len(values)
      /\ \A n \in 1..Len(values) : top[Len(sl) + n] = values[n]
  BY ConcatIs
<1>. HIDE DEF top
<1>2. ASSUME NEW n \in 1..Len(values)
      PROVE  /\ NewLocal(at + n, values[n]) \in Local
             /\ Designates(top, NewLocal(at + n, values[n]))
  <2>0. Len(sl) \in Nat /\ Len(values) \in Nat
    OBVIOUS
  <2>1. at + n \in 1..Len(top) /\ top[at + n] = values[n] /\ Len(top) <= MaxSlots
    BY <1>1, <2>0
  <2>. QED
    BY <1>1, <2>1, NewDesignates
<1>3. new \in Seq(Local) /\ Len(new) = Len(values)
  BY <1>2
<1>. QED
  BY <1>2, <1>3 DEF top

LEMMA ListIs ==
  ASSUME NEW S, NEW n \in Nat, NEW s \in Lists(S, n)
  PROVE  s \in Seq(S) /\ Len(s) \in 0..n
<1>1. PICK m \in 0..n : s \in [1..m -> S]
  BY DEF Lists
<1>. QED
  BY <1>1

LEMMA WiderList ==
  ASSUME NEW S, NEW T, S \subseteq T, NEW s \in Seq(S)
  PROVE  s \in Seq(T)
  OBVIOUS

LEMMA GetKeysKeeps ==
  ASSUME StackInv, NEW keys \in Lists(Strings, 2), Room(3, 2), GetKeys(keys)
  PROVE  Kept
<1>0. keys \in Seq(Strings) /\ Len(keys) \in 0..2
  <2>. 2 \in Nat
    OBVIOUS
  <2>. QED
    BY ListIs
<1>1. keys \in Seq(Slot) /\ Len(keys) \in 0..2
  BY <1>0, SlotHas, WiderList
<1>2. Top + 3 <= MaxSlots /\ Len(locals) + 2 <= MaxLocals /\ Top + Len(keys) <= MaxSlots
  <2>1. Top + 3 <= MaxSlots /\ Len(locals) + 2 <= MaxLocals
    BY DEF Room
  <2>2. Len(keys) \in 0..2
    BY <1>1
  <2>3. \A k \in 0..2 : Top + k <= MaxSlots
    BY <2>1, NowBounded
  <2>. QED
    BY <2>1, <2>2, <2>3
<1>3. WellFormed(slots, scopes, locals) /\ scopes' = scopes
  BY DEF StackInv, GetKeys
<1>4. CASE backend = "Lua"
  <2>. DEFINE new == [n \in 1..Len(keys) |-> NewLocal(Top + n, keys[n])]
  <2>1. slots' = slots \o keys /\ locals' = locals \o new
    BY <1>4 DEF GetKeys, LuaKeys
  <2>2. /\ new \in Seq(Local) /\ Len(new) = Len(keys)
        /\ \A n \in 1..Len(new) : Designates(slots \o keys, new[n])
    <3>1. slots \in Seq(Slot) /\ Top = Len(slots)
      BY NowTyped DEF Top
    <3>2. Top + Len(keys) <= MaxSlots /\ keys \in Seq(Slot)
      BY <1>1, <1>2
    <3>. QED
      BY ZenonT(60), <3>1, <3>2, ManyDesignate
  <2>3. Extends(slots \o keys, slots)
    <3>1. slots \in Seq(Slot) /\ Len(slots) + Len(keys) <= MaxSlots
      BY <1>2, NowTyped DEF Top
    <3>. QED
      BY <1>1, <3>1, PushedValues
  <2>4. Len(locals) + Len(new) <= MaxLocals
    <3>1. Len(new) = Len(keys) /\ Len(keys) \in 0..2
      BY <1>1, <2>2
    <3>. HIDE DEF new
    <3>. QED
      BY SMTT(30), <1>2, <3>1, NowBounded
  <2>. HIDE DEF new
  <2>. QED
    BY <1>3, <2>1, <2>2, <2>3, <2>4, Declare DEF Kept
<1>5. CASE backend # "Lua"
  <2>. DEFINE sl == Append(slots, Array)
              new == [n \in 1..Len(keys) |-> NewLocal(Top + 1 + n, keys[n])]
  <2>1. sl \in Seq(Slot) /\ Len(sl) = Top + 1
    BY NowTyped, SlotHas, AppendIs DEF Top
  <2>2. slots' = sl \o keys /\ locals' = locals \o new
    BY <1>5 DEF GetKeys, WasmKeys
  <2>3. Len(sl) + Len(keys) <= MaxSlots /\ Top + 1 + Len(keys) <= MaxSlots
    <3>1. Len(keys) \in 0..2 /\ Len(sl) = Top + 1
      BY <1>1, <2>1
    <3>2. \A k \in 0..2 : Top + 1 + k <= MaxSlots
      BY <1>2, NowBounded
    <3>. HIDE DEF sl
    <3>. QED
      BY <3>1, <3>2
  <2>4. Extends(sl, slots)
    BY <1>2, NowTyped, SlotHas, PushedValue DEF Top
  <2>. HIDE DEF sl
  <2>5. /\ new \in Seq(Local) /\ Len(new) = Len(keys)
        /\ \A n \in 1..Len(new) : Designates(sl \o keys, new[n])
    BY <1>1, <2>1, <2>3, ManyDesignate
  <2>6. Extends(sl \o keys, sl)
    BY <1>1, <2>1, <2>3, PushedValues
  <2>7. WellFormed(sl, scopes, locals)
    BY <1>3, <2>4, DeclareNone
  <2>8. Len(locals) + Len(new) <= MaxLocals
    <3>1. Len(new) = Len(keys) /\ Len(keys) \in 0..2
      BY <1>1, <2>5
    <3>. HIDE DEF new
    <3>. QED
      BY SMTT(30), <1>2, <3>1, NowBounded
  <2>. HIDE DEF new
  <2>. QED
    BY <1>3, <2>2, <2>5, <2>6, <2>7, <2>8, Declare DEF Kept
<1>. QED
  BY <1>4, <1>5

-----------------------------------------------------------------------------

LEMMA OpenFrameKeeps ==
  ASSUME StackInv, Room(1, 0), Depth < MaxScopes, OpenFrame
  PROVE  Kept
<1>1. WellFormed(slots, scopes, locals) /\ Top + 1 <= MaxSlots
  BY DEF StackInv, Room
<1>2. Extends(slots', slots) /\ Len(slots') = Len(slots) + 1
  BY <1>1, NowTyped, SlotHas, PushedValue, AppendIs DEF OpenFrame, Top
<1>3. /\ NewScope("frame", 0) \in Scope
      /\ NewScope("frame", 0).base = Len(slots) + 1
      /\ NewScope("frame", 0).outside = Len(locals)
  BY <1>1, NowTyped DEF NewScope, Scope, Top
<1>4. scopes' = Append(scopes, NewScope("frame", 0)) /\ locals' = locals
  BY DEF OpenFrame
<1>5. Len(scopes) < MaxScopes /\ Len(slots) + 1 <= Len(slots')
  BY <1>2, NowTyped DEF Depth
<1>. QED
  BY <1>1, <1>2, <1>3, <1>4, <1>5, OpenScope DEF Kept

(* The state after the end of the scope d, before its result is pushed.    *)
LEMMA ScopeIsLeft ==
  ASSUME StackInv, NEW d \in 1..Depth
  PROVE  /\ WellFormed(Cut(slots, scopes[d].base - 1), Cut(scopes, d - 1),
                       Cut(locals, scopes[d].outside))
         /\ Cut(slots, scopes[d].base - 1) \in Seq(Slot)
         /\ Len(Cut(slots, scopes[d].base - 1)) = scopes[d].base - 1
         /\ Cut(locals, scopes[d].outside) \in Seq(Local)
         /\ Len(Cut(locals, scopes[d].outside)) = scopes[d].outside
         /\ scopes[d].base \in 1..MaxSlots /\ scopes[d].base <= Top
         /\ scopes[d].outside \in 0..MaxLocals
<1>1. d \in 1..Len(scopes) /\ WellFormed(slots, scopes, locals)
  BY DEF StackInv, Depth
<1>2. /\ WellFormed(Cut(slots, scopes[d].base - 1), Cut(scopes, d - 1),
                    Cut(locals, scopes[d].outside))
      /\ Len(Cut(slots, scopes[d].base - 1)) = scopes[d].base - 1
      /\ Len(Cut(locals, scopes[d].outside)) = scopes[d].outside
      /\ scopes[d] \in Scope
  BY <1>1, CutBack
<1>3. scopes[d].base <= Top
  BY <1>1 DEF WellFormed, Nested, Top
<1>. QED
  BY <1>2, <1>3, StackScopeIs DEF WellFormed, Typed

LEMMA CloseFrameKeeps ==
  ASSUME StackInv, CloseFrame
  PROVE  Kept
<1>1. Depth \in 1..Depth
  BY NowTyped DEF CloseFrame
<1>. QED
  BY <1>1, ScopeIsLeft DEF CloseFrame, Outer, LeaveScope, Kept

(* A scope ends and leaves one value, for one Local.                       *)
LEMMA LeavesOne ==
  ASSUME StackInv, NEW d \in 1..Depth, NEW v \in Slot, scopes[d].outside < MaxLocals
  PROVE  WellFormed(Append(Cut(slots, scopes[d].base - 1), v), Cut(scopes, d - 1),
                    Append(Cut(locals, scopes[d].outside), NewLocal(scopes[d].base, v)))
<1>. DEFINE sl == Cut(slots, scopes[d].base - 1)
            sc == Cut(scopes, d - 1)
            lo == Cut(locals, scopes[d].outside)
            l == NewLocal(scopes[d].base, v)
<1>1. /\ WellFormed(sl, sc, lo) /\ sl \in Seq(Slot) /\ Len(sl) = scopes[d].base - 1
      /\ Len(lo) = scopes[d].outside /\ scopes[d].base \in 1..MaxSlots
  BY ScopeIsLeft
<1>2. Len(sl) + 1 = scopes[d].base /\ Len(sl) + 1 <= MaxSlots /\ scopes[d].base \in Nat
  BY SMTT(30), <1>1, LocalStackAssumption
<1>. HIDE DEF sl, sc, lo
<1>3. Extends(Append(sl, v), sl)
  BY <1>1, <1>2, PushedValue
<1>4. /\ Append(sl, v) \in Seq(Slot) /\ scopes[d].base \in 1..Len(Append(sl, v))
      /\ Append(sl, v)[scopes[d].base] = v /\ Len(Append(sl, v)) <= MaxSlots
  BY <1>1, <1>2, AppendIs
<1>5. l \in Local /\ Designates(Append(sl, v), l)
  BY <1>4, NewDesignates
<1>. HIDE DEF l
<1>6. WellFormed(Append(sl, v), sc, Append(lo, l))
  BY <1>1, <1>3, <1>5, DeclareOne
<1>. QED
  BY <1>6 DEF sl, sc, lo, l

(* A scope ends and leaves nothing, for an empty Local.                    *)
LEMMA LeavesNone ==
  ASSUME StackInv, NEW d \in 1..Depth, scopes[d].outside < MaxLocals
  PROVE  WellFormed(Cut(slots, scopes[d].base - 1), Cut(scopes, d - 1),
                    Append(Cut(locals, scopes[d].outside), NewLocal(0, Nil)))
<1>. DEFINE sl == Cut(slots, scopes[d].base - 1)
            sc == Cut(scopes, d - 1)
            lo == Cut(locals, scopes[d].outside)
<1>1. WellFormed(sl, sc, lo) /\ sl \in Seq(Slot) /\ Len(lo) = scopes[d].outside
  BY ScopeIsLeft
<1>2. NewLocal(0, Nil) \in Local /\ Designates(sl, NewLocal(0, Nil))
  BY <1>1, EmptyDesignates
<1>3. Extends(sl, sl)
  BY <1>1 DEF Extends, WellFormed, Typed
<1>. HIDE DEF sl, sc, lo
<1>4. WellFormed(sl, sc, Append(lo, NewLocal(0, Nil)))
  BY <1>1, <1>2, <1>3, DeclareOne
<1>. QED
  BY <1>4 DEF sl, sc, lo

LEMMA ReturnFromFrameKeeps ==
  ASSUME StackInv, NEW i \in Visible, ReturnFromFrame(i)
  PROVE  Kept
<1>1. Depth \in 1..Depth /\ i \in 1..Len(locals)
  BY NowTyped DEF ReturnFromFrame, Visible
<1>. DEFINE base == scopes[Depth].base
            v == ValueAt(i)
<1>2. /\ base \in 1..MaxSlots /\ base <= Top /\ v \in Slot /\ v = locals[i].value
      /\ scopes[Depth].outside < MaxLocals
  BY <1>1, ScopeIsLeft, LocalHas DEF ReturnFromFrame, RoomOutside
<1>3. Returned(i) = Append(Cut(slots, base - 1), v)
  <2>. DEFINE whole == [slots EXCEPT ![base] = v]
  <2>1. /\ base \in Nat /\ base \in 1..Len(slots) /\ base - 1 \in 0..Len(slots)
        /\ slots \in Seq(Slot) /\ Len(slots) \in Nat
    BY <1>2, NowTyped DEF Top
  <2>2. /\ whole \in Seq(Slot) /\ Len(whole) = Len(slots) /\ whole[base] = v
        /\ \A k \in 1..Len(slots) : k # base => whole[k] = slots[k]
    BY <1>2, <2>1
  <2>. HIDE DEF whole, base, v
  <2>3. /\ Cut(whole, base) \in Seq(Slot) /\ Len(Cut(whole, base)) = base
        /\ \A k \in 1..base : Cut(whole, base)[k] = whole[k]
    <3>1. whole \in Seq(Slot) /\ base \in 0..Len(whole)
      BY <2>1, <2>2
    <3>. QED
      BY <3>1, CutIs
  <2>4. /\ Cut(slots, base - 1) \in Seq(Slot) /\ Len(Cut(slots, base - 1)) = base - 1
        /\ \A k \in 1..base - 1 : Cut(slots, base - 1)[k] = slots[k]
    BY <2>1, CutIs
  <2>5. /\ Append(Cut(slots, base - 1), v) \in Seq(Slot)
        /\ Len(Append(Cut(slots, base - 1), v)) = base
        /\ \A k \in 1..base - 1 : Append(Cut(slots, base - 1), v)[k] = slots[k]
        /\ Append(Cut(slots, base - 1), v)[base] = v
    BY <1>2, <2>1, <2>4, AppendIs
  <2>6. \A k \in 1..base : Cut(whole, base)[k] = Append(Cut(slots, base - 1), v)[k]
    BY <2>1, <2>2, <2>3, <2>5
  <2>7. Cut(whole, base) = Append(Cut(slots, base - 1), v)
    BY <2>3, <2>5, <2>6
  <2>. QED
    BY <2>7 DEF Returned, whole, base, v
<1>4. WellFormed(Append(Cut(slots, base - 1), v), Cut(scopes, Depth - 1),
                 Append(Cut(locals, scopes[Depth].outside), NewLocal(base, v)))
  BY <1>1, <1>2, LeavesOne
<1>. QED
  BY <1>2, <1>3, <1>4 DEF ReturnFromFrame, LeaveScope, Outer, Kept

LEMMA ThrowKeeps ==
  ASSUME StackInv, NEW v \in Values, Throw(v)
  PROVE  Kept
  BY LeavesOne, SlotHas DEF Throw, Kept

-----------------------------------------------------------------------------

LEMMA CallScriptKeeps ==
  ASSUME StackInv, NEW results \in Lists(Values, 2), Room(1, 1), CallScript(results)
  PROVE  Kept
<1>0. 2 \in Nat
  OBVIOUS
<1>1. /\ results \in Seq(Values) /\ Len(results) \in 0..2
      /\ Top + 1 <= MaxSlots /\ Len(locals) < MaxLocals
      /\ WellFormed(slots, scopes, locals)
  <2>1. results \in Seq(Values) /\ Len(results) \in 0..2
    BY <1>0, ListIs
  <2>2. Top + 1 <= MaxSlots /\ Len(locals) < MaxLocals
    BY NowBounded DEF Room
  <2>. QED
    BY <2>1, <2>2 DEF StackInv
<1>2. ASSUME NEW v \in Slot, slots' = Append(slots, v),
             locals' = Append(locals, NewLocal(Top + 1, v)), scopes' = scopes
      PROVE  Kept
  BY <1>1, <1>2, ThePushed, DeclareOne DEF Kept
<1>3. scopes' = scopes
  BY DEF CallScript
<1>4. CASE backend = "Lua" /\ Len(results) = 0
  <2>1. slots' = slots /\ locals' = Append(locals, NewLocal(0, Nil))
    BY <1>4 DEF CallScript, LuaResults
  <2>2. Extends(slots, slots)
    BY NowTyped DEF Extends, Top
  <2>. QED
    BY <1>1, <1>3, <2>1, <2>2, EmptyDesignates, DeclareOne, NowTyped DEF Kept
<1>5. CASE backend = "Lua" /\ Len(results) = 1
  <2>1. results = <<results[1]>> /\ results[1] \in Slot
    BY <1>1, <1>5, SlotHas
  <2>2. slots \o results = Append(slots, results[1])
    <3>1. slots \o <<results[1]>> = Append(slots, results[1])
      BY <2>1, NowTyped
    <3>. QED
      BY <2>1, <3>1
  <2>3. slots' = slots \o results /\ locals' = Append(locals, NewLocal(Len(slots) + 1, results[1]))
    BY <1>5 DEF CallScript, LuaResults
  <2>. QED
    BY <1>2, <1>3, <2>1, <2>2, <2>3 DEF Top
<1>6. CASE backend = "Lua" /\ Len(results) \notin {0, 1}
  <2>1. slots' = Append(slots, Array) /\ locals' = Append(locals, NewLocal(Len(slots) + 1, Array))
    BY <1>6 DEF CallScript, LuaResults
  <2>. QED
    BY <1>2, <1>3, <2>1, SlotHas DEF Top
<1>7. CASE backend # "Lua"
  <2>1. LastOf(results) \in Slot
    BY <1>1, SlotHas DEF LastOf
  <2>2. /\ slots' = Append(slots, LastOf(results))
        /\ locals' = Append(locals, NewLocal(Len(slots) + 1, LastOf(results)))
    BY <1>7 DEF CallScript, WasmResult
  <2>. QED
    BY <1>2, <1>3, <2>1, <2>2 DEF Top
<1>. QED
  BY <1>4, <1>5, <1>6, <1>7

LEMMA ReturnFromCallKeeps ==
  ASSUME StackInv, NEW i \in Visible, ReturnFromCall(i)
  PROVE  Kept
<1>1. Depth \in 1..Depth /\ i \in 1..Len(locals) /\ scopes[Depth].outside < MaxLocals
  BY NowTyped DEF ReturnFromCall, InCall, Visible, RoomOutside
<1>. DEFINE base == scopes[Depth].base
            caller == Cut(slots, base - 1)
<1>2. /\ caller \in Seq(Slot) /\ Len(caller) + 1 = base /\ base \in 1..Top
      /\ ValueAt(i) \in Slot /\ ValueAt(i) = locals[i].value
      /\ Designates(slots, locals[i])
  <2>1. /\ caller \in Seq(Slot) /\ Len(caller) = base - 1
        /\ base \in 1..MaxSlots /\ base <= Top
    BY <1>1, ScopeIsLeft
  <2>2. base \in 1..Top /\ base - 1 + 1 = base
    BY <2>1, NowTyped
  <2>. HIDE DEF base, caller
  <2>. QED
    BY <1>1, <2>1, <2>2, LocalHas
<1>3. scopes' = Cut(scopes, Depth - 1)
  BY DEF ReturnFromCall, LeaveScope
<1>4. CASE backend = "WebAssembly"
  <2>1. WasmReceived(i) = locals[i].value
    BY <1>2, <1>4 DEF WasmReceived, ReturnsLast, ReturnFromCall, Designates, Top
  <2>2. /\ slots' = Append(caller, locals[i].value)
        /\ locals' = Append(Outer, NewLocal(base, locals[i].value))
    BY <1>2, <1>4, <2>1 DEF ReturnFromCall, WasmResult
  <2>. QED
    BY <1>1, <1>2, <1>3, <2>2, LeavesOne DEF Outer, Kept
<1>5. CASE backend # "WebAssembly" /\ locals[i].index = 0
  <2>1. locals[i].value = Nil
    BY <1>2, <1>5 DEF Designates
  <2>2. slots' = caller /\ locals' = Append(Outer, NewLocal(0, Nil))
    BY <1>5, <2>1 DEF ReturnFromCall, LuaResults
  <2>. QED
    BY <1>1, <1>3, <2>2, LeavesNone DEF Outer, Kept
<1>6. CASE backend # "WebAssembly" /\ locals[i].index # 0
  <2>1. /\ slots' = caller \o <<ValueAt(i)>>
        /\ locals' = Append(Outer, NewLocal(Len(caller) + 1, locals[i].value))
    BY SMTT(30), <1>6 DEF ReturnFromCall, LuaResults
  <2>2. caller \o <<ValueAt(i)>> = Append(caller, ValueAt(i))
    BY <1>2
  <2>. QED
    BY <1>1, <1>2, <1>3, <2>1, <2>2, LeavesOne DEF Outer, Kept
<1>. QED
  BY <1>4, <1>5, <1>6

LEMMA CallNativeKeeps ==
  ASSUME StackInv, NEW f \in Visible, NEW passed \in Lists(Visible, 1),
         Depth < MaxScopes, Room(3 + Len(passed), Len(passed)), CallNative(f, passed)
  PROVE  Kept
<1>. DEFINE values == [n \in 1..Len(passed) |-> ValueAt(passed[n])]
            lua == backend = "Lua"
            func == ValueAt(f)
            below == IF lua THEN slots \o <<Handler, func>> ELSE slots \o <<Nil, Nil>>
            pushed == below \o values
            ret == IF lua THEN 0 ELSE Len(pushed) + 1
            sl == IF lua THEN pushed ELSE Append(pushed, Nil)
            s == NewScope("call", ret)
            new == [n \in 1..Len(values) |-> NewLocal(Top + 2 + n, values[n])]
<1>0. 1 \in Nat
  OBVIOUS
<1>1. /\ passed \in Seq(Visible) /\ Len(passed) \in 0..1
      /\ Top + 3 + Len(passed) <= MaxSlots /\ Len(locals) + Len(passed) <= MaxLocals
      /\ WellFormed(slots, scopes, locals) /\ func \in Slot
  <2>1. passed \in Seq(Visible) /\ Len(passed) \in 0..1
    BY <1>0, ListIs
  <2>2. f \in 1..Len(locals)
    BY DEF Visible
  <2>3. Top + 3 + Len(passed) <= MaxSlots /\ Len(locals) + Len(passed) <= MaxLocals
    BY <2>1, NowTyped DEF Room
  <2>. QED
    BY <2>1, <2>2, <2>3, LocalHas DEF StackInv
<1>2. values \in Seq(Slot) /\ Len(values) = Len(passed)
  <2>1. \A n \in 1..Len(passed) : ValueAt(passed[n]) \in Slot
    BY <1>1, LocalHas DEF Visible
  <2>. QED
    BY <1>1, <2>1
<1>3. below \in Seq(Slot) /\ Len(below) = Top + 2 /\ Extends(below, slots)
  <2>1. <<Handler, func>> \in Seq(Slot) /\ <<Nil, Nil>> \in Seq(Slot)
    BY <1>1, SlotHas
  <2>2. /\ Len(slots) + Len(<<Handler, func>>) <= MaxSlots
        /\ Len(slots) + Len(<<Nil, Nil>>) <= MaxSlots
    BY <1>1, NowTyped DEF Top
  <2>3. /\ Extends(slots \o <<Handler, func>>, slots) /\ Extends(slots \o <<Nil, Nil>>, slots)
    BY <2>1, <2>2, NowTyped, PushedValues
  <2>4. /\ Len(slots \o <<Handler, func>>) = Top + 2 /\ Len(slots \o <<Nil, Nil>>) = Top + 2
    BY <2>1, NowTyped, ConcatIs DEF Top
  <2>. QED
    BY <2>3, <2>4 DEF Extends
<1>4. /\ new \in Seq(Local) /\ Len(new) = Len(values)
      /\ \A n \in 1..Len(new) : Designates(pushed, new[n])
      /\ Extends(pushed, below) /\ Len(pushed) = Top + 2 + Len(passed)
  <2>1. /\ Len(below) + Len(values) <= MaxSlots /\ Top + 2 + Len(values) <= MaxSlots
        /\ Top + 2 = Len(below) /\ values \in Seq(Slot) /\ below \in Seq(Slot)
    BY <1>1, <1>2, <1>3, NowTyped
  <2>. HIDE DEF below, values
  <2>2. /\ new \in Seq(Local) /\ Len(new) = Len(values)
        /\ \A n \in 1..Len(new) : Designates(below \o values, new[n])
    BY <2>1, ManyDesignate
  <2>3. Extends(pushed, below) /\ Len(pushed) = Len(below) + Len(values)
    BY <2>1, PushedValues, ConcatIs
  <2>. QED
    BY <1>2, <1>3, <2>2, <2>3
<1>5. slots' = sl /\ scopes' = Append(scopes, s)
  BY <1>2 DEF CallNative, LuaCall, WasmCall
<1>6. locals' = locals \o new
  <2>2. (IF backend = "Lua" THEN LuaCall(ValueAt(f), values) ELSE WasmCall(Nil, values)).args = Top + 2
    BY DEF LuaCall, WasmCall
  <2>. QED
    BY <1>2, <2>2 DEF CallNative
<1>7. Extends(sl, pushed)
  <2>1. pushed \in Seq(Slot) /\ Len(pushed) + 1 <= MaxSlots
    BY SMTT(30), <1>1, <1>4, NowTyped DEF Extends
  <2>. HIDE DEF pushed
  <2>2. Extends(Append(pushed, Nil), pushed) /\ Extends(pushed, pushed)
    BY <2>1, PushedValue, SlotHas, NowTyped DEF Extends
  <2>. QED
    BY <2>2
<1>8. /\ s \in Scope /\ s.base = Len(slots) + 1 /\ s.outside = Len(locals)
  <2>0. Len(pushed) = Top + 2 + Len(passed)
    BY <1>4
  <2>. HIDE DEF pushed
  <2>1. ret \in 0..MaxSlots /\ Top + 1 \in 1..MaxSlots /\ Len(locals) \in 0..MaxLocals
    BY SMTT(30), <1>1, <2>0, NowTyped
  <2>. HIDE DEF ret
  <2>. QED
    BY <2>1 DEF NewScope, Scope, Top
<1>. HIDE DEF values, func, below, new, s, pushed
<1>9. WellFormed(below, Append(scopes, s), locals)
  <2>1. Len(scopes) < MaxScopes /\ Len(slots) + 1 <= Len(below)
    BY <1>3, NowTyped DEF Depth, Top
  <2>. QED
    BY <1>1, <1>3, <1>8, <2>1, OpenScope
<1>10. WellFormed(pushed, Append(scopes, s), locals \o new)
  <2>1. Len(locals) + Len(new) <= MaxLocals
    BY <1>1, <1>2, <1>4
  <2>. QED
    BY <1>4, <1>9, <2>1, Declare
<1>. HIDE DEF sl
<1>. QED
  BY <1>5, <1>6, <1>7, <1>10, DeclareNone DEF Kept

-----------------------------------------------------------------------------

LEMMA StackInitEstablishes == StackInit => StackInv
<1>. SUFFICES ASSUME StackInit PROVE StackInv
  OBVIOUS
<1>1. /\ slots \in Seq(Slot) /\ Len(slots) = 0 /\ scopes \in Seq(Scope) /\ Len(scopes) = 0
      /\ locals \in Seq(Local) /\ Len(locals) = 0
  BY DEF StackInit
<1>. QED
  BY <1>1, LocalStackAssumption
  DEF StackInv, WellFormed, Typed, AllDesignate, Nested, OutsideIsBelow

LEMMA StackInvKept == StackInv /\ [StackNext]_stackVars => StackInv'
<1>. SUFFICES ASSUME StackInv, [StackNext]_stackVars PROVE Kept
  BY DEF Kept, StackInv
<1>1. CASE UNCHANGED stackVars
  BY <1>1 DEF stackVars, StackInv, Kept
<1>2. ASSUME NEW i \in Visible,
             \/ Room(1, 1) /\ CopyLocal(i)
             \/ Room(0, 1) /\ (MoveLocal(i) \/ AliasLocal(i))
             \/ ResetLocal(i)
             \/ ReturnFromFrame(i) \/ ReturnFromCall(i)
      PROVE  Kept
  BY <1>2, CopyLocalKeeps, MoveLocalKeeps, AliasLocalKeeps, ResetLocalKeeps,
     ReturnFromFrameKeeps, ReturnFromCallKeeps
<1>3. ASSUME NEW f \in Visible, NEW passed \in Lists(Visible, 1), Depth < MaxScopes,
             Room(3 + Len(passed), Len(passed)), CallNative(f, passed)
      PROVE  Kept
  BY <1>3, CallNativeKeeps
<1>4. CASE StackNext
  BY <1>2, <1>3, <1>4, PushNewKeeps, AssignKeeps, EndLocalKeeps, GetKeysKeeps,
     OpenFrameKeeps, CloseFrameKeeps, CallScriptKeeps, ThrowKeeps
  DEF StackNext
<1>. QED
  BY <1>1, <1>4

(* Whatever a function pushes, calls, returns and throws, on a stack of    *)
(* any depth in Lua and WebAssembly: a Local is at a position of the stack *)
(* that has the value it was made for.                                     *)
THEOREM LocalsAlwaysDesignate == StackSpec => []LocalsDesignate
<1>1. StackSpec => []StackInv
  BY StackInitEstablishes, StackInvKept, PTL DEF StackSpec
<1>2. StackInv => LocalsDesignate
  BY DEF StackInv, WellFormed, AllDesignate, Designates, LocalsDesignate, Top
<1>. QED
  BY <1>1, <1>2, PTL

(* The stack, its scopes and its Locals are well-formed and within bounds: *)
(* no scope is closed below the slots of the one around it.                *)
THEOREM StackIsTyped == StackSpec => []StackTypeOK
<1>1. StackSpec => []StackInv
  BY StackInitEstablishes, StackInvKept, PTL DEF StackSpec
<1>2. StackInv => StackTypeOK
  BY DEF StackInv, WellFormed, Typed, StackTypeOK
<1>. QED
  BY <1>1, <1>2, PTL
=============================================================================
