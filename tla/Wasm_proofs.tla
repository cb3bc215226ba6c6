---------------------------- MODULE Wasm_proofs -----------------------------
(***************************************************************************)
(* WebAssembly, for any values, any numbers of references, any length of   *)
(* the stack and any depth of the calls: calls between C++ and JavaScript  *)
(* keep their promise in programs that do none of the Troubles, the        *)
(* entries behind script::Global and the memory behind ByteBuffers belong  *)
(* to what uses them.                                                      *)
(***************************************************************************)
EXTENDS WasmCalls, WasmReferences, WasmByteBuffers,
        SequenceTheorems, FiniteSetTheorems, TLAPS

-----------------------------------------------------------------------------
(***************************************************************************)
(* Calls between C++ and JavaScript.                                       *)
(***************************************************************************)

Passable == Values \cup {Undefined}
Answers  == [how : {"none", "value", "error"}, value : Passable]
Ways     == [op : Ops \cup {"none"}, made : Passable, saved : Seq(Passable)]
ScriptFrames ==
  [kind : {"script"}, via : Ways, passed : Seq(Values), asked : Seq(Values),
   phase : {"runs", "ended"}, got : Answers, sent : Answers]
NativeFrames ==
  [kind : {"native"}, via : Ways, base : Nat, argc : Nat, ret : Nat, entered : BOOLEAN,
   asked : Seq(Values), phase : {"runs", "ended"}, got : Answers, sent : Answers]
CallFrames == ScriptFrames \cup NativeFrames

(* Of the stack a function's caller has what is below Low; the function    *)
(* has found what is below Found, and leaves what is below High.           *)
Low(f)   == Len(f.via.saved)
Found(f) == IF f.via.op = "call" THEN Low(f) + 1 ELSE Low(f)
High(f)  == IF f.kind = "native" THEN f.ret ELSE Found(f)

Well(f) ==
  /\ f.phase = "runs" => f.sent = Nothing
  /\ f.phase = "ended" => /\ f.sent.how \in {"value", "error"}
                          /\ f.sent.how = "error" => f.via.op \notin {"is", "clear"}
  /\ f.via.made = IF f.via.op = "new" THEN f.asked[1] ELSE Undefined
  /\ f.kind = "script" => f.passed = f.asked
  /\ f.kind = "native" => /\ f.ret = f.base + f.argc /\ Len(f.asked) = f.argc
                          /\ f.via.op \notin {"is", "clear"}

IsRoot(f) ==
  /\ f.via.op = "none" /\ Low(f) = 0 /\ f.phase = "runs"
  /\ f.kind = "native" => f.ret = 0
IsInner(f) ==
  /\ f.kind = "script" => f.via.op # "none"
  /\ f.kind = "native" => f.base = Found(f) + 1 /\ f.argc >= 1

Placed(f, s) ==
  /\ High(f) <= Len(s)
  /\ \A k \in 1..Low(f) : s[k] = f.via.saved[k]
  /\ f.kind = "native" => \A k \in 1..f.argc : s[f.base + k - 1] = f.asked[k]

CallsTyped ==
  /\ slots \in Seq(Passable) /\ frames \in Seq(CallFrames) /\ Depth >= 1
  /\ jsPending = FALSE /\ cppPending \in BOOLEAN /\ terminated = FALSE

(* A function that made a call goes on from where it was.                  *)
Linked(g, f) ==
  /\ g.phase = "runs"
  /\ f.via.op = "none" <=> g.kind = "script"
  /\ g.kind = "script" => Low(f) = High(g)

AtTop ==
  /\ Caller.kind = "script" => Top = High(Caller)
  /\ Caller.kind = "native" /\ Caller.phase = "ended" => slots[Top] = Caller.sent.value
  /\ cppPending <=> Caller.kind = "native" /\ Caller.phase = "ended" /\ Caller.sent.how = "error"

CallsInv ==
  /\ CallsTyped
  /\ \A i \in 1..Depth : Well(frames[i]) /\ Placed(frames[i], slots)
  /\ IsRoot(frames[1]) /\ \A i \in 2..Depth : IsInner(frames[i])
  /\ \A i \in 2..Depth : Linked(frames[i - 1], frames[i])
  /\ \A i, j \in 1..Depth : i < j => High(frames[i]) <= Low(frames[j])
  /\ AtTop

-----------------------------------------------------------------------------
(* What every step does, in one of four ways.                              *)

Quietly == slots' \in Seq(Passable) /\ jsPending' = FALSE /\ terminated' = FALSE

Agree(n) == \A k \in 1..n : slots'[k] = slots[k]

(* C++ code pushes, or cuts back what it has pushed.                       *)
Works ==
  /\ Quietly /\ cppPending' = FALSE /\ frames' = frames
  /\ Bodied /\ High(Caller) <= Len(slots') /\ Agree(High(Caller))

(* A function is called.                                                   *)
Begins(f) ==
  /\ Quietly /\ cppPending' = FALSE
  /\ f \in CallFrames /\ Well(f) /\ IsInner(f) /\ Linked(Caller, f)
  /\ f.phase = "runs" /\ f.got = Nothing /\ frames' = Append(frames, f)
  /\ Placed(f, slots') /\ (f.kind = "script" => Len(slots') = High(f))
  /\ High(Caller) <= Low(f) /\ Low(f) <= Top /\ Agree(Low(f))

(* It returns or throws.                                                   *)
Finishes(o) ==
  /\ Quietly /\ cppPending' = (Caller.kind = "native" /\ o.how = "error")
  /\ Depth > 1 /\ Caller.phase = "runs"
  /\ o \in Answers /\ o.how # "none" /\ (o.how = "error" => Caller.via.op \notin {"is", "clear"})
  /\ frames' = [frames EXCEPT ![Depth].phase = "ended", ![Depth].sent = o]
  /\ High(Caller) <= Len(slots')
  /\ \A k \in 1..High(Caller) : Caller.kind = "script" \/ k # Caller.ret => slots'[k] = slots[k]
  /\ IF Caller.kind = "script" THEN Len(slots') = High(Caller)
     ELSE slots'[Len(slots')] = o.value

(* Its caller gets the result.                                             *)
GivesBack(o) ==
  /\ Quietly /\ cppPending' = FALSE
  /\ Depth > 1 /\ Caller.phase = "ended"
  /\ o \in Answers /\ o = Calls!Delivered(Abstracted[Depth], Caller.sent)
  /\ frames' = [Front(frames) EXCEPT ![Depth - 1].got = o]
  /\ Len(slots') - Low(Caller) \in IF Caller.via.op = "none" THEN {0} ELSE 0..1
  /\ Agree(Low(Caller))

-----------------------------------------------------------------------------
(* Frames and the stack.                                                   *)

LEMMA TypedFrame ==
  ASSUME NEW f \in CallFrames
  PROVE  /\ f.via \in Ways /\ f.asked \in Seq(Values) /\ f.phase \in {"runs", "ended"}
         /\ f.got \in Answers /\ f.sent \in Answers /\ f.kind \in {"script", "native"}
         /\ f.kind = "script" => f \in ScriptFrames
         /\ f.kind = "native" => f \in NativeFrames /\ f.base \in Nat /\ f.argc \in Nat /\ f.ret \in Nat
         /\ Low(f) \in Nat /\ Found(f) \in Nat /\ High(f) \in Nat
BY DEF CallFrames, ScriptFrames, NativeFrames, Ways, Low, Found, High

LEMMA LowIsLow ==
  ASSUME NEW f \in CallFrames, Well(f), IsRoot(f) \/ IsInner(f)
  PROVE  /\ Low(f) <= High(f)
         /\ f.kind = "native" => Low(f) < f.ret \/ (f.ret = 0 /\ Low(f) = 0 /\ f.argc = 0)
BY TypedFrame DEF Well, IsRoot, IsInner, Low, Found, High

(* What a function has stays as long as the stack below High does.         *)
LEMMA Stays ==
  ASSUME NEW f \in CallFrames, Well(f), IsRoot(f) \/ IsInner(f),
         NEW s, NEW t, Placed(f, s), High(f) <= Len(t),
         \A k \in 1..High(f) : f.kind = "script" \/ k # f.ret => t[k] = s[k]
  PROVE  Placed(f, t)
<1>1. \A k \in 1..Low(f) : t[k] = f.via.saved[k]
  BY TypedFrame, LowIsLow DEF Placed, High
<1>2. ASSUME f.kind = "native", NEW k \in 1..f.argc
      PROVE  t[f.base + k - 1] = f.asked[k]
  <2>1. f.ret = f.base + f.argc /\ f.base \in Nat /\ f.argc \in Nat /\ High(f) = f.ret
    BY <1>2, TypedFrame DEF Well, High
  <2>2. f.base >= 1
    BY <1>2, <2>1, TypedFrame, LowIsLow DEF IsInner, IsRoot
  <2>3. f.base + k - 1 \in 1..High(f) /\ f.base + k - 1 # f.ret
    BY <2>1, <2>2
  <2> QED BY <1>2, <2>3 DEF Placed
<1> QED BY <1>1, <1>2 DEF Placed

LEMMA TypedCalls ==
  ASSUME CallsInv
  PROVE  /\ slots \in Seq(Passable) /\ Top \in Nat /\ frames \in Seq(CallFrames)
         /\ Depth \in Nat \ {0} /\ Caller \in CallFrames
         /\ \A i \in 1..Depth : /\ frames[i] \in CallFrames /\ Well(frames[i])
                                /\ Placed(frames[i], slots)
                                /\ IsRoot(frames[i]) \/ IsInner(frames[i])
         /\ \A i \in 1..Depth : High(frames[i]) <= High(Caller)
         /\ \A i \in 1..(Depth - 1) : High(frames[i]) <= Low(Caller)
         /\ High(Caller) <= Top /\ Low(Caller) <= High(Caller)
<1>1. slots \in Seq(Passable) /\ Top \in Nat /\ frames \in Seq(CallFrames) /\ Depth \in Nat \ {0}
  BY DEF CallsInv, CallsTyped, Top, Depth
<1>2. \A i \in 1..Depth : frames[i] \in CallFrames
  BY <1>1 DEF Depth
<1>3. \A i \in 1..Depth : Well(frames[i]) /\ Placed(frames[i], slots)
  BY DEF CallsInv
<1>4. \A i \in 1..Depth : IsRoot(frames[i]) \/ IsInner(frames[i])
  BY <1>1 DEF CallsInv
<1>5. Caller \in CallFrames
  BY <1>1, <1>2 DEF Caller
<1>6. \A i \in 1..(Depth - 1) : High(frames[i]) <= Low(Caller)
  BY <1>1 DEF CallsInv, Caller
<1>7. Low(Caller) <= High(Caller)
  BY <1>1, <1>3, <1>4, <1>5, LowIsLow DEF Caller
<1>8. \A i \in 1..Depth : High(frames[i]) <= High(Caller)
  <2> SUFFICES ASSUME NEW i \in 1..Depth
               PROVE  High(frames[i]) <= High(Caller)
    OBVIOUS
  <2>1. CASE i = Depth
    BY <2>1, <1>5, TypedFrame DEF Caller
  <2>2. CASE i \in 1..(Depth - 1)
    <3>1. High(frames[i]) \in Nat /\ Low(Caller) \in Nat /\ High(Caller) \in Nat
      BY <1>2, <1>5, TypedFrame
    <3> QED BY <2>2, <3>1, <1>6, <1>7
  <2> QED BY <1>1, <2>1, <2>2
<1>9. High(Caller) <= Top
  BY <1>1, <1>3 DEF Caller, Placed, Top
<1> QED BY <1>1, <1>2, <1>3, <1>4, <1>5, <1>6, <1>7, <1>8, <1>9

LEMMA FrameIs ==
  ASSUME CallsInv, NEW i \in 1..Depth
  PROVE  /\ frames[i] \in CallFrames /\ Well(frames[i]) /\ Placed(frames[i], slots)
         /\ IsRoot(frames[i]) \/ IsInner(frames[i])
BY TypedCalls

LEMMA CallerIs ==
  ASSUME CallsInv
  PROVE  /\ Caller \in CallFrames /\ Well(Caller) /\ Placed(Caller, slots)
         /\ IsRoot(Caller) \/ IsInner(Caller)
<1>1. Depth \in 1..Depth
  BY TypedCalls
<1> QED BY <1>1, FrameIs DEF Caller

LEMMA FrameStays ==
  ASSUME CallsInv, NEW i \in 1..Depth, NEW t, High(frames[i]) <= Len(t),
         \A k \in 1..High(frames[i]) : t[k] = slots[k]
  PROVE  Placed(frames[i], t)
BY FrameIs, Stays

-----------------------------------------------------------------------------
(* Each of the four keeps the invariant.                                   *)

LEMMA WorksKeeps == CallsInv /\ Works => CallsInv'
<1> SUFFICES ASSUME CallsInv, Works
             PROVE  CallsInv'
  OBVIOUS
<1>1. CallsTyped'
  <2>1. frames' \in Seq(CallFrames) /\ Depth' >= 1
    BY TypedCalls DEF Works, Depth
  <2> QED BY <2>1 DEF Works, Quietly, CallsTyped
<1>2. Depth' = Depth /\ Caller' = Caller
  BY DEF Works, Depth, Caller
<1>3. ASSUME NEW i \in 1..Depth
      PROVE  Placed(frames[i], slots')
  <2>1. High(frames[i]) <= High(Caller) /\ High(frames[i]) \in Nat /\ High(Caller) \in Nat
    BY TypedCalls, TypedFrame
  <2>2. Len(slots') \in Nat
    BY DEF Works, Quietly
  <2>3. High(frames[i]) <= Len(slots') /\ \A k \in 1..High(frames[i]) : slots'[k] = slots[k]
    BY <2>1, <2>2 DEF Works, Agree
  <2> QED BY <2>3, FrameStays
<1>4. Caller.phase = "runs" /\ Caller.kind = "native"
  BY DEF Works, Bodied
<1>5. AtTop'
  BY <1>2, <1>4 DEF AtTop, Works
<1> QED BY <1>1, <1>2, <1>3, <1>5 DEF CallsInv, Works

LEMMA BeginsKeeps == ASSUME CallsInv, NEW f, Begins(f) PROVE CallsInv'
<1>1. f \in CallFrames /\ frames' = Append(frames, f) /\ slots' \in Seq(Passable)
  BY DEF Begins, Quietly
<1>2. /\ frames' \in Seq(CallFrames) /\ Depth' = Depth + 1
      /\ \A i \in 1..Depth : frames'[i] = frames[i]
      /\ frames'[Depth + 1] = f
  BY <1>1, TypedCalls, AppendProperties DEF Depth
<1>3. Depth \in Nat \ {0} /\ Len(slots') \in Nat /\ Caller' = f
  BY <1>1, <1>2, TypedCalls DEF Caller
<1>4. CallsTyped'
  <2>1. Depth' >= 1
    BY <1>2, <1>3
  <2> QED BY <1>2, <2>1 DEF Begins, Quietly, CallsTyped
<1>5. Low(f) \in Nat /\ High(f) \in Nat /\ Low(f) <= High(f) /\ High(f) <= Len(slots')
  BY <1>1, LowIsLow, TypedFrame DEF Begins, Placed
<1>6. \A i \in 1..Depth : High(frames[i]) \in Nat /\ High(frames[i]) <= Low(f)
  <2>1. \A i \in 1..Depth : High(frames[i]) \in Nat /\ High(Caller) \in Nat
    BY TypedCalls, TypedFrame
  <2> QED BY <2>1, <1>5, TypedCalls DEF Begins
<1>7. \A i \in 1..Depth : Placed(frames[i], slots')
  <2> SUFFICES ASSUME NEW i \in 1..Depth
               PROVE  Placed(frames[i], slots')
    OBVIOUS
  <2>1. \A k \in 1..High(frames[i]) : slots'[k] = slots[k]
    BY <1>5, <1>6 DEF Begins, Agree
  <2>2. High(frames[i]) <= Len(slots')
    BY <1>3, <1>5, <1>6
  <2> QED BY <2>1, <2>2, FrameStays
<1>8. \A i \in 1..Depth' : Well(frames'[i]) /\ Placed(frames'[i], slots')
  <2> SUFFICES ASSUME NEW i \in 1..(Depth + 1)
               PROVE  Well(frames'[i]) /\ Placed(frames'[i], slots')
    BY <1>2
  <2>1. CASE i = Depth + 1
    BY <2>1, <1>2 DEF Begins
  <2>2. CASE i \in 1..Depth
    BY <2>2, <1>2, <1>7, TypedCalls
  <2> QED BY <2>1, <2>2, <1>3
<1>9. IsRoot(frames'[1]) /\ \A i \in 2..Depth' : IsInner(frames'[i])
  <2>1. IsRoot(frames'[1])
    BY <1>2, <1>3 DEF CallsInv
  <2>2. ASSUME NEW i \in 2..(Depth + 1)
        PROVE  IsInner(frames'[i])
    <3>1. CASE i = Depth + 1
      BY <3>1, <1>2 DEF Begins
    <3>2. CASE i \in 2..Depth
      BY <3>2, <1>2, <1>3 DEF CallsInv
    <3> QED BY <3>1, <3>2, <1>3
  <2> QED BY <2>1, <2>2, <1>2
<1>10. \A i \in 2..Depth' : Linked(frames'[i - 1], frames'[i])
  <2> SUFFICES ASSUME NEW i \in 2..(Depth + 1)
               PROVE  Linked(frames'[i - 1], frames'[i])
    BY <1>2
  <2>1. CASE i = Depth + 1
    <3>1. frames'[i - 1] = Caller /\ frames'[i] = f
      BY <2>1, <1>2, <1>3 DEF Caller
    <3> QED BY <3>1 DEF Begins
  <2>2. CASE i \in 2..Depth
    <3>1. frames'[i - 1] = frames[i - 1] /\ frames'[i] = frames[i]
      BY <2>2, <1>2, <1>3
    <3> QED BY <2>2, <3>1 DEF CallsInv
  <2> QED BY <2>1, <2>2, <1>3
<1>11. \A i, j \in 1..Depth' : i < j => High(frames'[i]) <= Low(frames'[j])
  <2> SUFFICES ASSUME NEW i \in 1..(Depth + 1), NEW j \in 1..(Depth + 1), i < j
               PROVE  High(frames'[i]) <= Low(frames'[j])
    BY <1>2
  <2>1. i \in 1..Depth /\ frames'[i] = frames[i]
    BY <1>2, <1>3
  <2>2. CASE j = Depth + 1
    BY <2>1, <2>2, <1>2, <1>6
  <2>3. CASE j \in 1..Depth
    BY <2>1, <2>3, <1>2 DEF CallsInv
  <2> QED BY <2>2, <2>3, <1>3
<1>12. AtTop'
  <2>1. f.kind = "script" => Len(slots') = High(f)
    BY DEF Begins
  <2>2. f.phase = "runs" /\ cppPending' = FALSE
    BY DEF Begins
  <2> QED BY <1>3, <2>1, <2>2 DEF AtTop, Top
<1> QED BY <1>4, <1>8, <1>9, <1>10, <1>11, <1>12 DEF CallsInv

LEMMA FinishesKeeps == ASSUME CallsInv, NEW o, Finishes(o) PROVE CallsInv'
<1> DEFINE f == [Caller EXCEPT !.phase = "ended", !.sent = o]
<1>1. Caller \in CallFrames /\ Depth \in Nat \ {0} /\ Well(Caller) /\ o \in Answers
      /\ slots' \in Seq(Passable)
  <2>1. Caller \in CallFrames /\ Depth \in Nat \ {0} /\ Well(Caller)
    BY TypedCalls DEF Caller
  <2>2. o \in Answers /\ slots' \in Seq(Passable)
    BY DEF Finishes, Quietly
  <2> QED BY <2>1, <2>2
<1>2. /\ f \in CallFrames /\ f.kind = Caller.kind /\ f.via = Caller.via /\ f.asked = Caller.asked
      /\ f.phase = "ended" /\ f.sent = o
      /\ f.kind = "native" => f.base = Caller.base /\ f.argc = Caller.argc /\ f.ret = Caller.ret
      /\ f.kind = "script" => f.passed = Caller.passed
  <2>1. CASE Caller \in ScriptFrames
    BY <2>1, <1>1 DEF ScriptFrames, CallFrames
  <2>2. CASE Caller \in NativeFrames
    BY <2>2, <1>1 DEF NativeFrames, CallFrames
  <2> QED BY <1>1, <2>1, <2>2 DEF CallFrames
<1>3. Low(f) = Low(Caller) /\ High(f) = High(Caller)
  BY <1>2 DEF Low, High, Found
<1>4. Well(f)
  BY <1>1, <1>2 DEF Well, Finishes, Answers
<1>5. /\ frames' \in Seq(CallFrames) /\ Depth' = Depth
      /\ \A i \in 1..(Depth - 1) : frames'[i] = frames[i]
      /\ frames'[Depth] = f
  <2>1. frames' = [frames EXCEPT ![Depth] = f]
    BY TypedCalls DEF Finishes, Caller, Depth
  <2> QED BY <2>1, <1>1, <1>2, TypedCalls DEF Depth
<1>6. Caller' = f
  BY <1>5 DEF Caller
<1>7. Len(slots') \in Nat /\ High(Caller) \in Nat /\ High(Caller) <= Len(slots')
  BY <1>1, TypedFrame DEF Finishes
<1>8. CallsTyped'
  <2>1. Depth' >= 1
    BY <1>1, <1>5
  <2>2. cppPending' \in BOOLEAN /\ jsPending' = FALSE /\ terminated' = FALSE
    BY DEF Finishes, Quietly
  <2> QED BY <1>1, <1>5, <2>1, <2>2 DEF CallsTyped
<1>9. Placed(f, slots')
  <2>1. Placed(Caller, slots')
    <3>1. \A k \in 1..High(Caller) : Caller.kind = "script" \/ k # Caller.ret => slots'[k] = slots[k]
      BY DEF Finishes
    <3> QED BY <3>1, <1>7, CallerIs, Stays
  <2> QED BY <1>2, <1>3, <2>1 DEF Placed
<1>10. ASSUME NEW i \in 1..(Depth - 1)
       PROVE  Placed(frames[i], slots')
  <2>1. i \in 1..Depth /\ frames[i] \in CallFrames /\ High(frames[i]) \in Nat /\ Low(Caller) \in Nat
        /\ High(frames[i]) <= Low(Caller) /\ Low(Caller) <= High(Caller)
    BY <1>1, TypedCalls, TypedFrame
  <2>2. \A k \in 1..Low(Caller) : slots'[k] = slots[k]
    <3> SUFFICES ASSUME NEW k \in 1..Low(Caller)
                 PROVE  slots'[k] = slots[k]
      OBVIOUS
    <3>1. k \in 1..High(Caller)
      BY <2>1, <1>7
    <3>2. Caller.kind = "script" \/ k # Caller.ret
      <4>1. Caller.kind \in {"script", "native"} /\ (Caller.kind = "native" => Caller.ret \in Nat)
        BY <1>1, TypedFrame
      <4>2. IsRoot(Caller) \/ IsInner(Caller)
        BY <1>1, TypedCalls DEF Caller
      <4> QED BY <2>1, <4>1, <4>2, <1>1, LowIsLow
    <3> QED BY <3>1, <3>2 DEF Finishes
  <2>3. High(frames[i]) <= Len(slots') /\ \A k \in 1..High(frames[i]) : slots'[k] = slots[k]
    BY <2>1, <2>2, <1>7
  <2> QED BY <2>1, <2>3, FrameStays
<1>11. \A i \in 1..Depth' : Well(frames'[i]) /\ Placed(frames'[i], slots')
  <2> SUFFICES ASSUME NEW i \in 1..Depth
               PROVE  Well(frames'[i]) /\ Placed(frames'[i], slots')
    BY <1>5
  <2>1. CASE i = Depth
    BY <2>1, <1>4, <1>5, <1>9
  <2>2. CASE i \in 1..(Depth - 1)
    BY <2>2, <1>5, <1>10, TypedCalls
  <2> QED BY <2>1, <2>2, <1>1
<1>12. Depth > 1 /\ Caller.phase = "runs"
  BY DEF Finishes
<1>13. IsRoot(frames'[1]) /\ \A i \in 2..Depth' : IsInner(frames'[i])
  <2>1. IsRoot(frames'[1])
    BY <1>1, <1>5, <1>12 DEF CallsInv
  <2>2. IsInner(f)
    <3>1. IsInner(Caller)
      BY <1>1, <1>12 DEF CallsInv, Caller
    <3>2. Found(f) = Found(Caller)
      BY <1>2 DEF Found, Low
    <3> QED BY <3>1, <3>2, <1>2 DEF IsInner
  <2>3. ASSUME NEW i \in 2..Depth
        PROVE  IsInner(frames'[i])
    <3>1. CASE i = Depth
      BY <3>1, <1>5, <2>2
    <3>2. CASE i \in 2..(Depth - 1)
      BY <3>2, <1>1, <1>5 DEF CallsInv
    <3> QED BY <3>1, <3>2, <1>1
  <2> QED BY <2>1, <2>3, <1>5
<1>14. \A i \in 2..Depth' : Linked(frames'[i - 1], frames'[i])
  <2> SUFFICES ASSUME NEW i \in 2..Depth
               PROVE  Linked(frames'[i - 1], frames'[i])
    BY <1>5
  <2>1. Linked(frames[i - 1], frames[i]) /\ frames'[i - 1] = frames[i - 1]
    BY <1>1, <1>5 DEF CallsInv
  <2>2. CASE i = Depth
    <3>1. Linked(frames[i - 1], Caller)
      BY <2>1, <2>2 DEF Caller
    <3> QED BY <2>1, <2>2, <3>1, <1>2, <1>3, <1>5 DEF Linked
  <2>3. CASE i \in 2..(Depth - 1)
    BY <2>1, <2>3, <1>1, <1>5
  <2> QED BY <2>2, <2>3, <1>1
<1>15. \A i, j \in 1..Depth' : i < j => High(frames'[i]) <= Low(frames'[j])
  <2> SUFFICES ASSUME NEW i \in 1..Depth, NEW j \in 1..Depth, i < j
               PROVE  High(frames'[i]) <= Low(frames'[j])
    BY <1>5
  <2>1. i \in 1..(Depth - 1) /\ frames'[i] = frames[i] /\ High(frames[i]) <= Low(frames[j])
    BY <1>1, <1>5 DEF CallsInv
  <2>2. Low(frames'[j]) = Low(frames[j])
    <3>1. CASE j = Depth
      BY <3>1, <1>3, <1>5 DEF Caller
    <3>2. CASE j \in 1..(Depth - 1)
      BY <3>2, <1>5
    <3> QED BY <3>1, <3>2, <1>1
  <2> QED BY <2>1, <2>2
<1>16. AtTop'
  <2>1. f.kind = "script" => Top' = High(f)
    BY <1>2, <1>3 DEF Finishes, Top
  <2>2. f.kind = "native" => slots'[Top'] = o.value
    BY <1>2 DEF Finishes, Top
  <2>3. cppPending' <=> f.kind = "native" /\ o.how = "error"
    BY <1>2 DEF Finishes
  <2> QED BY <1>2, <1>6, <2>1, <2>2, <2>3 DEF AtTop
<1> QED BY <1>8, <1>11, <1>13, <1>14, <1>15, <1>16 DEF CallsInv

LEMMA AnsweredFrame ==
  ASSUME NEW g \in CallFrames, NEW o \in Answers, Well(g)
  PROVE  LET h == [g EXCEPT !.got = o] IN
         /\ h \in CallFrames /\ Well(h) /\ h.got = o
         /\ h.kind = g.kind /\ h.via = g.via /\ h.asked = g.asked /\ h.phase = g.phase /\ h.sent = g.sent
         /\ h.kind = "native" => h.base = g.base /\ h.argc = g.argc /\ h.ret = g.ret
         /\ h.kind = "script" => h.passed = g.passed
<1>1. CASE g \in ScriptFrames
  BY <1>1 DEF ScriptFrames, CallFrames, Well
<1>2. CASE g \in NativeFrames
  BY <1>2 DEF NativeFrames, CallFrames, Well
<1> QED BY <1>1, <1>2 DEF CallFrames

LEMMA GivenBack ==
  ASSUME CallsInv, NEW o, GivesBack(o)
  PROVE  /\ Depth \in Nat /\ Depth >= 2
         /\ frames' \in Seq(CallFrames) /\ Depth' = Depth - 1
         /\ \A i \in 1..(Depth - 2) : frames'[i] = frames[i]
         /\ frames'[Depth - 1] = [frames[Depth - 1] EXCEPT !.got = o]
         /\ Caller' = [frames[Depth - 1] EXCEPT !.got = o]
         /\ Len(slots') \in Nat /\ Low(Caller) \in Nat /\ Low(Caller) <= Len(slots')
<1>1. Depth \in Nat /\ Depth >= 2 /\ Caller \in CallFrames
  BY TypedCalls DEF GivesBack
<1>2. /\ frames \in Seq(CallFrames) /\ Len(frames) = Depth
      /\ frames[Depth - 1] \in CallFrames /\ Well(frames[Depth - 1])
  BY <1>1, TypedCalls DEF Depth
<1>3. Front(frames) \in Seq(CallFrames) /\ Len(Front(frames)) = Depth - 1
      /\ \A i \in 1..(Depth - 1) : Front(frames)[i] = frames[i]
  BY <1>1, <1>2 DEF Front
<1>4. frames' = [Front(frames) EXCEPT ![Depth - 1] = [frames[Depth - 1] EXCEPT !.got = o]]
  <2>1. Front(frames)[Depth - 1] = frames[Depth - 1]
    BY <1>1, <1>3
  <2>2. frames' = [Front(frames) EXCEPT ![Depth - 1].got = o]
    BY DEF GivesBack
  <2> QED BY <2>1, <2>2
<1>5. [frames[Depth - 1] EXCEPT !.got = o] \in CallFrames
  BY <1>2, AnsweredFrame DEF GivesBack
<1>6. /\ frames' \in Seq(CallFrames) /\ Len(frames') = Depth - 1
      /\ \A i \in 1..(Depth - 2) : frames'[i] = frames[i]
      /\ frames'[Depth - 1] = [frames[Depth - 1] EXCEPT !.got = o]
  BY <1>1, <1>3, <1>4, <1>5
<1>7. Low(Caller) \in Nat /\ Len(slots') \in Nat
  BY <1>1, TypedFrame DEF GivesBack, Quietly
<1>8. Low(Caller) <= Len(slots')
  BY <1>7 DEF GivesBack
<1> QED BY <1>1, <1>6, <1>7, <1>8 DEF Depth, Caller

LEMMA GivesBackKeeps == ASSUME CallsInv, NEW o, GivesBack(o) PROVE CallsInv'
<1> DEFINE g == frames[Depth - 1]
           h == [g EXCEPT !.got = o]
<1>1. /\ Depth \in Nat /\ Depth >= 2
      /\ frames' \in Seq(CallFrames) /\ Depth' = Depth - 1
      /\ \A i \in 1..(Depth - 2) : frames'[i] = frames[i]
      /\ frames'[Depth - 1] = h
      /\ Caller' = h
      /\ Len(slots') \in Nat /\ Low(Caller) \in Nat /\ Low(Caller) <= Len(slots')
  BY GivenBack
<1>2. g \in CallFrames /\ Well(g) /\ o \in Answers
  BY <1>1, TypedCalls DEF GivesBack
<1>3. /\ h \in CallFrames /\ Well(h) /\ h.got = o
      /\ h.kind = g.kind /\ h.via = g.via /\ h.asked = g.asked /\ h.phase = g.phase /\ h.sent = g.sent
      /\ h.kind = "native" => h.base = g.base /\ h.argc = g.argc /\ h.ret = g.ret
      /\ h.kind = "script" => h.passed = g.passed
  BY <1>2, AnsweredFrame
<1> HIDE DEF h
<1>4. Low(h) = Low(g) /\ High(h) = High(g) /\ Found(h) = Found(g)
  BY <1>3 DEF Low, High, Found
<1>5. Linked(g, Caller) /\ g.phase = "runs"
  BY <1>1 DEF CallsInv, Caller, Linked
<1>6. CallsTyped'
  <2>1. cppPending' \in BOOLEAN /\ jsPending' = FALSE /\ terminated' = FALSE /\ slots' \in Seq(Passable)
    BY DEF GivesBack, Quietly
  <2> QED BY <1>1, <2>1 DEF CallsTyped
<1>7. ASSUME NEW i \in 1..(Depth - 1)
      PROVE  Placed(frames[i], slots')
  <2>1. i \in 1..Depth /\ frames[i] \in CallFrames /\ High(frames[i]) \in Nat
        /\ High(frames[i]) <= Low(Caller)
    <3>1. i \in 1..Depth
      BY <1>1
    <3>2. High(frames[i]) <= Low(Caller)
      BY TypedCalls
    <3> QED BY <3>1, <3>2, FrameIs, TypedFrame
  <2>2. \A k \in 1..High(frames[i]) : slots'[k] = slots[k]
    BY <2>1, <1>1 DEF GivesBack, Agree
  <2>3. High(frames[i]) <= Len(slots')
    BY <2>1, <1>1
  <2> QED BY <2>1, <2>2, <2>3, FrameStays
<1>8. \A i \in 1..Depth' : Well(frames'[i]) /\ Placed(frames'[i], slots')
  <2> SUFFICES ASSUME NEW i \in 1..(Depth - 1)
               PROVE  Well(frames'[i]) /\ Placed(frames'[i], slots')
    BY <1>1
  <2>1. CASE i = Depth - 1
    <3>1. Placed(g, slots')
      BY <2>1, <1>7
    <3>2. Placed(h, slots')
      BY <3>1, <1>3, <1>4 DEF Placed
    <3> QED BY <3>2, <2>1, <1>1, <1>3
  <2>2. CASE i \in 1..(Depth - 2)
    <3>1. i \in 1..Depth /\ frames'[i] = frames[i] /\ Placed(frames[i], slots')
      BY <2>2, <1>1, <1>7
    <3> QED BY <3>1, FrameIs
  <2> QED BY <2>1, <2>2, <1>1
<1>9. IsRoot(g) => IsRoot(h)
  BY <1>3, <1>4 DEF IsRoot
<1>10. IsInner(g) => IsInner(h)
  BY <1>3, <1>4 DEF IsInner
<1>11. IsRoot(frames'[1])
  <2>1. IsRoot(frames[1])
    BY DEF CallsInv
  <2>2. CASE Depth = 2
    BY <2>1, <2>2, <1>1, <1>9
  <2>3. CASE Depth # 2
    BY <2>1, <2>3, <1>1
  <2> QED BY <2>2, <2>3
<1>12. \A i \in 2..Depth' : IsInner(frames'[i])
  <2> SUFFICES ASSUME NEW i \in 2..(Depth - 1)
               PROVE  IsInner(frames'[i])
    BY <1>1
  <2>1. IsInner(frames[i])
    BY <1>1 DEF CallsInv
  <2>2. CASE i = Depth - 1
    BY <2>1, <2>2, <1>1, <1>10
  <2>3. CASE i \in 1..(Depth - 2)
    BY <2>1, <2>3, <1>1
  <2> QED BY <2>2, <2>3, <1>1
<1>13. \A i \in 2..Depth' : Linked(frames'[i - 1], frames'[i])
  <2> SUFFICES ASSUME NEW i \in 2..(Depth - 1)
               PROVE  Linked(frames'[i - 1], frames'[i])
    BY <1>1
  <2>1. Linked(frames[i - 1], frames[i]) /\ frames'[i - 1] = frames[i - 1]
    <3>1. i \in 2..Depth /\ i - 1 \in 1..(Depth - 2)
      BY <1>1
    <3> QED BY <3>1, <1>1 DEF CallsInv
  <2>2. CASE i = Depth - 1
    <3>1. Linked(frames[i - 1], g) /\ frames'[i] = h
      BY <2>1, <2>2, <1>1
    <3> QED BY <2>1, <3>1, <1>3, <1>4 DEF Linked
  <2>3. CASE i \in 1..(Depth - 2)
    BY <2>1, <2>3, <1>1
  <2> QED BY <2>2, <2>3, <1>1
<1>14. \A i, j \in 1..Depth' : i < j => High(frames'[i]) <= Low(frames'[j])
  <2> SUFFICES ASSUME NEW i \in 1..(Depth - 1), NEW j \in 1..(Depth - 1), i < j
               PROVE  High(frames'[i]) <= Low(frames'[j])
    BY <1>1
  <2>1. i \in 1..(Depth - 2) /\ frames'[i] = frames[i] /\ High(frames[i]) <= Low(frames[j])
    BY <1>1 DEF CallsInv
  <2>2. Low(frames'[j]) = Low(frames[j])
    <3>1. CASE j = Depth - 1
      BY <3>1, <1>1, <1>4
    <3>2. CASE j \in 1..(Depth - 2)
      BY <3>2, <1>1
    <3> QED BY <3>1, <3>2, <1>1
  <2> QED BY <2>1, <2>2
<1>15. AtTop'
  <2>1. h.kind = "script" => Len(slots') = High(h)
    <3> SUFFICES ASSUME g.kind = "script"
                 PROVE  Len(slots') = High(g)
      BY <1>3, <1>4
    <3>1. Caller.via.op = "none" /\ Low(Caller) = High(g)
      BY <1>5 DEF Linked
    <3>2. Len(slots') - Low(Caller) = 0
      BY <3>1 DEF GivesBack
    <3> QED BY <3>1, <3>2, <1>1
  <2>2. h.phase = "runs" /\ cppPending' = FALSE
    BY <1>3, <1>5 DEF GivesBack
  <2> QED BY <1>1, <2>1, <2>2 DEF AtTop, Top
<1> QED BY <1>6, <1>8, <1>11, <1>12, <1>13, <1>14, <1>15 DEF CallsInv

-----------------------------------------------------------------------------
(* Sequences that are cut, and pushed.                                     *)

LEMMA CutIs ==
  ASSUME NEW S, NEW s \in Seq(S), NEW n \in 0..Len(s)
  PROVE  Cut(s, n) \in Seq(S) /\ Len(Cut(s, n)) = n /\ \A k \in 1..n : Cut(s, n)[k] = s[k]
BY SubSeqProperties DEF Cut

LEMMA JoinedIs ==
  ASSUME NEW S, NEW s \in Seq(S), NEW t \in Seq(S)
  PROVE  /\ s \o t \in Seq(S) /\ Len(s \o t) = Len(s) + Len(t) /\ Len(s) \in Nat /\ Len(t) \in Nat
         /\ \A k \in 1..Len(s) : (s \o t)[k] = s[k]
         /\ \A k \in 1..Len(t) : (s \o t)[Len(s) + k] = t[k]
BY ConcatProperties

LEMMA PartsAre ==
  ASSUME NEW S, NEW s \in Seq(S), NEW t \in Seq(S)
  PROVE  /\ s \o t \in Seq(S) /\ Len(s \o t) = Len(s) + Len(t)
         /\ Cut(s \o t, Len(s)) = s
         /\ SubSeq(s \o t, Len(s) + 1, Len(s \o t)) = t
<1> DEFINE u == s \o t
<1>1. /\ u \in Seq(S) /\ Len(u) = Len(s) + Len(t) /\ Len(s) \in Nat /\ Len(t) \in Nat
      /\ \A k \in 1..Len(s) : u[k] = s[k]
      /\ \A k \in 1..Len(t) : u[Len(s) + k] = t[k]
  BY ConcatProperties
<1> HIDE DEF u
<1>2. Cut(u, Len(s)) = s
  <2>1. Len(s) \in 0..Len(u)
    BY <1>1
  <2>2. /\ Cut(u, Len(s)) \in Seq(S) /\ Len(Cut(u, Len(s))) = Len(s)
        /\ \A k \in 1..Len(s) : Cut(u, Len(s))[k] = u[k]
    BY <1>1, <2>1, CutIs
  <2> QED BY <1>1, <2>2, SeqEqual
<1>3. SubSeq(u, Len(s) + 1, Len(u)) = t
  <2> DEFINE v == SubSeq(u, Len(s) + 1, Len(u))
  <2>1. v \in Seq(S) /\ Len(v) = Len(t) /\ \A k \in 1..Len(t) : v[k] = u[Len(s) + 1 + k - 1]
    BY <1>1, SubSeqProperties
  <2>2. \A k \in 1..Len(t) : v[k] = t[k]
    BY <1>1, <2>1
  <2> HIDE DEF v
  <2>3. v = t
    BY <2>1, <2>2, SeqEqual
  <2> QED BY <2>3 DEF v
<1> QED BY <1>1, <1>2, <1>3 DEF u

LEMMA OneMore ==
  ASSUME NEW S, NEW s \in Seq(S), NEW t \in Seq(S), Len(t) >= 1
  PROVE  Cut(s \o t, Len(s) + 1) = Append(s, t[1])
<1> DEFINE c == Cut(s \o t, Len(s) + 1)
           a == Append(s, t[1])
<1>1. /\ s \o t \in Seq(S) /\ Len(s \o t) = Len(s) + Len(t) /\ Len(s) \in Nat /\ Len(t) \in Nat
      /\ \A k \in 1..Len(s) : (s \o t)[k] = s[k]
      /\ (s \o t)[Len(s) + 1] = t[1]
  BY ConcatProperties
<1>2. Len(s) + 1 \in 0..Len(s \o t)
  BY <1>1
<1>3. c \in Seq(S) /\ Len(c) = Len(s) + 1 /\ \A k \in 1..(Len(s) + 1) : c[k] = (s \o t)[k]
  BY <1>1, <1>2, CutIs
<1>4. t[1] \in S
  BY <1>1
<1>5. a \in Seq(S) /\ Len(a) = Len(s) + 1 /\ a[Len(s) + 1] = t[1] /\ \A k \in 1..Len(s) : a[k] = s[k]
  BY <1>4, AppendProperties
<1> HIDE DEF a, c
<1>6. ASSUME NEW k \in 1..(Len(s) + 1)
      PROVE  c[k] = a[k]
  <2>1. CASE k = Len(s) + 1
    BY <2>1, <1>1, <1>3, <1>5
  <2>2. CASE k \in 1..Len(s)
    BY <2>2, <1>1, <1>3, <1>5
  <2> QED BY <2>1, <2>2, <1>1
<1>7. c = a
  BY <1>3, <1>5, <1>6, SeqEqual
<1> QED BY <1>7 DEF c, a

LEMMA HeadAndTail ==
  ASSUME NEW S, NEW s \in Seq(S), Len(s) >= 1
  PROVE  Tail(s) \in Seq(S) /\ <<s[1]>> \o Tail(s) = s
<1>1. s # << >> /\ Len(s) \in Nat /\ 1 \in 1..Len(s) /\ Len(s) \in 1..Len(s) /\ 1 + 1 = 2
  OBVIOUS
<1>2. Tail(s) \in Seq(S) /\ Tail(s) = SubSeq(s, 2, Len(s))
  BY <1>1, HeadTailProperties, TailIsSubSeq
<1>3. SubSeq(s, 1, Len(s)) = <<s[1]>> \o SubSeq(s, 1 + 1, Len(s))
  BY <1>1, SubSeqRecursiveFirst
<1>4. SubSeq(s, 1, Len(s)) = s
  BY SubSeqFull
<1> QED BY <1>1, <1>2, <1>3, <1>4

(* JavaScript code is given what was passed, and finds the stack as it was *)
(* but for the slot of callFunction's frame.                               *)
LEMMA PreparedIs ==
  ASSUME slots \in Seq(Passable), NEW op \in Ops, NEW passed \in Seq(Values), Len(passed) >= 1
  PROVE  /\ Prepared(op, passed).passed = passed
         /\ Prepared(op, passed).stack = IF op = "call" THEN Append(slots, Undefined) ELSE slots
<1>1. passed \in Seq(Passable) /\ Top \in Nat /\ Top = Len(slots)
  BY DEF Passable, Top
<1>2. CASE op = "call"
  <2> DEFINE two == <<Undefined, Func>>
             s == slots \o two
             t == two \o passed
  <2>1. two \in Seq(Passable) /\ Len(two) = 2 /\ two[1] = Undefined
    BY DEF Passable, Func
  <2> HIDE DEF two
  <2>2. s \in Seq(Passable) /\ Len(s) = Top + 2
    BY <1>1, <2>1, PartsAre
  <2>3. t \in Seq(Passable) /\ Len(t) >= 1 /\ t[1] = Undefined
    BY <1>1, <2>1, ConcatProperties
  <2>4. s \o passed = slots \o t
    <3>1. slots \in Seq(Passable) /\ two \in Seq(Passable) /\ passed \in Seq(Passable)
      BY <1>1, <2>1
    <3> QED BY <3>1, ConcatAssociative, SMTT(30)
  <2> HIDE DEF s, t
  <2>5. SubSeq(s \o passed, Top + 2 + 1, Len(s \o passed)) = passed
    BY <1>1, <2>2, PartsAre
  <2>6. Cut(s \o passed, Top + 1) = Append(slots, Undefined)
    BY <1>1, <2>3, <2>4, OneMore
  <2>7. (Top + 2) - 1 = Top + 1
    BY <1>1
  <2>8. CallPrepared(passed) = [stack  |-> Cut(s \o passed, (Top + 2) - 1),
                                passed |-> SubSeq(s \o passed, Top + 2 + 1, Len(s \o passed))]
    BY DEF CallPrepared, s, two
  <2>9. Prepared(op, passed) = CallPrepared(passed)
    BY <1>2 DEF Prepared
  <2>10. Prepared(op, passed) = [stack |-> Append(slots, Undefined), passed |-> passed]
    BY <2>5, <2>6, <2>7, <2>8, <2>9
  <2> QED BY <1>2, <2>10
<1>3. CASE op = "new"
  <2> DEFINE t == Tail(passed)
  <2>1. t \in Seq(Passable) /\ <<passed[1]>> \o t = passed
    BY <1>1, HeadAndTail
  <2> HIDE DEF t
  <2>2. Cut(slots \o t, Top) = slots /\ SubSeq(slots \o t, Top + 1, Len(slots \o t)) = t
    BY <1>1, <2>1, PartsAre
  <2>3. (Top + 1) - 1 = Top
    BY <1>1
  <2>4. NewPrepared(passed) = [stack  |-> Cut(slots \o t, (Top + 1) - 1),
                               passed |-> <<passed[1]>> \o SubSeq(slots \o t, Top + 1, Len(slots \o t))]
    BY DEF NewPrepared, t
  <2>5. Prepared(op, passed) = NewPrepared(passed)
    BY <1>3 DEF Prepared
  <2>6. Prepared(op, passed) = [stack |-> slots, passed |-> passed]
    BY <2>1, <2>2, <2>3, <2>4, <2>5
  <2> QED BY <1>3, <2>6
<1>4. CASE op \notin {"call", "new"}
  BY <1>4 DEF Prepared
<1> QED BY <1>2, <1>3, <1>4

-----------------------------------------------------------------------------
(* Each action is one of the four.                                         *)

LEMMA RunningCalls ==
  ASSUME CallsInv, Caller.phase = "runs"
  PROVE  cppPending = FALSE /\ jsPending = FALSE /\ terminated = FALSE
BY DEF CallsInv, CallsTyped, AtTop

LEMMA PushLocalWorks ==
  ASSUME CallsInv, NEW v \in Values, PushLocal(v)
  PROVE  Works
<1>1. slots \in Seq(Passable) /\ Top \in Nat /\ High(Caller) <= Top /\ High(Caller) \in Nat
  BY TypedCalls, TypedFrame
<1>2. slots' \in Seq(Passable) /\ Len(slots') = Top + 1 /\ \A k \in 1..Top : slots'[k] = slots[k]
  BY <1>1, AppendProperties DEF PushLocal, Passable, Top
<1>3. cppPending = FALSE /\ jsPending = FALSE /\ terminated = FALSE
  BY RunningCalls DEF PushLocal, Bodied
<1>4. High(Caller) <= Len(slots') /\ Agree(High(Caller))
  BY <1>1, <1>2 DEF Agree
<1> QED BY <1>2, <1>3, <1>4 DEF Works, Quietly, PushLocal

LEMMA EndFrameWorks ==
  ASSUME CallsInv, Bodied, NEW top \in Caller.ret..Top, EndFrame(top)
  PROVE  Works
<1>1. slots \in Seq(Passable) /\ Top \in Nat /\ Top = Len(slots) /\ High(Caller) = Caller.ret
      /\ Caller.ret \in Nat
  BY TypedCalls, TypedFrame DEF High, Bodied, Top
<1>2. top \in 0..Len(slots) /\ High(Caller) <= top
  BY <1>1
<1>3. slots' \in Seq(Passable) /\ Len(slots') = top /\ \A k \in 1..top : slots'[k] = slots[k]
  BY <1>1, <1>2, CutIs DEF EndFrame
<1>4. cppPending = FALSE /\ jsPending = FALSE
  BY RunningCalls DEF Bodied
<1>5. High(Caller) <= Len(slots') /\ Agree(High(Caller))
  BY <1>1, <1>2, <1>3 DEF Agree
<1> QED BY <1>3, <1>4, <1>5 DEF Works, Quietly, EndFrame

(* The wrapper finds what is passed, and the slot of the result, above all *)
(* that its callers have.                                                  *)
LEMMA InvokedBegins ==
  ASSUME CallsInv, Caller.phase = "runs",
         NEW op \in {"call", "new", "get", "set", "none"}, op = "none" <=> Caller.kind = "script",
         NEW passed \in Seq(Values), Len(passed) >= 1,
         Invoked(Op(op, passed[1]), IF op = "call" THEN Append(slots, Undefined) ELSE slots, passed, passed),
         UNCHANGED <<jsPending, cppPending, terminated>>
  PROVE  \E f : Begins(f)
<1> DEFINE via == Op(op, passed[1])
           s == IF op = "call" THEN Append(slots, Undefined) ELSE slots
           f == Native(via, Len(s) + 1, Len(s \o passed) - Len(s), ~InScope, passed)
<1>1. slots \in Seq(Passable) /\ Top \in Nat /\ Top = Len(slots) /\ Undefined \in Passable
      /\ passed \in Seq(Passable) /\ Len(passed) \in Nat /\ passed[1] \in Passable
  BY TypedCalls DEF Passable, Top
<1>2. /\ s \in Seq(Passable) /\ Len(s) = (IF op = "call" THEN Top + 1 ELSE Top)
      /\ \A k \in 1..Top : s[k] = slots[k]
  BY <1>1, AppendProperties
<1>3. via \in Ways /\ via.op = op /\ via.saved = slots
      /\ via.made = IF op = "new" THEN passed[1] ELSE Undefined
  BY <1>1 DEF Op, Ways, Ops
<1> HIDE DEF via, s
<1>4. /\ s \o passed \in Seq(Passable) /\ Len(s \o passed) = Len(s) + Len(passed) /\ Len(s) \in Nat
      /\ \A k \in 1..Len(s) : (s \o passed)[k] = s[k]
      /\ \A k \in 1..Len(passed) : (s \o passed)[Len(s) + k] = passed[k]
  <2>1. s \in Seq(Passable) /\ passed \in Seq(Passable)
    BY <1>1, <1>2
  <2> QED BY <2>1, JoinedIs
<1>5. /\ slots' = Append(s \o passed, Undefined) /\ frames' = Append(frames, f)
  BY DEF Invoked, via, s
<1>6. /\ slots' \in Seq(Passable) /\ Len(slots') = Len(s) + Len(passed) + 1
      /\ \A k \in 1..(Len(s) + Len(passed)) : slots'[k] = (s \o passed)[k]
  BY <1>1, <1>4, <1>5, AppendProperties
<1>7. /\ f.kind = "native" /\ f.via = via /\ f.base = Len(s) + 1 /\ f.argc = Len(passed)
      /\ f.ret = Len(s) + 1 + Len(passed) /\ f.asked = passed /\ f.phase = "runs"
      /\ f.got = Nothing /\ f.sent = Nothing /\ f.entered \in BOOLEAN
  BY <1>4 DEF Native, InScope
<1>8. f \in CallFrames
  <2>1. Nothing \in Answers
    BY <1>1 DEF Nothing, Answers
  <2>2. f = [kind |-> "native", via |-> via, base |-> f.base, argc |-> f.argc, ret |-> f.ret,
             entered |-> f.entered, asked |-> passed, phase |-> "runs", got |-> Nothing, sent |-> Nothing]
    BY <1>7 DEF Native
  <2>3. f.base \in Nat /\ f.argc \in Nat /\ f.ret \in Nat
    BY <1>1, <1>4, <1>7
  <2> HIDE DEF f
  <2>4. f \in NativeFrames
    BY <2>1, <2>2, <2>3, <1>3, <1>7 DEF NativeFrames
  <2> QED BY <2>4 DEF CallFrames
<1> HIDE DEF f
<1>9. Low(f) = Top /\ Found(f) = Len(s) /\ High(f) = Len(slots')
  BY <1>1, <1>2, <1>3, <1>4, <1>6, <1>7 DEF Low, Found, High
<1>10. Well(f)
  BY <1>3, <1>4, <1>7 DEF Well
<1>11. IsInner(f)
  BY <1>7, <1>9 DEF IsInner
<1>12. Linked(Caller, f)
  <2>1. Caller.kind = "script" => Low(f) = High(Caller)
    BY <1>9 DEF CallsInv, AtTop
  <2> QED BY <2>1, <1>3, <1>7 DEF Linked
<1>13. Agree(Low(f))
  <2> SUFFICES ASSUME NEW k \in 1..Top
               PROVE  slots'[k] = slots[k]
    BY <1>9 DEF Agree
  <2>1. k \in 1..Len(s) /\ k \in 1..(Len(s) + Len(passed))
    BY <1>1, <1>2
  <2> QED BY <2>1, <1>2, <1>4, <1>6
<1>14. Placed(f, slots')
  <2>1. \A k \in 1..Low(f) : slots'[k] = f.via.saved[k]
    BY <1>3, <1>7, <1>13 DEF Agree
  <2>2. ASSUME NEW k \in 1..f.argc
        PROVE  slots'[f.base + k - 1] = f.asked[k]
    <3>1. k \in 1..Len(passed) /\ Len(s) + k \in 1..(Len(s) + Len(passed)) /\ f.base + k - 1 = Len(s) + k
      BY <1>1, <1>4, <1>7
    <3>2. slots'[Len(s) + k] = (s \o passed)[Len(s) + k]
      BY <3>1, <1>6
    <3>3. (s \o passed)[Len(s) + k] = passed[k]
      BY <3>1, <1>4
    <3> QED BY <3>1, <3>2, <3>3, <1>7
  <2>3. High(f) <= Len(slots')
    BY <1>6, <1>9
  <2> QED BY <2>1, <2>2, <2>3 DEF Placed
<1>15. High(Caller) <= Low(f) /\ Low(f) <= Top
  BY <1>1, <1>9, TypedCalls
<1>16. Quietly /\ cppPending' = FALSE
  BY <1>6, RunningCalls DEF Quietly
<1>17. Begins(f)
  BY <1>5, <1>7, <1>8, <1>10, <1>11, <1>12, <1>13, <1>14, <1>15, <1>16 DEF Begins
<1> QED BY <1>17

LEMMA PassedIs ==
  ASSUME NEW this \in Values, NEW args \in Lists(1)
  PROVE  /\ <<this>> \o args \in Seq(Values) /\ Len(<<this>> \o args) >= 1
         /\ (<<this>> \o args)[1] = this
<1>1. args \in Seq(Values) /\ Len(args) \in Nat
  <2>1. PICK m \in 0..1 : args \in [1..m -> Values]
    BY DEF Lists
  <2> QED BY <2>1
<1>2. <<this>> \in Seq(Values) /\ Len(<<this>>) = 1 /\ <<this>>[1] = this
  OBVIOUS
<1>3. 1 \in 1..Len(<<this>>)
  OBVIOUS
<1> DEFINE t == <<this>>
<1> HIDE DEF t
<1>4. /\ t \o args \in Seq(Values) /\ Len(t \o args) = Len(t) + Len(args)
      /\ \A k \in 1..Len(t) : (t \o args)[k] = t[k]
  <2>1. t \in Seq(Values)
    BY <1>2 DEF t
  <2> QED BY <2>1, <1>1, JoinedIs
<1>5. Len(t) = 1 /\ t[1] = this /\ 1 \in 1..Len(t)
  BY <1>2, <1>3 DEF t
<1>6. /\ t \o args \in Seq(Values) /\ Len(t \o args) >= 1 /\ (t \o args)[1] = this
  BY <1>1, <1>4, <1>5
<1> QED BY <1>6 DEF t

LEMMA CallsNativeBegins ==
  ASSUME CallsInv, NEW op \in Ops, NEW passed \in Seq(Values), Len(passed) >= 1,
         CallsNative(op, passed)
  PROVE  \E f : Begins(f)
<1>1. slots \in Seq(Passable)
  BY TypedCalls
<1>2. /\ Prepared(op, passed).passed = passed
      /\ Prepared(op, passed).stack = IF op = "call" THEN Append(slots, Undefined) ELSE slots
  BY <1>1, PreparedIs
<1>3. Invoked(Op(op, passed[1]), Prepared(op, passed).stack, Prepared(op, passed).passed, passed)
  BY DEF CallsNative
<1>4. Invoked(Op(op, passed[1]), IF op = "call" THEN Append(slots, Undefined) ELSE slots, passed, passed)
  BY <1>2, <1>3
<1>5. op \in {"call", "new", "get", "set", "none"} /\ op # "none"
  BY DEF CallsNative
<1>6. Caller.phase = "runs" /\ Caller.kind = "native" /\ UNCHANGED <<jsPending, cppPending, terminated>>
  BY DEF CallsNative, Bodied
<1> QED BY <1>4, <1>5, <1>6, InvokedBegins

LEMMA ScriptCallsBegins ==
  ASSUME CallsInv, NEW passed \in Seq(Values), Len(passed) >= 1, ScriptCalls(passed)
  PROVE  \E f : Begins(f)
<1>1. Op("none", passed[1]) = ByScript
  BY DEF Op, ByScript
<1>2. Invoked(Op("none", passed[1]), IF "none" = "call" THEN Append(slots, Undefined) ELSE slots, passed, passed)
  BY <1>1 DEF ScriptCalls
<1>3. Caller.phase = "runs" /\ Caller.kind = "script" /\ UNCHANGED <<jsPending, cppPending, terminated>>
  BY DEF ScriptCalls, Scripted
<1> QED BY <1>2, <1>3, InvokedBegins

LEMMA CallsScriptBegins ==
  ASSUME CallsInv, NEW op \in Ops, NEW passed \in Seq(Values), Len(passed) >= 1,
         CallsScript(op, passed)
  PROVE  \E f : Begins(f)
<1> DEFINE via == Op(op, passed[1])
           f == Script(via, passed, passed)
<1>1. slots \in Seq(Passable) /\ Top \in Nat /\ Top = Len(slots) /\ Undefined \in Passable
      /\ passed[1] \in Passable
  BY TypedCalls DEF Passable, Top
<1>2. /\ Prepared(op, passed).passed = passed
      /\ Prepared(op, passed).stack = IF op = "call" THEN Append(slots, Undefined) ELSE slots
  BY <1>1, PreparedIs
<1>3. /\ slots' = (IF op = "call" THEN Append(slots, Undefined) ELSE slots)
      /\ frames' = Append(frames, f)
  BY <1>2 DEF CallsScript
<1>4. via \in Ways /\ via.op = op /\ via.saved = slots /\ op # "none"
      /\ via.made = IF op = "new" THEN passed[1] ELSE Undefined
  BY <1>1 DEF Op, Ways, Ops
<1> HIDE DEF via
<1>5. /\ f.kind = "script" /\ f.via = via /\ f.passed = passed /\ f.asked = passed
      /\ f.phase = "runs" /\ f.got = Nothing /\ f.sent = Nothing
  BY DEF Script
<1>6. f \in CallFrames
  <2>1. Nothing \in Answers
    BY <1>1 DEF Nothing, Answers
  <2>2. f \in ScriptFrames
    BY <2>1, <1>4 DEF Script, ScriptFrames
  <2> QED BY <2>2 DEF CallFrames
<1> HIDE DEF f
<1>7. /\ slots' \in Seq(Passable) /\ Len(slots') = (IF op = "call" THEN Top + 1 ELSE Top)
      /\ \A k \in 1..Top : slots'[k] = slots[k]
  BY <1>1, <1>3, AppendProperties
<1>8. Low(f) = Top /\ High(f) = Len(slots')
  BY <1>1, <1>4, <1>5, <1>7 DEF Low, Found, High
<1>9. Well(f) /\ IsInner(f)
  BY <1>4, <1>5 DEF Well, IsInner
<1>10. Caller.phase = "runs" /\ Caller.kind = "native"
  BY DEF CallsScript, Bodied
<1>11. Linked(Caller, f)
  BY <1>4, <1>5, <1>10 DEF Linked
<1>12. Agree(Low(f))
  BY <1>7, <1>8 DEF Agree
<1>13. Placed(f, slots')
  BY <1>1, <1>4, <1>5, <1>7, <1>8 DEF Placed
<1>14. High(Caller) <= Low(f) /\ Low(f) <= Top
  BY <1>1, <1>8, TypedCalls
<1>15. Quietly /\ cppPending' = FALSE
  BY <1>7, <1>10, RunningCalls DEF Quietly, CallsScript
<1>16. Begins(f)
  BY <1>3, <1>5, <1>6, <1>8, <1>9, <1>11, <1>12, <1>13, <1>14, <1>15 DEF Begins
<1> QED BY <1>16

LEMMA InnerCaller ==
  ASSUME CallsInv, Depth > 1
  PROVE  /\ IsInner(Caller) /\ Linked(frames[Depth - 1], Caller)
         /\ Caller.kind = "native" => /\ Caller.ret \in Nat /\ Caller.ret >= 1 /\ Caller.ret <= Top
                                      /\ High(Caller) = Caller.ret
<1>1. Depth \in Nat /\ Caller \in CallFrames
  BY TypedCalls
<1>2. Depth \in 2..Depth
  BY <1>1
<1>3. IsInner(Caller) /\ Linked(frames[Depth - 1], Caller)
  BY <1>2 DEF CallsInv, Caller
<1>4. ASSUME Caller.kind = "native"
      PROVE  Caller.ret \in Nat /\ Caller.ret >= 1 /\ Caller.ret <= Top /\ High(Caller) = Caller.ret
  <2>1. High(Caller) = Caller.ret /\ Caller.ret \in Nat /\ Low(Caller) \in Nat
    BY <1>1, <1>4, TypedFrame DEF High
  <2>2. Caller.ret <= Top
    BY <2>1, TypedCalls
  <2>3. Caller.ret # 0
    <3>1. Caller.base = Found(Caller) + 1 /\ Caller.ret = Caller.base + Caller.argc /\ Found(Caller) \in Nat
          /\ Caller.argc \in Nat
      <4>1. Well(Caller)
        BY <1>1, TypedCalls DEF Caller
      <4>2. Found(Caller) \in Nat /\ Caller.argc \in Nat
        BY <1>1, <1>4, TypedFrame
      <4> QED BY <4>1, <4>2, <1>3, <1>4 DEF IsInner, Well
    <3> QED BY <3>1
  <2> QED BY <2>1, <2>2, <2>3
<1> QED BY <1>3, <1>4

LEMMA NativeReturnsFinishes ==
  ASSUME Troubles = {}, CallsInv, NEW i \in 0..Top, NativeReturns(i)
  PROVE  \E o : Finishes(o)
<1> DEFINE v == IF i = 0 THEN Undefined ELSE slots[i]
           o == [how |-> "value", value |-> v]
           s == [slots EXCEPT ![Caller.ret] = v]
<1>1. /\ slots \in Seq(Passable) /\ Top \in Nat /\ Top = Len(slots)
      /\ Caller.kind = "native" /\ Caller.phase = "runs" /\ Depth > 1
  BY TypedCalls DEF Top, NativeReturns, Bodied
<1>2. v \in Passable
  BY <1>1 DEF Passable
<1>3. o \in Answers /\ o.how = "value" /\ o.value = v
  BY <1>2 DEF Answers
<1>4. Caller.ret \in Nat /\ Caller.ret >= 1 /\ Caller.ret <= Top /\ High(Caller) = Caller.ret
  BY <1>1, InnerCaller
<1>5. slots' = IF Caller.entered THEN Cut(s, Caller.ret) ELSE s
  BY DEF NativeReturns, Returned
<1>6. i = Top => i # 0 /\ v = slots[Top]
  BY <1>1, <1>4
<1>7. frames' = [frames EXCEPT ![Depth].phase = "ended", ![Depth].sent = o]
  BY DEF NativeReturns, Ended
<1>8. Caller.entered \/ i = Top \/ Top = Caller.ret
  BY DEF NativeReturns
<1> HIDE DEF v, o
<1>9. /\ s \in Seq(Passable) /\ Len(s) = Top /\ s[Caller.ret] = v
      /\ \A k \in 1..Top : k # Caller.ret => s[k] = slots[k]
  BY <1>1, <1>2, <1>4
<1> HIDE DEF s
<1>10. /\ slots' \in Seq(Passable) /\ Len(slots') \in Nat /\ Caller.ret <= Len(slots') /\ Len(slots') <= Top
       /\ \A k \in 1..Len(slots') : slots'[k] = s[k]
       /\ slots'[Len(slots')] = v
  <2>1. CASE Caller.entered
    <3>1. slots' = Cut(s, Caller.ret)
      BY <2>1, <1>5
    <3>2. Caller.ret \in 0..Len(s)
      BY <1>4, <1>9
    <3>3. slots' \in Seq(Passable) /\ Len(slots') = Caller.ret /\ \A k \in 1..Caller.ret : slots'[k] = s[k]
      BY <3>1, <3>2, <1>9, CutIs
    <3>4. slots'[Caller.ret] = s[Caller.ret]
      BY <3>3, <1>4
    <3> QED BY <3>3, <3>4, <1>4, <1>9
  <2>2. CASE ~Caller.entered
    <3>1. slots' = s
      BY <2>2, <1>5
    <3>2. s[Top] = v
      <4>1. CASE Top = Caller.ret
        BY <4>1, <1>9
      <4>2. CASE i = Top
        BY <4>2, <1>1, <1>4, <1>6, <1>9
      <4> QED BY <4>1, <4>2, <2>2, <1>8
    <3> QED BY <3>1, <3>2, <1>1, <1>4, <1>9
  <2> QED BY <2>1, <2>2
<1>11. \A k \in 1..High(Caller) : Caller.kind = "script" \/ k # Caller.ret => slots'[k] = slots[k]
  <2> SUFFICES ASSUME NEW k \in 1..Caller.ret, k # Caller.ret
               PROVE  slots'[k] = slots[k]
    BY <1>1, <1>4
  <2>1. k \in 1..Len(slots') /\ k \in 1..Top
    BY <1>1, <1>4, <1>10
  <2> QED BY <2>1, <1>9, <1>10
<1>12. cppPending' = FALSE /\ jsPending' = FALSE /\ terminated' = FALSE
  BY <1>1, RunningCalls DEF NativeReturns
<1>13. Finishes(o)
  BY <1>1, <1>3, <1>4, <1>7, <1>10, <1>11, <1>12 DEF Finishes, Quietly
<1> QED BY <1>13

LEMMA NativeThrowsFinishes ==
  ASSUME Troubles = {}, CallsInv, NEW v \in Values, NativeThrows(v)
  PROVE  \E o : Finishes(o)
<1> DEFINE o == [how |-> "error", value |-> v]
           t == <<v, v>>
<1>1. /\ slots \in Seq(Passable) /\ Top \in Nat /\ Top = Len(slots)
      /\ Caller.kind = "native" /\ Caller.phase = "runs" /\ Depth > 1 /\ Caller.entered = FALSE
  <2>1. Caller.entered \in BOOLEAN
    BY TypedCalls DEF NativeThrows, Bodied, CallFrames, NativeFrames, ScriptFrames
  <2> QED BY <2>1, TypedCalls DEF Top, NativeThrows, Bodied
<1>2. o \in Answers /\ o.how = "error" /\ o.value = v
  BY DEF Answers, Passable
<1>3. Caller.ret \in Nat /\ Caller.ret >= 1 /\ Caller.ret <= Top /\ High(Caller) = Caller.ret
  BY <1>1, InnerCaller
<1>4. slots' = slots \o t /\ cppPending' = TRUE /\ jsPending' = FALSE /\ terminated' = FALSE
      /\ frames' = [frames EXCEPT ![Depth].phase = "ended", ![Depth].sent = o]
  BY <1>1, RunningCalls DEF NativeThrows, Ended
<1>5. t \in Seq(Passable) /\ Len(t) = 2 /\ t[2] = v
  BY DEF Passable
<1> HIDE DEF t, o
<1>6. /\ slots' \in Seq(Passable) /\ Len(slots') = Top + 2 /\ \A k \in 1..Top : slots'[k] = slots[k]
      /\ slots'[Top + 2] = v
  <2>1. /\ slots \o t \in Seq(Passable) /\ Len(slots \o t) = Len(slots) + Len(t)
        /\ \A k \in 1..Len(slots) : (slots \o t)[k] = slots[k]
        /\ \A k \in 1..Len(t) : (slots \o t)[Len(slots) + k] = t[k]
    <3>1. slots \in Seq(Passable) /\ t \in Seq(Passable)
      BY <1>1, <1>5
    <3> QED BY <3>1, JoinedIs
  <2>2. 2 \in 1..Len(t)
    BY <1>5
  <2> QED BY <2>1, <2>2, <1>1, <1>4, <1>5
<1>7. Caller.via.op \notin {"is", "clear"}
  BY <1>1, TypedCalls DEF Well, Caller
<1>8. /\ High(Caller) <= Len(slots') /\ \A k \in 1..High(Caller) : slots'[k] = slots[k]
      /\ slots'[Len(slots')] = v
  BY <1>1, <1>3, <1>6
<1>9. Finishes(o)
  BY <1>1, <1>2, <1>4, <1>6, <1>7, <1>8 DEF Finishes, Quietly
<1> QED BY <1>9

LEMMA ScriptEndsFinishes ==
  ASSUME Troubles = {}, CallsInv, NEW how \in {"value", "error"}, NEW v \in Values \cup {Undefined},
         ScriptEnds([how |-> how, value |-> v])
  PROVE  \E o : Finishes(o)
<1> DEFINE o == [how |-> how, value |-> v]
<1>1. o \in Answers /\ o.how = how
  BY DEF Answers, Passable
<1>2. /\ Caller.kind = "script" /\ Caller.phase = "runs" /\ Depth > 1 /\ slots' = slots
      /\ o.how = "error" => Caller.via.op \notin {"is", "clear"}
      /\ frames' = [frames EXCEPT ![Depth].phase = "ended", ![Depth].sent = o]
  BY DEF ScriptEnds, Scripted, Ended
<1> HIDE DEF o
<1>3. slots \in Seq(Passable) /\ Top = Len(slots) /\ Top = High(Caller) /\ Top \in Nat
  BY <1>2, TypedCalls DEF CallsInv, AtTop, Top
<1>4. cppPending' = FALSE /\ jsPending' = FALSE /\ terminated' = FALSE
  BY <1>2, RunningCalls DEF ScriptEnds
<1>5. /\ High(Caller) <= Len(slots') /\ Len(slots') = High(Caller)
      /\ \A k \in 1..High(Caller) : slots'[k] = slots[k]
  BY <1>2, <1>3
<1>6. Quietly /\ cppPending' = (Caller.kind = "native" /\ o.how = "error")
  BY <1>2, <1>3, <1>4 DEF Quietly
<1>7. Finishes(o)
  BY <1>1, <1>2, <1>5, <1>6 DEF Finishes
<1> QED BY <1>7

(* The caller gets what the function has sent, with the object made when a *)
(* constructor returns nothing.                                            *)
LEMMA CheckedIs ==
  ASSUME CallsInv, Depth > 1, Caller.phase = "ended", Caller.via.op # "none", NEW s,
         NEW got, got = CheckedOutcome(Caller.via, Pushed(Caller.via, s, Caller.sent),
                                       Caller.sent.how = "error", Caller.sent),
         s \in Seq(Passable)
  PROVE  /\ got \in Answers /\ got = Calls!Delivered(Abstracted[Depth], Caller.sent)
         /\ (got.how = "error") = (Caller.sent.how = "error")
         /\ Caller.sent.how = "error" => Checked(Caller.via.op) /\ ~NoExcept(Caller.via.op)
         /\ Pushed(Caller.via, s, Caller.sent) =
              IF got.how = "error" \/ Pushes(Caller.via.op) THEN Append(s, got.value) ELSE s
<1> DEFINE f == Caller.via
           o == Caller.sent
<1>1. /\ Caller \in CallFrames /\ Well(Caller) /\ f \in Ways /\ o \in Answers /\ Depth \in Nat /\ Depth >= 2
      /\ o.how \in {"value", "error"} /\ (o.how = "error" => f.op \notin {"is", "clear"})
  <2>1. Caller \in CallFrames /\ Well(Caller) /\ Depth \in Nat /\ Depth >= 2
    BY TypedCalls DEF Caller
  <2> QED BY <2>1, TypedFrame DEF Well
<1>2. f.op \in Ops /\ f.made = IF f.op = "new" THEN Caller.asked[1] ELSE Undefined
  BY <1>1 DEF Ways, Well
<1>3. Abstracted[Depth] = [wants |-> Wants(f.op), passed |-> Caller.asked, got |-> Caller.got, sent |-> o]
  BY <1>1 DEF Abstracted, WantsOf, Caller
<1>4. o = [how |-> o.how, value |-> o.value] /\ o.value \in Passable /\ Undefined \in Passable
      /\ f.made \in Passable
  BY <1>1 DEF Answers, Passable, Ways
<1> HIDE DEF o, f
<1>5. CASE o.how = "error"
  <2>1. Pushed(f, s, o) = Append(s, o.value) /\ Checked(f.op) /\ ~NoExcept(f.op)
    BY <1>1, <1>5 DEF Pushed, Checked, NoExcept
  <2>2. Last(Append(s, o.value)) = o.value
    BY <1>4, AppendProperties DEF Last
  <2>3. got = [how |-> "error", value |-> o.value]
    BY <2>1, <2>2, <1>5 DEF CheckedOutcome, f, o
  <2>4. Calls!Delivered(Abstracted[Depth], o) = o
    BY <1>5 DEF Calls!Delivered
  <2>5. got = o
    BY <2>3, <1>4, <1>5
  <2> QED BY <2>1, <2>4, <2>5, <1>1, <1>5 DEF f, o
<1>6. CASE o.how = "value"
  <2>1. got = [how |-> "value", value |-> IF Pushes(f.op) THEN Result(f, o) ELSE Undefined]
    BY <1>6 DEF CheckedOutcome, f, o
  <2>2. Result(f, o) \in Passable
    BY <1>4 DEF Result
  <2>3. got \in Answers /\ got.how = "value"
    BY <2>1, <2>2, <1>4 DEF Answers
  <2>4. Pushed(f, s, o) = IF Pushes(f.op) THEN Append(s, got.value) ELSE s
    BY <2>1, <1>6 DEF Pushed
  <2>5. got = Calls!Delivered(Abstracted[Depth], o)
    <3>1. CASE f.op \in {"set", "is", "clear"}
      <4>1. ~Pushes(f.op) /\ Wants(f.op) = "nothing"
        BY <3>1 DEF Pushes, Wants
      <4>2. Calls!Delivered(Abstracted[Depth], o) = [o EXCEPT !.value = Undefined]
        BY <4>1, <1>3, <1>6 DEF Calls!Delivered
      <4>3. [o EXCEPT !.value = Undefined] = [how |-> "value", value |-> Undefined]
        BY <1>4, <1>6
      <4> QED BY <2>1, <4>1, <4>2, <4>3
    <3>2. CASE f.op = "new"
      <4>1. Pushes(f.op) /\ Wants(f.op) = "object" /\ f.made = Caller.asked[1]
        BY <3>2, <1>2 DEF Pushes, Wants
      <4>2. Calls!Delivered(Abstracted[Depth], o) =
              IF o.value = Undefined THEN [o EXCEPT !.value = Caller.asked[1]] ELSE o
        BY <4>1, <1>3, <1>6 DEF Calls!Delivered
      <4>3. [o EXCEPT !.value = Caller.asked[1]] = [how |-> "value", value |-> Caller.asked[1]]
        BY <1>4, <1>6
      <4> QED BY <2>1, <4>1, <4>2, <4>3, <1>4, <1>6 DEF Result
    <3>3. CASE f.op \in {"call", "get"}
      <4>1. Pushes(f.op) /\ Wants(f.op) = "value" /\ f.made = Undefined
        BY <3>3, <1>2 DEF Pushes, Wants
      <4>2. Calls!Delivered(Abstracted[Depth], o) = o
        BY <4>1, <1>3, <1>6 DEF Calls!Delivered
      <4>3. Result(f, o) = o.value
        BY <4>1 DEF Result
      <4> QED BY <2>1, <4>1, <4>2, <4>3, <1>4, <1>6
    <3> QED BY <3>1, <3>2, <3>3, <1>2 DEF Ops
  <2> QED BY <2>3, <2>4, <2>5, <1>6 DEF f, o
<1> QED BY <1>1, <1>5, <1>6 DEF o

LEMMA ArriveGivesBack ==
  ASSUME CallsInv, Depth > 1, Caller.phase = "ended", NEW s, s = Cut(slots, Found(Caller)),
         Arrive(s, Caller.sent), cppPending' = FALSE
  PROVE  \E o : GivesBack(o)
<1> DEFINE f == Caller.via
           sent == Caller.sent
           got == CheckedOutcome(f, Pushed(f, s, sent), sent.how = "error", sent)
<1>1. /\ slots \in Seq(Passable) /\ Top \in Nat /\ Top = Len(slots) /\ Caller \in CallFrames
      /\ Low(Caller) \in Nat /\ Found(Caller) \in Nat /\ Low(Caller) = Len(f.saved)
      /\ sent \in Answers /\ f \in Ways
  BY TypedCalls, TypedFrame DEF Top, Low
<1>2. Well(Caller) /\ sent.how \in {"value", "error"}
  BY TypedCalls DEF Well, Caller
<1>3. Found(Caller) \in 0..Len(slots) /\ Low(Caller) <= Found(Caller)
  <2>1. Found(Caller) <= High(Caller)
    <3>1. CASE Caller.kind = "script"
      BY <3>1, <1>1 DEF High
    <3>2. CASE Caller.kind = "native"
      <4>1. /\ Caller.base = Found(Caller) + 1 /\ Caller.ret = Caller.base + Caller.argc
            /\ Caller.argc \in Nat /\ Caller.base \in Nat
        BY <3>2, <1>1, <1>2, InnerCaller, TypedFrame DEF IsInner, Well
      <4> QED BY <4>1, <3>2, <1>1 DEF High
    <3> QED BY <3>1, <3>2, <1>1, TypedFrame
  <2> QED BY <2>1, <1>1, TypedCalls, TypedFrame DEF Found
<1>4. s \in Seq(Passable) /\ Len(s) = Found(Caller) /\ \A k \in 1..Found(Caller) : s[k] = slots[k]
  BY <1>1, <1>3, CutIs
<1>5. jsPending = FALSE /\ terminated = FALSE
  BY DEF CallsInv, CallsTyped
<1>6. (jsPending \/ sent.how = "error") = (sent.how = "error")
  BY <1>5
<1>7. CASE f.op = "none"
  <2>1. /\ frames' = [Front(frames) EXCEPT ![Depth - 1].got = sent] /\ slots' = s
        /\ jsPending' = FALSE /\ terminated' = FALSE
    BY <1>5, <1>7 DEF Arrive
  <2>2. Found(Caller) = Low(Caller)
    BY <1>7 DEF Found
  <2>3. sent = Calls!Delivered(Abstracted[Depth], sent)
    <3>1. Depth \in Nat /\ Depth >= 2
      BY TypedCalls
    <3>2. Abstracted[Depth].wants = "value"
      BY <3>1, <1>7 DEF Abstracted, WantsOf, Wants, Caller
    <3> QED BY <3>2 DEF Calls!Delivered
  <2>4. Len(slots') - Low(Caller) \in {0} /\ Agree(Low(Caller))
    BY <2>1, <2>2, <1>1, <1>4 DEF Agree
  <2>5. GivesBack(sent)
    BY <2>1, <2>3, <2>4, <1>1, <1>4, <1>7 DEF GivesBack, Quietly
  <2> QED BY <2>5
<1>8. CASE f.op # "none"
  <2> HIDE DEF got
  <2>1. /\ got \in Answers /\ got = Calls!Delivered(Abstracted[Depth], sent)
        /\ (got.how = "error") = (sent.how = "error")
        /\ sent.how = "error" => Checked(f.op) /\ ~NoExcept(f.op)
        /\ Pushed(f, s, sent) =
             IF got.how = "error" \/ Pushes(f.op) THEN Append(s, got.value) ELSE s
    <3>1. got = CheckedOutcome(Caller.via, Pushed(Caller.via, s, Caller.sent),
                               Caller.sent.how = "error", Caller.sent)
      BY DEF got
    <3> QED BY <3>1, <1>4, <1>8, CheckedIs
  <2>2. /\ frames' = [Front(frames) EXCEPT ![Depth - 1].got = got]
        /\ slots' = FrameEnded(f, Pushed(f, s, sent), got)
        /\ jsPending' = ((sent.how = "error") /\ ~Checked(f.op)) /\ terminated' = FALSE
    <3>1. ~(got.how = "error" /\ NoExcept(f.op))
      BY <2>1
    <3> QED BY <3>1, <1>5, <1>6, <1>8 DEF Arrive, got
  <2>3. got.value \in Passable
    BY <2>1 DEF Answers
  <2> DEFINE p == Pushed(f, s, sent)
  <2>4. /\ p \in Seq(Passable) /\ Len(p) - Found(Caller) \in 0..1 /\ Len(p) \in Nat
        /\ \A k \in 1..Found(Caller) : p[k] = slots[k]
    <3>1. CASE p = s
      BY <3>1, <1>1, <1>4
    <3>2. CASE p = Append(s, got.value)
      <4>1. /\ Append(s, got.value) \in Seq(Passable) /\ Len(Append(s, got.value)) = Len(s) + 1
            /\ \A k \in 1..Len(s) : Append(s, got.value)[k] = s[k]
        BY <1>4, <2>3, AppendProperties
      <4> QED BY <3>2, <4>1, <1>1, <1>4
    <3> QED BY <2>1, <3>1, <3>2
  <2> HIDE DEF p
  <2>5. /\ slots' \in Seq(Passable) /\ Len(slots') - Low(Caller) \in 0..1
        /\ \A k \in 1..Low(Caller) : slots'[k] = slots[k]
    <3>1. CASE f.op # "call"
      <4>1. slots' = p /\ Found(Caller) = Low(Caller)
        BY <2>2, <3>1 DEF FrameEnded, Found, p
      <4> QED BY <4>1, <2>4
    <3>2. CASE f.op = "call"
      <4> DEFINE c == Cut(p, Low(Caller))
      <4>1. Low(Caller) \in 0..Len(p)
        BY <1>1, <1>3, <2>4
      <4>2. c \in Seq(Passable) /\ Len(c) = Low(Caller) /\ \A k \in 1..Low(Caller) : c[k] = p[k]
        BY <4>1, <2>4, CutIs
      <4>3. slots' = IF got.how = "error" THEN c ELSE Append(c, got.value)
        BY <2>2, <3>2, <1>1 DEF FrameEnded, p
      <4> HIDE DEF c
      <4>4. \A k \in 1..Low(Caller) : c[k] = slots[k]
        BY <4>2, <2>4, <1>1, <1>3
      <4>5. CASE slots' = c
        BY <4>2, <4>4, <4>5, <1>1
      <4>6. CASE slots' = Append(c, got.value)
        <5>1. /\ Append(c, got.value) \in Seq(Passable) /\ Len(Append(c, got.value)) = Len(c) + 1
              /\ \A k \in 1..Len(c) : Append(c, got.value)[k] = c[k]
          BY <4>2, <2>3, AppendProperties
        <5> QED BY <4>2, <4>4, <4>6, <5>1, <1>1
      <4> QED BY <4>3, <4>5, <4>6
    <3> QED BY <3>1, <3>2
  <2>6. jsPending' = FALSE
    BY <2>1, <2>2
  <2>7. GivesBack(got)
    BY <2>1, <2>2, <2>5, <2>6, <1>8 DEF GivesBack, Quietly, Agree
  <2> QED BY <2>7
<1> QED BY <1>7, <1>8

LEMMA EndedIsInner ==
  ASSUME CallsInv, Caller.phase # "runs"
  PROVE  Depth > 1 /\ Caller.phase = "ended" /\ Well(Caller)
<1>1. Depth \in Nat \ {0} /\ Caller \in CallFrames /\ Well(Caller)
  BY TypedCalls DEF Caller
<1>2. Depth # 1
  BY DEF CallsInv, IsRoot, Caller
<1> QED BY <1>1, <1>2, TypedFrame

LEMMA ScriptLeavesGivesBack ==
  ASSUME CallsInv, ScriptLeaves
  PROVE  \E o : GivesBack(o)
<1>1. Caller.kind = "script" /\ Caller.phase = "ended" /\ Depth > 1 /\ Arrive(slots, Caller.sent)
      /\ cppPending' = cppPending
  BY EndedIsInner DEF ScriptLeaves
<1>2. cppPending = FALSE /\ Top = Found(Caller) /\ slots \in Seq(Passable) /\ Top = Len(slots)
  BY <1>1, TypedCalls DEF CallsInv, CallsTyped, AtTop, High, Top
<1>3. slots = Cut(slots, Found(Caller))
  BY <1>2, SubSeqFull DEF Cut
<1> QED BY <1>1, <1>2, <1>3, ArriveGivesBack

LEMMA WrapperEndsGivesBack ==
  ASSUME CallsInv, WrapperEnds
  PROVE  \E o : GivesBack(o)
<1>1. Caller.kind = "native" /\ Caller.phase = "ended" /\ Depth > 1 /\ Caller \in CallFrames
      /\ Caller.sent \in Answers /\ Caller.sent.how \in {"value", "error"}
  BY EndedIsInner, TypedCalls, TypedFrame DEF WrapperEnds, Well
<1>2. Caller.base = Found(Caller) + 1 /\ Found(Caller) \in Nat
  BY <1>1, InnerCaller, TypedFrame DEF IsInner
<1>3. Caller.base - 1 = Found(Caller)
  BY <1>2
<1>4. /\ slots \in Seq(Passable) /\ Top = Len(slots) /\ slots[Top] = Caller.sent.value
      /\ cppPending \in BOOLEAN /\ cppPending = (Caller.sent.how = "error")
  BY <1>1, TypedCalls DEF CallsInv, CallsTyped, AtTop, Top
<1>5. Last(slots) = Caller.sent.value
  BY <1>4 DEF Last
<1>6. Caller.sent = [how |-> Caller.sent.how, value |-> Caller.sent.value]
  BY <1>1 DEF Answers
<1>7. Caller.sent = IF cppPending THEN [how |-> "error", value |-> Last(slots)]
                    ELSE [how |-> "value", value |-> Last(slots)]
  BY <1>1, <1>4, <1>5, <1>6
<1>8. cppPending' = FALSE
  BY <1>1 DEF WrapperEnds
<1>9. Arrive(Cut(slots, Caller.base - 1), Caller.sent)
  BY <1>1, <1>7 DEF WrapperEnds
<1> QED BY <1>1, <1>3, <1>8, <1>9, ArriveGivesBack

-----------------------------------------------------------------------------
(* The invariant                                                           *)

LEMMA CallsBegin == Init => CallsInv
<1> SUFFICES ASSUME Init
             PROVE  CallsInv
  OBVIOUS
<1>1. slots = << >> /\ jsPending = FALSE /\ cppPending = FALSE /\ terminated = FALSE
  BY DEF Init
<1>2. PICK f \in Outermost : frames = <<f>>
  BY DEF Init
<1>3. ByScript = [op |-> "none", made |-> Undefined, saved |-> << >>]
  BY <1>1 DEF ByScript, Op
<1>4. ByScript \in Ways /\ Nothing \in Answers /\ << >> \in Seq(Values)
  BY <1>3 DEF Ways, Ops, Passable, Nothing, Answers
<1>5. \/ f = [kind |-> "native", via |-> ByScript, base |-> 0, argc |-> 0, ret |-> 0, entered |-> TRUE,
             asked |-> << >>, phase |-> "runs", got |-> Nothing, sent |-> Nothing]
      \/ f = [kind |-> "script", via |-> ByScript, passed |-> << >>, asked |-> << >>,
             phase |-> "runs", got |-> Nothing, sent |-> Nothing]
  BY <1>2 DEF Outermost, Native, Script
<1>6. f \in CallFrames
  <2>1. CASE f.kind = "native"
    <3>1. f = [kind |-> "native", via |-> ByScript, base |-> 0, argc |-> 0, ret |-> 0, entered |-> TRUE,
               asked |-> << >>, phase |-> "runs", got |-> Nothing, sent |-> Nothing]
      BY <2>1, <1>5
    <3>2. f \in NativeFrames
      BY <3>1, <1>4 DEF NativeFrames
    <3> QED BY <3>2 DEF CallFrames
  <2>2. CASE f.kind = "script"
    <3>1. f = [kind |-> "script", via |-> ByScript, passed |-> << >>, asked |-> << >>,
               phase |-> "runs", got |-> Nothing, sent |-> Nothing]
      BY <2>2, <1>5
    <3>2. f \in ScriptFrames
      BY <3>1, <1>4 DEF ScriptFrames
    <3> QED BY <3>2 DEF CallFrames
  <2> QED BY <2>1, <2>2, <1>5
<1>7. Low(f) = 0 /\ Found(f) = 0 /\ High(f) = 0 /\ f.via.op = "none" /\ f.phase = "runs"
      /\ f.kind \in {"script", "native"}
  BY <1>3, <1>5 DEF Low, Found, High
<1>8. Well(f)
  BY <1>3, <1>5 DEF Well
<1>9. IsRoot(f)
  BY <1>5, <1>7 DEF IsRoot
<1>10. Placed(f, slots)
  <2>1. f.kind = "native" => f.argc = 0
    BY <1>5
  <2> QED BY <1>1, <1>7, <2>1 DEF Placed
<1>11. frames \in Seq(CallFrames) /\ Depth = 1 /\ frames[1] = f /\ Caller = f
  BY <1>2, <1>6 DEF Depth, Caller
<1>12. CallsTyped
  <2>1. slots \in Seq(Passable)
    BY <1>1
  <2>2. Depth >= 1 /\ frames \in Seq(CallFrames)
    BY <1>11
  <2> QED BY <2>1, <2>2, <1>1 DEF CallsTyped
<1>13. AtTop
  BY <1>1, <1>7, <1>11 DEF AtTop, Top
<1> QED BY <1>8, <1>9, <1>10, <1>11, <1>12, <1>13 DEF CallsInv

LEMMA CallsGoOn ==
  ASSUME Troubles = {}, CallsInv, Next
  PROVE  Works \/ (\E f : Begins(f)) \/ (\E o : Finishes(o)) \/ (\E o : GivesBack(o))
<1>1. ASSUME NEW v \in Values, PushLocal(v)
      PROVE  Works
  BY <1>1, PushLocalWorks
<1>2. ASSUME Bodied, NEW top \in Caller.ret..Top, EndFrame(top)
      PROVE  Works
  BY <1>2, EndFrameWorks
<1>3. ASSUME NEW op \in Ops, NEW this \in Values, NEW args \in Lists(1),
             CallsScript(op, <<this>> \o args) \/ CallsNative(op, <<this>> \o args)
      PROVE  \E f : Begins(f)
  <2> DEFINE passed == <<this>> \o args
  <2>1. passed \in Seq(Values) /\ Len(passed) >= 1
    BY PassedIs
  <2>2. CallsScript(op, passed) \/ CallsNative(op, passed)
    BY <1>3
  <2> HIDE DEF passed
  <2> QED BY <2>1, <2>2, CallsScriptBegins, CallsNativeBegins
<1>4. ASSUME NEW i \in 0..Top, NativeReturns(i)
      PROVE  \E o : Finishes(o)
  BY <1>4, NativeReturnsFinishes
<1>5. ASSUME NEW v \in Values, NativeThrows(v)
      PROVE  \E o : Finishes(o)
  BY <1>5, NativeThrowsFinishes
<1>6. ASSUME NEW this \in Values, NEW args \in Lists(1), ScriptCalls(<<this>> \o args)
      PROVE  \E f : Begins(f)
  <2> DEFINE passed == <<this>> \o args
  <2>1. passed \in Seq(Values) /\ Len(passed) >= 1
    BY PassedIs
  <2>2. ScriptCalls(passed)
    BY <1>6
  <2> HIDE DEF passed
  <2> QED BY <2>1, <2>2, ScriptCallsBegins
<1>7. ASSUME NEW how \in {"value", "error"}, NEW v \in Values \cup {Undefined},
             ScriptEnds([how |-> how, value |-> v])
      PROVE  \E o : Finishes(o)
  BY <1>7, ScriptEndsFinishes
<1>8. ASSUME ScriptLeaves \/ WrapperEnds
      PROVE  \E o : GivesBack(o)
  BY <1>8, ScriptLeavesGivesBack, WrapperEndsGivesBack
<1> QED BY <1>1, <1>2, <1>3, <1>4, <1>5, <1>6, <1>7, <1>8 DEF Next

LEMMA CallsInvStays ==
  ASSUME Troubles = {}
  PROVE  CallsInv /\ [Next]_vars => CallsInv'
<1> SUFFICES ASSUME CallsInv, [Next]_vars
             PROVE  CallsInv'
  OBVIOUS
<1>1. CASE Next
  BY <1>1, CallsGoOn, WorksKeeps, BeginsKeeps, FinishesKeeps, GivesBackKeeps
<1>2. CASE UNCHANGED vars
  BY <1>2 DEF vars, CallsInv, CallsTyped, AtTop, Depth, Caller, Top
<1> QED BY <1>1, <1>2

-----------------------------------------------------------------------------
(* Results and exceptions arrive: what the functions sent and got.         *)

Abstract(i, f) ==
  [wants |-> IF i = 1 THEN "nothing" ELSE Wants(f.via.op), passed |-> f.asked,
   got |-> f.got, sent |-> f.sent]
AbstractCalls ==
  [wants : {"value", "nothing", "object"}, passed : Seq(Values), got : Answers, sent : Answers]

LEMMA AbstractedIs ==
  ASSUME NEW fs \in Seq(CallFrames), NEW a, a = [i \in 1..Len(fs) |-> Abstract(i, fs[i])]
  PROVE  /\ a \in Seq(AbstractCalls) /\ Len(a) = Len(fs)
         /\ \A i \in 1..Len(fs) : a[i] = Abstract(i, fs[i])
<1>1. ASSUME NEW i \in 1..Len(fs)
      PROVE  Abstract(i, fs[i]) \in AbstractCalls
  <2>1. fs[i] \in CallFrames
    OBVIOUS
  <2>2. (IF i = 1 THEN "nothing" ELSE Wants(fs[i].via.op)) \in {"value", "nothing", "object"}
    BY DEF Wants
  <2> QED BY <2>1, <2>2, TypedFrame DEF Abstract, AbstractCalls
<1>2. Len(fs) \in Nat
  OBVIOUS
<1>3. a \in [1..Len(fs) -> AbstractCalls]
  BY <1>1
<1> QED BY <1>2, <1>3

LEMMA AbstractedNow ==
  ASSUME CallsInv
  PROVE  /\ Abstracted \in Seq(AbstractCalls) /\ Len(Abstracted) = Depth
         /\ \A i \in 1..Depth : Abstracted[i] = Abstract(i, frames[i])
         /\ Last(Abstracted) = Abstract(Depth, Caller)
<1>1. frames \in Seq(CallFrames) /\ Depth \in Nat \ {0} /\ Depth = Len(frames)
  BY TypedCalls DEF Depth
<1>2. Abstracted = [i \in 1..Len(frames) |-> Abstract(i, frames[i])]
  BY DEF Abstracted, Abstract, WantsOf, Depth
<1>3. /\ Abstracted \in Seq(AbstractCalls) /\ Len(Abstracted) = Len(frames)
      /\ \A i \in 1..Len(frames) : Abstracted[i] = Abstract(i, frames[i])
  BY <1>1, <1>2, AbstractedIs
<1>4. Last(Abstracted) = Abstract(Depth, Caller)
  BY <1>1, <1>3 DEF Last, Caller
<1> QED BY <1>1, <1>3, <1>4

LEMMA AbstractedThen ==
  ASSUME CallsTyped'
  PROVE  /\ Abstracted' \in Seq(AbstractCalls) /\ Len(Abstracted') = Depth'
         /\ \A i \in 1..Depth' : Abstracted'[i] = Abstract(i, frames'[i])
<1>1. frames' \in Seq(CallFrames) /\ Depth' = Len(frames')
  BY DEF CallsTyped, Depth
<1>2. Abstracted' = [i \in 1..Len(frames') |-> Abstract(i, frames'[i])]
  BY DEF Abstracted, Abstract, WantsOf, Depth
<1>3. /\ Abstracted' \in Seq(AbstractCalls) /\ Len(Abstracted') = Len(frames')
      /\ \A i \in 1..Len(frames') : Abstracted'[i] = Abstract(i, frames'[i])
  BY <1>1, <1>2, AbstractedIs
<1> QED BY <1>1, <1>3

LEMMA BeginsStarts == ASSUME CallsInv, NEW f, Begins(f) PROVE Calls!Start
<1> DEFINE e == Abstract(Depth + 1, f)
<1>1. CallsTyped' /\ f \in CallFrames /\ frames' = Append(frames, f) /\ Linked(Caller, f)
      /\ f.got = Nothing /\ f.phase = "runs" /\ Well(f)
  BY BeginsKeeps DEF Begins, CallsInv
<1>2. frames \in Seq(CallFrames) /\ Depth \in Nat \ {0} /\ Depth = Len(frames) /\ Well(Caller)
  BY TypedCalls DEF Depth, Caller
<1>3. /\ Abstracted \in Seq(AbstractCalls) /\ Len(Abstracted) = Depth
      /\ \A i \in 1..Depth : Abstracted[i] = Abstract(i, frames[i])
      /\ Last(Abstracted) = Abstract(Depth, Caller)
  BY AbstractedNow
<1>4. /\ Abstracted' \in Seq(AbstractCalls) /\ Len(Abstracted') = Depth'
      /\ \A i \in 1..Depth' : Abstracted'[i] = Abstract(i, frames'[i])
  BY <1>1, AbstractedThen
<1>5. /\ Depth' = Depth + 1 /\ frames'[Depth + 1] = f /\ \A i \in 1..Depth : frames'[i] = frames[i]
  BY <1>1, <1>2, AppendProperties DEF Depth
<1>6. e = Calls!NewCall(Wants(f.via.op), f.asked)
  <2>1. Depth + 1 # 1
    BY <1>2
  <2>2. f.sent = Nothing
    BY <1>1 DEF Well
  <2> QED BY <2>1, <2>2, <1>1 DEF Abstract, Calls!NewCall, Calls!NoOutcome, Nothing
<1> HIDE DEF e
<1>7. e \in AbstractCalls /\ Abstracted'[Depth + 1] = e
  <2>1. Depth + 1 \in 1..Depth'
    BY <1>2, <1>5
  <2> QED BY <2>1, <1>4, <1>5 DEF e
<1>8. Abstracted' = Append(Abstracted, e)
  <2> DEFINE b == Append(Abstracted, e)
  <2>1. /\ b \in Seq(AbstractCalls) /\ Len(b) = Depth + 1 /\ b[Depth + 1] = e
        /\ \A i \in 1..Depth : b[i] = Abstracted[i]
    BY <1>3, <1>7, AppendProperties
  <2> HIDE DEF b
  <2>2. ASSUME NEW i \in 1..(Depth + 1)
        PROVE  Abstracted'[i] = b[i]
    <3>1. CASE i = Depth + 1
      BY <3>1, <2>1, <1>7
    <3>2. CASE i \in 1..Depth
      <4>1. i \in 1..Depth'
        BY <3>2, <1>2, <1>5
      <4> QED BY <3>2, <4>1, <2>1, <1>3, <1>4, <1>5
    <3>3. Depth \in Nat
      BY <1>2
    <3> QED BY <3>1, <3>2, <3>3
  <2>3. Abstracted' = b
    BY <2>1, <2>2, <1>4, <1>5, SeqEqual
  <2> QED BY <2>3 DEF b
<1>9. Calls!Runs
  <2>1. Caller.sent = Calls!NoOutcome
    BY <1>1, <1>2 DEF Linked, Well, Nothing, Calls!NoOutcome
  <2>2. Last(Abstracted).sent = Caller.sent
    BY <1>3 DEF Abstract
  <2> QED BY <2>1, <2>2 DEF Calls!Runs, Calls!Last, Last
<1>10. Wants(f.via.op) \in Calls!Wants
  BY DEF Wants, Calls!Wants
<1>11. f.asked \in {Last(Abstracted').passed} \cap Seq(Values)
  <2>1. Last(Abstracted') = e
    BY <1>2, <1>4, <1>5, <1>7 DEF Last
  <2>2. e.passed = f.asked
    BY DEF e, Abstract
  <2> QED BY <2>1, <2>2, <1>1, TypedFrame
<1>12. \E wants \in Calls!Wants, passed \in {Last(Abstracted').passed} \cap Seq(Values) :
         Abstracted' = Append(Abstracted, Calls!NewCall(wants, passed))
  BY <1>6, <1>8, <1>10, <1>11
<1>13. Len(Abstracted') = Len(Abstracted) + 1
  BY <1>3, <1>4, <1>5
<1> QED BY <1>9, <1>12, <1>13 DEF Calls!Start, Calls!Last, Last

LEMMA FinishesEnds == ASSUME CallsInv, NEW o, Finishes(o) PROVE Calls!End
<1>1. CallsTyped' /\ Depth > 1 /\ Caller.phase = "runs" /\ o \in Answers /\ o.how # "none"
      /\ frames' = [frames EXCEPT ![Depth].phase = "ended", ![Depth].sent = o]
  BY FinishesKeeps DEF Finishes, CallsInv
<1>2. frames \in Seq(CallFrames) /\ Depth \in Nat \ {0} /\ Depth = Len(frames)
      /\ Well(Caller) /\ Caller \in CallFrames
  BY TypedCalls DEF Depth, Caller
<1>3. /\ Abstracted \in Seq(AbstractCalls) /\ Len(Abstracted) = Depth
      /\ \A i \in 1..Depth : Abstracted[i] = Abstract(i, frames[i])
      /\ Last(Abstracted) = Abstract(Depth, Caller)
  BY AbstractedNow
<1>4. /\ Abstracted' \in Seq(AbstractCalls) /\ Len(Abstracted') = Depth'
      /\ \A i \in 1..Depth' : Abstracted'[i] = Abstract(i, frames'[i])
  BY <1>1, AbstractedThen
<1> DEFINE f == [Caller EXCEPT !.phase = "ended", !.sent = o]
<1>5. /\ f.via = Caller.via /\ f.asked = Caller.asked /\ f.got = Caller.got /\ f.sent = o
  <2>1. CASE Caller \in ScriptFrames
    BY <2>1 DEF ScriptFrames
  <2>2. CASE Caller \in NativeFrames
    BY <2>2 DEF NativeFrames
  <2> QED BY <2>1, <2>2, <1>2 DEF CallFrames
<1> HIDE DEF f
<1>6. Depth' = Depth /\ frames'[Depth] = f /\ \A i \in 1..(Depth - 1) : frames'[i] = frames[i]
  <2>1. frames' = [frames EXCEPT ![Depth] = f]
    BY <1>1, <1>2 DEF Caller, f
  <2> QED BY <2>1, <1>2 DEF Depth
<1> DEFINE b == [Abstracted EXCEPT ![Depth].sent = o]
<1>7. Abstract(Depth, f) = [Abstract(Depth, Caller) EXCEPT !.sent = o]
  BY <1>5 DEF Abstract
<1>8. Abstracted[Depth] = Abstract(Depth, Caller) /\ Abstracted'[Depth] = Abstract(Depth, f)
  BY <1>2, <1>3, <1>4, <1>6 DEF Caller
<1>9. Abstract(Depth, f) \in AbstractCalls
  <2>1. Depth \in 1..Depth'
    BY <1>2, <1>6
  <2> QED BY <2>1, <1>4, <1>8
<1>10. b = [Abstracted EXCEPT ![Depth] = Abstract(Depth, f)]
  BY <1>7, <1>8
<1> HIDE DEF b
<1>11. /\ b \in Seq(AbstractCalls) /\ Len(b) = Depth /\ b[Depth] = Abstract(Depth, f)
       /\ \A i \in 1..(Depth - 1) : b[i] = Abstracted[i]
  BY <1>2, <1>3, <1>9, <1>10
<1>12. ASSUME NEW i \in 1..Depth
       PROVE  Abstracted'[i] = b[i]
  <2>1. CASE i = Depth
    BY <2>1, <1>8, <1>11
  <2>2. CASE i \in 1..(Depth - 1)
    BY <2>2, <1>2, <1>3, <1>4, <1>6, <1>11
  <2> QED BY <2>1, <2>2, <1>2
<1>13. Abstracted' = b
  BY <1>4, <1>6, <1>11, <1>12, SeqEqual
<1>14. Calls!Runs
  <2>1. Caller.sent = Calls!NoOutcome
    BY <1>1, <1>2 DEF Well, Nothing, Calls!NoOutcome
  <2>2. Last(Abstracted).sent = Caller.sent
    BY <1>3 DEF Abstract
  <2> QED BY <2>1, <2>2 DEF Calls!Runs, Calls!Last, Last
<1>15. o \in Calls!Outcome \ {Calls!NoOutcome}
  BY <1>1 DEF Answers, Passable, Calls!Outcome, Calls!NoOutcome
<1> QED BY <1>3, <1>4, <1>6, <1>13, <1>14, <1>15 DEF Calls!End, b

LEMMA GivesBackDelivers == ASSUME CallsInv, NEW o, GivesBack(o) PROVE Calls!Deliver
<1> DEFINE g == frames[Depth - 1]
           h == [g EXCEPT !.got = o]
           b == [Front(Abstracted) EXCEPT ![Depth - 1].got = o]
<1>1. /\ Depth \in Nat /\ Depth >= 2 /\ Depth' = Depth - 1
      /\ \A i \in 1..(Depth - 2) : frames'[i] = frames[i]
      /\ frames'[Depth - 1] = h
  BY GivenBack
<1>2. g \in CallFrames /\ Well(g) /\ o \in Answers /\ CallsTyped' /\ Well(Caller) /\ Caller.phase = "ended"
      /\ Caller.sent \in Answers
  <2>1. CallsTyped'
    BY GivesBackKeeps DEF CallsInv
  <2>2. Caller \in CallFrames /\ Well(Caller)
    BY <1>1, TypedCalls DEF Caller
  <2>3. Caller.sent \in Answers /\ Caller.phase = "ended" /\ o \in Answers
    BY <2>2, TypedFrame DEF GivesBack
  <2>4. g \in CallFrames /\ Well(g)
    <3>1. Depth - 1 \in 1..Depth
      BY <1>1
    <3> QED BY <3>1, TypedCalls
  <2> QED BY <2>1, <2>2, <2>3, <2>4
<1>3. h.via = g.via /\ h.asked = g.asked /\ h.sent = g.sent /\ h.got = o
  BY <1>2, AnsweredFrame
<1> HIDE DEF h
<1>4. /\ Abstracted \in Seq(AbstractCalls) /\ Len(Abstracted) = Depth
      /\ \A i \in 1..Depth : Abstracted[i] = Abstract(i, frames[i])
      /\ Last(Abstracted) = Abstract(Depth, Caller)
  BY AbstractedNow
<1>5. /\ Abstracted' \in Seq(AbstractCalls) /\ Len(Abstracted') = Depth - 1
      /\ \A i \in 1..(Depth - 1) : Abstracted'[i] = Abstract(i, frames'[i])
  BY <1>1, <1>2, AbstractedThen
<1>6. Abstract(Depth - 1, h) = [Abstract(Depth - 1, g) EXCEPT !.got = o]
  BY <1>3 DEF Abstract
<1>7. /\ Front(Abstracted) \in Seq(AbstractCalls) /\ Len(Front(Abstracted)) = Depth - 1
      /\ \A i \in 1..(Depth - 1) : Front(Abstracted)[i] = Abstract(i, frames[i])
  <2> DEFINE c == Cut(Abstracted, Depth - 1)
  <2>1. Depth - 1 \in 0..Len(Abstracted) /\ Front(Abstracted) = c
    BY <1>1, <1>4 DEF Front, Cut
  <2>2. c \in Seq(AbstractCalls) /\ Len(c) = Depth - 1 /\ \A i \in 1..(Depth - 1) : c[i] = Abstracted[i]
    BY <2>1, <1>4, CutIs
  <2> HIDE DEF c
  <2>3. \A i \in 1..(Depth - 1) : i \in 1..Depth
    BY <1>1
  <2> QED BY <2>1, <2>2, <2>3, <1>4
<1>8. Front(Abstracted)[Depth - 1] = Abstract(Depth - 1, g) /\ Abstracted'[Depth - 1] = Abstract(Depth - 1, h)
  <2>1. Depth - 1 \in 1..(Depth - 1)
    BY <1>1
  <2> QED BY <2>1, <1>1, <1>5, <1>7
<1>9. Abstract(Depth - 1, h) \in AbstractCalls
  <2>1. Depth - 1 \in 1..(Depth - 1)
    BY <1>1
  <2> QED BY <2>1, <1>5, <1>8
<1>10. b = [Front(Abstracted) EXCEPT ![Depth - 1] = Abstract(Depth - 1, h)]
  BY <1>6, <1>8
<1> HIDE DEF b
<1>11. /\ b \in Seq(AbstractCalls) /\ Len(b) = Depth - 1 /\ b[Depth - 1] = Abstract(Depth - 1, h)
       /\ \A i \in 1..(Depth - 2) : b[i] = Front(Abstracted)[i]
  BY <1>1, <1>7, <1>9, <1>10
<1>12. ASSUME NEW i \in 1..(Depth - 1)
       PROVE  Abstracted'[i] = b[i]
  <2>1. CASE i = Depth - 1
    BY <2>1, <1>8, <1>11
  <2>2. CASE i \in 1..(Depth - 2)
    BY <2>2, <1>1, <1>5, <1>7, <1>11
  <2> QED BY <2>1, <2>2, <1>1
<1>13. Abstracted' = b
  BY <1>5, <1>11, <1>12, SeqEqual
<1>14. Last(Abstracted).sent = Caller.sent /\ Caller.sent # Calls!NoOutcome
  <2>1. Last(Abstracted).sent = Caller.sent
    BY <1>4 DEF Abstract
  <2>2. Caller.sent.how # "none"
    BY <1>2 DEF Well
  <2> QED BY <2>1, <2>2 DEF Calls!NoOutcome
<1>15. Last(Abstracted) = Abstracted[Depth]
  BY <1>4 DEF Last
<1>16. o = Calls!Delivered(Last(Abstracted), Last(Abstracted).sent)
  BY <1>14, <1>15 DEF GivesBack
<1>17. ~Calls!Runs /\ Len(Abstracted) > 1
  BY <1>1, <1>4, <1>14 DEF Calls!Runs, Calls!Last, Last
<1>18. Calls!Last(Abstracted) = Last(Abstracted) /\ Calls!Front(Abstracted) = Front(Abstracted)
  BY DEF Calls!Last, Last, Calls!Front, Front
<1>19. Abstracted' = [Calls!Front(Abstracted) EXCEPT ![Len(Abstracted) - 1].got =
                        Calls!Delivered(Calls!Last(Abstracted), Calls!Last(Abstracted).sent)]
  BY <1>4, <1>13, <1>16, <1>18 DEF b
<1> QED BY <1>17, <1>19 DEF Calls!Deliver

LEMMA CallsStart == Init => Calls!CallsInit
<1> SUFFICES ASSUME Init
             PROVE  Calls!CallsInit
  OBVIOUS
<1>1. CallsInv
  BY CallsBegin
<1>2. PICK f \in Outermost : frames = <<f>>
  BY DEF Init
<1>3. Depth = 1 /\ Caller = f /\ frames[1] = f
  BY <1>2 DEF Depth, Caller
<1>4. f.asked = << >> /\ f.got = Nothing /\ f.sent = Nothing
  BY <1>2 DEF Outermost, Native, Script
<1>5. Abstract(1, f) = Calls!NewCall("nothing", << >>)
  BY <1>4 DEF Abstract, Calls!NewCall, Calls!NoOutcome, Nothing
<1>6. Abstracted \in Seq(AbstractCalls) /\ Len(Abstracted) = 1 /\ Abstracted[1] = Abstract(1, f)
  BY <1>1, <1>3, AbstractedNow
<1>7. Abstracted = <<Abstract(1, f)>>
  BY <1>6
<1> QED BY <1>5, <1>7 DEF Calls!CallsInit

LEMMA CallsRefine ==
  ASSUME Troubles = {}
  PROVE  CallsInv /\ [Next]_vars => [Calls!CallsNext]_Abstracted
<1> SUFFICES ASSUME CallsInv, [Next]_vars
             PROVE  [Calls!CallsNext]_Abstracted
  OBVIOUS
<1>1. CASE frames' = frames
  BY <1>1 DEF Abstracted, WantsOf, Depth
<1>2. CASE Next
  BY <1>1, <1>2, CallsGoOn, BeginsStarts, FinishesEnds, GivesBackDelivers DEF Works, Calls!CallsNext
<1> QED BY <1>1, <1>2 DEF vars

(* Only a call that is given back leaves less frames.                      *)
LEMMA CallsGiveBack ==
  ASSUME Troubles = {}
  PROVE  CallsInv /\ [Next]_vars =>
           [Len(frames') < Depth =>
              LET before == Caller.via.saved
              IN  /\ Len(slots') - Len(before) \in IF Caller.via.op = "none" THEN {0} ELSE 0..1
                  /\ Cut(slots', Len(before)) = before]_vars
<1> SUFFICES ASSUME CallsInv, Next, Len(frames') < Depth
             PROVE  /\ Len(slots') - Low(Caller) \in IF Caller.via.op = "none" THEN {0} ELSE 0..1
                    /\ Cut(slots', Low(Caller)) = Caller.via.saved
  BY DEF Low
<1>1. Depth \in Nat \ {0} /\ frames \in Seq(CallFrames) /\ Depth = Len(frames) /\ Caller \in CallFrames
      /\ Placed(Caller, slots)
  BY TypedCalls DEF Depth, Caller
<1>2. ~Works
  BY <1>1 DEF Works
<1>3. ASSUME NEW f, Begins(f)
      PROVE  FALSE
  BY <1>1, <1>3, AppendProperties DEF Begins
<1>4. ASSUME NEW o, Finishes(o)
      PROVE  FALSE
  BY <1>1, <1>4 DEF Finishes
<1>5. PICK o : GivesBack(o)
  BY <1>2, <1>3, <1>4, CallsGoOn
<1>6. /\ Len(slots') - Low(Caller) \in IF Caller.via.op = "none" THEN {0} ELSE 0..1
      /\ \A k \in 1..Low(Caller) : slots'[k] = slots[k]
      /\ slots' \in Seq(Passable)
  BY <1>5 DEF GivesBack, Agree, Quietly
<1>7. Low(Caller) \in 0..Len(slots')
  <2>1. Low(Caller) \in Nat /\ Len(slots') \in Nat /\ Low(Caller) <= Len(slots')
    BY <1>5, GivenBack
  <2> QED BY <2>1
<1>8. Caller.via.saved \in Seq(Passable) /\ Len(Caller.via.saved) = Low(Caller)
      /\ \A k \in 1..Low(Caller) : slots[k] = Caller.via.saved[k]
  BY <1>1, TypedFrame DEF Ways, Low, Placed
<1>9. Cut(slots', Low(Caller)) = Caller.via.saved
  <2> DEFINE c == Cut(slots', Low(Caller))
  <2>1. c \in Seq(Passable) /\ Len(c) = Low(Caller) /\ \A k \in 1..Low(Caller) : c[k] = slots'[k]
    BY <1>6, <1>7, CutIs
  <2> HIDE DEF c
  <2>2. \A k \in 1..Low(Caller) : c[k] = Caller.via.saved[k]
    <3>1. \A k \in 1..Low(Caller) : slots'[k] = slots[k]
      BY <1>6
    <3>2. \A k \in 1..Low(Caller) : slots[k] = Caller.via.saved[k]
      BY <1>8
    <3> QED BY <2>1, <3>1, <3>2
  <2>3. Caller.via.saved \in Seq(Passable) /\ Len(Caller.via.saved) = Low(Caller)
    BY <1>8
  <2>4. c = Caller.via.saved
    BY <2>1, <2>2, <2>3, SeqEqual
  <2> QED BY <2>4 DEF c
<1> QED BY <1>6, <1>9

-----------------------------------------------------------------------------
(* What follows from the invariant                                         *)

LEMMA PieceIs ==
  ASSUME NEW S, NEW s \in Seq(S), NEW b \in Nat, NEW n \in Nat, b >= 1 \/ n = 0, b + n - 1 <= Len(s)
  PROVE  /\ SubSeq(s, b, b + n - 1) \in Seq(S) /\ Len(SubSeq(s, b, b + n - 1)) = n
         /\ \A k \in 1..n : SubSeq(s, b, b + n - 1)[k] = s[b + k - 1]
<1> DEFINE e == b + n - 1
<1>1. b \in Int /\ e \in Int /\ e - b + 1 = n /\ (b <= e <=> n # 0) /\ e <= Len(s)
  OBVIOUS
<1>2. \A k \in b..e : s[k] \in S
  <2> SUFFICES ASSUME NEW k \in b..e
               PROVE  s[k] \in S
    OBVIOUS
  <2>1. k \in 1..Len(s)
    BY <1>1
  <2> QED BY <2>1
<1> HIDE DEF e
<1>3. /\ SubSeq(s, b, e) \in Seq(S) /\ Len(SubSeq(s, b, e)) = IF b <= e THEN e - b + 1 ELSE 0
      /\ \A k \in 1..(e - b + 1) : SubSeq(s, b, e)[k] = s[b + k - 1]
  BY <1>1, <1>2, SubSeqProperties
<1>4. SubSeq(s, b, e) \in Seq(S) /\ Len(SubSeq(s, b, e)) = n
      /\ \A k \in 1..n : SubSeq(s, b, e)[k] = s[b + k - 1]
  BY <1>1, <1>3
<1> QED BY <1>4 DEF e

LEMMA CallsKept == CallsInv => NothingPends /\ ArgumentsStay /\ NoexceptHolds
<1> SUFFICES ASSUME CallsInv
             PROVE  NothingPends /\ ArgumentsStay /\ NoexceptHolds
  OBVIOUS
<1>1. NothingPends /\ NoexceptHolds
  BY DEF CallsInv, CallsTyped, AtTop, NothingPends, NoexceptHolds, Bodied, Scripted
<1>2. ASSUME NEW i \in 1..Depth
      PROVE  Passed(frames[i]) = frames[i].asked
  <2> DEFINE f == frames[i]
  <2>1. f \in CallFrames /\ Well(f) /\ Placed(f, slots) /\ (IsRoot(f) \/ IsInner(f))
    BY TypedCalls
  <2> HIDE DEF f
  <2>2. ASSUME f.kind = "script"
        PROVE  Passed(f) = f.asked
    BY <2>1, <2>2 DEF Passed, Well
  <2>3. ASSUME f.kind = "native"
        PROVE  Passed(f) = f.asked
    <3> DEFINE p == SubSeq(slots, f.base, f.base + f.argc - 1)
    <3>1. /\ f.base \in Nat /\ f.argc \in Nat /\ f.ret = f.base + f.argc /\ f.asked \in Seq(Passable)
          /\ Len(f.asked) = f.argc /\ High(f) = f.ret
      BY <2>1, <2>3, TypedFrame DEF Well, High, Passable
    <3>2. f.ret <= Top /\ Top \in Nat /\ slots \in Seq(Passable) /\ Top = Len(slots)
      BY <2>1, <3>1, TypedCalls DEF Placed, Top
    <3>3. \A k \in 1..f.argc : slots[f.base + k - 1] = f.asked[k]
      BY <2>1, <2>3 DEF Placed
    <3>4. f.base >= 1 \/ (f.base = 0 /\ f.argc = 0)
      <4>1. Found(f) \in Nat
        BY <2>1, TypedFrame
      <4>2. CASE IsRoot(f)
        BY <4>2, <2>3, <3>1 DEF IsRoot
      <4>3. CASE IsInner(f)
        BY <4>1, <4>3, <2>3, <3>1 DEF IsInner
      <4> QED BY <2>1, <4>2, <4>3
    <3>5. f.base + f.argc - 1 <= Len(slots)
      BY <3>1, <3>2
    <3>6. p \in Seq(Passable) /\ Len(p) = f.argc /\ \A k \in 1..f.argc : p[k] = slots[f.base + k - 1]
      <4>1. f.base >= 1 \/ f.argc = 0
        BY <3>4
      <4>2. slots \in Seq(Passable) /\ f.base \in Nat /\ f.argc \in Nat
        BY <3>1, <3>2
      <4> QED BY <3>5, <4>1, <4>2, PieceIs DEF p
    <3> HIDE DEF p
    <3>7. p = f.asked
      BY <3>1, <3>3, <3>6, SeqEqual
    <3> QED BY <3>7, <2>3 DEF Passed, p
  <2>4. Passed(f) = f.asked
    BY <2>1, <2>2, <2>3, TypedFrame
  <2> QED BY <2>4 DEF f
<1> QED BY <1>1, <1>2 DEF ArgumentsStay

LEMMA CallsTypesHold == CallsInv => CallsTypeOK
<1> SUFFICES ASSUME CallsInv
             PROVE  CallsTypeOK
  OBVIOUS
<1>1. Passable \subseteq Slot /\ slots \in Seq(Slot)
  BY TypedCalls DEF Passable, Slot
<1>2. {jsPending, cppPending, terminated} \subseteq BOOLEAN
  BY DEF CallsInv, CallsTyped
<1>3. ASSUME NEW i \in 1..Depth
      PROVE  FrameTypeOK(frames[i])
  <2> DEFINE f == frames[i]
  <2>1. f \in CallFrames /\ Well(f) /\ Placed(f, slots)
    BY TypedCalls
  <2> HIDE DEF f
  <2>2. /\ f.kind \in {"script", "native"} /\ f.phase \in {"runs", "ended", "escaped"}
        /\ f.via.op \in Ops \cup {"none"} /\ f.via.saved \in Seq(Passable) /\ f.got \in Answers
        /\ f.sent \in Answers
    BY <2>1, TypedFrame DEF Ways
  <2>3. f.via.saved \in Seq(Slot) /\ {f.got, f.sent} \subseteq Outcome
    BY <2>2, <1>1 DEF Answers, Outcome
  <2>4. f.kind = "script" => f.passed \in Seq(Values)
    BY <2>1, TypedFrame DEF ScriptFrames
  <2>5. f.kind = "native" => f.ret = f.base + f.argc /\ f.ret <= Top
    BY <2>1 DEF Well, Placed, High, Top
  <2>6. FrameTypeOK(f)
    BY <2>2, <2>3, <2>4, <2>5 DEF FrameTypeOK
  <2> QED BY <2>6 DEF f
<1> QED BY <1>1, <1>2, <1>3 DEF CallsTypeOK

-----------------------------------------------------------------------------

(* The stack, the flags and what is recorded of each function have their   *)
(* types, and the slot of a wrapper's result is on the stack.              *)
THEOREM CallsTypes ==
  ASSUME Troubles = {}
  PROVE  WasmCallsSpec => []CallsTypeOK
BY CallsBegin, CallsInvStays, CallsTypesHold, PTL DEF WasmCallsSpec

(* While functions of both languages call each other to any depth, each    *)
(* gets the arguments it was called with as long as it runs, each caller   *)
(* gets what the function it called has returned or thrown, the stack is   *)
(* given back as it was, no exception is pending in a function that runs,  *)
(* and none leaves a noexcept function.                                    *)
THEOREM CallsKeepTheirPromise ==
  ASSUME Troubles = {}
  PROVE  WasmCallsSpec => CallsAreKept
<1>1. CallsInv /\ [Next]_vars => CallsInv'
  BY CallsInvStays
<1>2. CallsInv /\ [Next]_vars => [Calls!CallsNext]_Abstracted
  BY CallsRefine
<1> QED BY CallsBegin, CallsStart, <1>1, <1>2, CallsGiveBack, CallsKept, PTL
        DEF WasmCallsSpec, CallsAreKept, CallsArrive, StackIsGivenBack, Calls!CallsSpec

-----------------------------------------------------------------------------
(***************************************************************************)
(* script::Global of WebAssembly.                                          *)
(***************************************************************************)

WasmSpec == WasmInit /\ [][WasmNext]_wasmVars

Keys == 0..MaxKeys - 1

(* Keys are below the counters, what is above is unused, and no key is in  *)
(* two Globals.                                                            *)
KeysAreOld == \A h \in WasmHandles : keyOf[h] < nextKey[TableOf(h)]
NewKeysAreUnused == \A k \in Keys : k >= nextKey["global"] => tables["global"][k] = NoEntry
KeysAreUnshared ==
  \A g, h \in WasmGlobals : keyOf[g] = keyOf[h] /\ keyOf[g] # -1 => g = h
Designate == \A h \in WasmGlobals : Entry(h) = meant[h]
EntriesAreOwned ==
  \A k \in Keys : tables["global"][k] # NoEntry => \E h \in WasmGlobals : keyOf[h] = k

WasmInv ==
  /\ WasmTypeOK
  /\ KeysAreOld /\ NewKeysAreUnused /\ KeysAreUnshared
  /\ Designate /\ EntriesAreOwned

LEMMA InitEstablishes == WasmInit => WasmInv
  BY WasmAssumption, SMT
  DEF WasmInit, WasmInv, WasmTypeOK, KeysAreOld, NewKeysAreUnused, KeysAreUnshared,
      Designate, EntriesAreOwned, Keys, Entry, Tables, TableOf, WasmHandles

(* What is proved of a step on Globals concerns their table alone.         *)
LEMMA TableOfHandle ==
  ASSUME NEW h \in WasmHandles
  PROVE  /\ TableOf(h) \in Tables
         /\ TableOf(h) = "global" <=> h \in WasmGlobals
  BY DEF TableOf, Tables

LEMMA ResetKeeps ==
  ASSUME WasmInv, NEW h \in WasmHandles, WasmReset(h)
  PROVE  WasmInv'
<1>. USE TableOfHandle, WasmAssumption
<1>. USE DEF WasmInv, WasmTypeOK, WasmReset, Deleted
<1>1. WasmTypeOK'
  OBVIOUS
<1>2. KeysAreOld'
  BY DEF KeysAreOld
<1>3. NewKeysAreUnused'
  BY DEF NewKeysAreUnused, Keys, Tables
<1>4. KeysAreUnshared'
  BY DEF KeysAreUnshared, WasmHandles
<1>5. Designate'
  BY DEF Designate, KeysAreUnshared, Entry, WasmHandles, Tables, TableOf
<1>6. EntriesAreOwned'
  BY DEF EntriesAreOwned, Keys, WasmHandles, Tables, TableOf
<1>. QED
  BY <1>1, <1>2, <1>3, <1>4, <1>5, <1>6 DEF WasmInv

LEMMA AssignKeeps ==
  ASSUME WasmInv, NEW h \in WasmHandles, NEW v \in WasmValues \cup {NoEntry},
         WasmAssign(h, v)
  PROVE  WasmInv'
<1>. USE TableOfHandle, WasmAssumption
<1>. USE DEF WasmInv, WasmTypeOK, WasmAssign, Deleted, NewKey
<1>. DEFINE t == TableOf(h)
            key == nextKey[t]
            given == [tables EXCEPT ![t][key] = v]
<1>a. t \in Tables /\ key \in Keys /\ key + 1 \in 0..MaxKeys
  BY DEF Keys
<1>1. WasmTypeOK'
  <2>1. given \in [Tables -> [Keys -> WasmValues \cup {NoEntry}]]
    BY <1>a DEF Keys
  <2>2. tables' \in [Tables -> [Keys -> WasmValues \cup {NoEntry}]]
    <3>1. CASE keyOf[h] = -1
      BY <2>1, <3>1
    <3>2. CASE keyOf[h] # -1
      <4>1. keyOf[h] \in Keys
        BY <3>2 DEF Keys
      <4>. QED
        BY <2>1, <3>2, <4>1
    <3>. QED
      BY <3>1, <3>2
  <2>3. nextKey' \in [Tables -> 0..MaxKeys]
    BY <1>a
  <2>4. keyOf' \in [WasmHandles -> -1..MaxKeys - 1]
    BY <1>a DEF Keys
  <2>. QED
    BY <2>2, <2>3, <2>4 DEF Keys
<1>2. KeysAreOld'
  BY DEF KeysAreOld
<1>3. NewKeysAreUnused'
  <2>. SUFFICES ASSUME NEW k \in Keys, k >= nextKey'["global"]
                PROVE  tables'["global"][k] = NoEntry
    BY DEF NewKeysAreUnused
  <2>1. k >= nextKey["global"] /\ (t = "global" => k # key)
    BY <1>a DEF Tables, Keys
  <2>2. given["global"][k] = NoEntry
    BY <2>1, <1>a DEF NewKeysAreUnused, Keys, Tables
  <2>. QED
    BY <2>2, <1>a DEF Keys, Tables
<1>4. KeysAreUnshared'
  BY DEF KeysAreUnshared, KeysAreOld, WasmHandles
<1>5. Designate'
  BY DEF Designate, KeysAreUnshared, KeysAreOld, Entry, WasmHandles, Tables, TableOf
<1>6. EntriesAreOwned'
  BY SMTT(30) DEF EntriesAreOwned, Keys, WasmHandles, Tables, TableOf
<1>. QED
  BY <1>1, <1>2, <1>3, <1>4, <1>5, <1>6 DEF WasmInv

LEMMA CopyWeakKeeps ==
  ASSUME WasmInv, NEW a \in WasmWeaks, NEW b \in WasmWeaks, WasmCopyWeak(a, b)
  PROVE  WasmInv'
<1>. USE WasmAssumption
<1>. USE DEF WasmInv, WasmTypeOK, WasmCopyWeak, WasmHandles
<1>1. WasmTypeOK'
  OBVIOUS
<1>2. KeysAreOld'
  BY DEF KeysAreOld, TableOf
<1>3. NewKeysAreUnused'
  BY DEF NewKeysAreUnused
<1>4. KeysAreUnshared'
  BY DEF KeysAreUnshared
<1>5. Designate'
  BY DEF Designate, Entry, TableOf
<1>6. EntriesAreOwned'
  BY DEF EntriesAreOwned
<1>. QED
  BY <1>1, <1>2, <1>3, <1>4, <1>5, <1>6 DEF WasmInv

LEMMA MoveKeeps ==
  ASSUME WasmInv, NEW a \in WasmHandles, NEW b \in WasmHandles,
         TableOf(a) = TableOf(b), WasmMove(a, b)
  PROVE  WasmInv'
<1>. USE TableOfHandle, WasmAssumption
<1>. USE DEF WasmInv, WasmTypeOK, WasmMove, Deleted
<1>1. WasmTypeOK'
  <2>1. tables' \in [Tables -> [Keys -> WasmValues \cup {NoEntry}]]
    <3>1. CASE keyOf[a] = -1
      BY <3>1 DEF Keys
    <3>2. CASE keyOf[a] # -1
      BY <3>2 DEF Keys
    <3>. QED
      BY <3>1, <3>2
  <2>a. -1 \in -1..MaxKeys - 1 /\ keyOf[b] \in -1..MaxKeys - 1
    OBVIOUS
  <2>2. keyOf' \in [WasmHandles -> -1..MaxKeys - 1]
    <3>1. keyOf' = [keyOf EXCEPT ![a] = keyOf[b], ![b] = -1]
      OBVIOUS
    <3>2. keyOf \in [WasmHandles -> -1..MaxKeys - 1]
      OBVIOUS
    <3>. QED
      BY ONLY <2>a, <3>1, <3>2
  <2>3. meant' \in [WasmHandles -> WasmValues \cup {NoEntry}]
    <3>1. meant' = [meant EXCEPT ![a] = meant[b], ![b] = NoEntry]
      OBVIOUS
    <3>2. meant \in [WasmHandles -> WasmValues \cup {NoEntry}]
      OBVIOUS
    <3>. QED
      BY ONLY <3>1, <3>2
  <2>. QED
    BY <2>1, <2>2, <2>3 DEF Keys
<1>2. KeysAreOld'
  BY DEF KeysAreOld
<1>3. NewKeysAreUnused'
  BY DEF NewKeysAreUnused, Keys, Tables
<1>4. KeysAreUnshared'
  BY DEF KeysAreUnshared, WasmHandles
<1>5. Designate'
  BY DEF Designate, KeysAreUnshared, Entry, WasmHandles, Tables, TableOf
<1>6. EntriesAreOwned'
  BY DEF EntriesAreOwned, KeysAreUnshared, Keys, WasmHandles, Tables, TableOf
<1>. QED
  BY <1>1, <1>2, <1>3, <1>4, <1>5, <1>6 DEF WasmInv

LEMMA SwapKeeps ==
  ASSUME WasmInv, NEW a \in WasmHandles, NEW b \in WasmHandles,
         TableOf(a) = TableOf(b), WasmSwap(a, b)
  PROVE  WasmInv'
<1>. USE TableOfHandle, WasmAssumption
<1>. USE DEF WasmInv, WasmTypeOK, WasmSwap
<1>1. WasmTypeOK'
  OBVIOUS
<1>2. KeysAreOld'
  BY DEF KeysAreOld
<1>3. NewKeysAreUnused'
  BY DEF NewKeysAreUnused
<1>4. KeysAreUnshared'
  BY DEF KeysAreUnshared, WasmHandles
<1>5. Designate'
  BY DEF Designate, Entry, WasmHandles
<1>6. EntriesAreOwned'
  BY DEF EntriesAreOwned, WasmHandles
<1>. QED
  BY <1>1, <1>2, <1>3, <1>4, <1>5, <1>6 DEF WasmInv

LEMMA DupKeeps ==
  ASSUME WasmInv, NEW a \in WasmHandles, NEW b \in WasmHandles, WasmDup(a, b)
  PROVE  WasmInv'
<1>1. CASE keyOf[b] = -1
  BY <1>1, ResetKeeps DEF WasmDup
<1>2. CASE keyOf[b] # -1
  <2>1. Entry(b) \in WasmValues \cup {NoEntry}
    BY <1>2, TableOfHandle, WasmAssumption DEF Entry, WasmInv, WasmTypeOK
  <2>. QED
    BY <1>2, <2>1, AssignKeeps DEF WasmDup
<1>. QED
  BY <1>1, <1>2

LEMMA StepKeeps == WasmInv /\ [WasmNext]_wasmVars => WasmInv'
<1>. SUFFICES ASSUME WasmInv, [WasmNext]_wasmVars PROVE WasmInv'
  OBVIOUS
<1>. USE DEF WasmHandles
<1>1. CASE UNCHANGED wasmVars
  BY <1>1
  DEF wasmVars, WasmInv, WasmTypeOK, KeysAreOld, NewKeysAreUnused, KeysAreUnshared,
      Designate, EntriesAreOwned, Entry
<1>2. ASSUME NEW h \in WasmHandles, WasmReset(h) PROVE WasmInv'
  BY <1>2, ResetKeeps
<1>3. ASSUME NEW h \in WasmHandles, NEW v \in WasmValues, WasmAssign(h, v) PROVE WasmInv'
  BY <1>3, AssignKeeps
<1>4. ASSUME NEW a \in WasmHandles, NEW b \in WasmHandles, WasmDup(a, b) PROVE WasmInv'
  BY <1>4, DupKeeps
<1>5. ASSUME NEW a \in WasmHandles, NEW b \in WasmHandles, TableOf(a) = TableOf(b),
             WasmMove(a, b)
      PROVE  WasmInv'
  BY <1>5, MoveKeeps
<1>6. ASSUME NEW a \in WasmHandles, NEW b \in WasmHandles, TableOf(a) = TableOf(b),
             WasmSwap(a, b)
      PROVE  WasmInv'
  BY <1>6, SwapKeeps
<1>7. ASSUME NEW a \in WasmWeaks, NEW b \in WasmWeaks, WasmCopyWeak(a, b) PROVE WasmInv'
  BY <1>7, CopyWeakKeeps
<1>. QED
  BY <1>1, <1>2, <1>3, <1>4, <1>5, <1>6, <1>7 DEF WasmNext

LEMMA InvImplies == WasmInv => GlobalsHaveEntries
<1>. SUFFICES ASSUME WasmInv PROVE GlobalsHaveEntries
  OBVIOUS
<1>1. ASSUME NEW k \in Keys
      PROVE  LET owners == {h \in WasmGlobals : keyOf[h] = k}
             IN  /\ Cardinality(owners) <= 1
                 /\ tables["global"][k] # NoEntry => owners # {}
  <2>. DEFINE owners == {h \in WasmGlobals : keyOf[h] = k}
  <2>1. \A g, h \in owners : g = h
    BY <1>1, WasmAssumption DEF WasmInv, KeysAreUnshared, Keys
  <2>2. Cardinality(owners) <= 1
    <3>1. CASE owners = {}
      BY <3>1, FS_EmptySet
    <3>2. ASSUME NEW h \in owners PROVE Cardinality(owners) <= 1
      <4>1. owners = {h}
        BY <2>1
      <4>. QED
        BY <4>1, FS_Singleton
    <3>. QED
      BY <3>1, <3>2
  <2>3. tables["global"][k] # NoEntry => owners # {}
    BY <1>1 DEF WasmInv, EntriesAreOwned
  <2>. QED
    BY <2>2, <2>3
<1>. QED
  BY <1>1 DEF GlobalsHaveEntries, WasmInv, Designate, Keys

(* A Global of WebAssembly designates the value it was given, and entries  *)
(* of the table and non-empty Globals correspond one to one, although the  *)
(* copies of Weaks share keys: WasmReference.hpp copies, moves and swaps   *)
(* keys, and counts nothing.                                               *)
THEOREM GlobalsKeepTheirEntries == WasmSpec => []GlobalsHaveEntries
<1>1. WasmSpec => []WasmInv
  BY InitEstablishes, StepKeeps, PTL DEF WasmSpec
<1>. QED
  BY <1>1, InvImplies, PTL

(* The keys that are in use, in the tables and in the variables, are below *)
(* the counters: newKey never gives out one that a Global has.             *)
THEOREM KeysAreTyped == WasmSpec => [](WasmTypeOK /\ KeysAreOld)
<1>1. WasmSpec => []WasmInv
  BY InitEstablishes, StepKeeps, PTL DEF WasmSpec
<1>. QED
  BY <1>1, PTL DEF WasmInv

-----------------------------------------------------------------------------
(***************************************************************************)
(* Local<ByteBuffer> of WebAssembly.                                       *)
(***************************************************************************)

BufferSpec == BufferInit /\ [][BufferNext]_bufferVars

One(b) == IF b THEN 1 ELSE 0
Same(x, m) == IF x = m THEN 1 ELSE 0

(* Who owns m, given the Locals, the script objects and the shared_ptrs.   *)
Users(locals, js, kept, m) ==
  Cardinality({l \in BufferLocals : locals[l].backing = m})
  + Cardinality({j \in JsBuffers : js[j].owns /\ js[j].memory = m})
  + One(m \in kept)

IsAccounted(r, n) ==
  /\ r.count = n
  /\ r.state # "freedTwice"
  /\ r.state = "allocated" <=> n > 0
Accounted(ms, locals, js, kept) ==
  \A m \in Memories : IsAccounted(ms[m], Users(locals, js, kept, m))

ObjectsFit(js) ==
  \A j \in JsBuffers : js[j].owns => js[j].kind = "shared" /\ js[j].memory \in Memories
Fits(r, js, ms) ==
  /\ ~r.alive => r.val = NoBuffer /\ r.backing = NoMemory /\ ~r.inStep
  /\ r.inStep =>
       /\ r.val # NoBuffer /\ r.backing # NoMemory
       /\ js[r.val].kind = "array" /\ js[r.val].data = ms[r.backing].data

BufferInv ==
  /\ BufferTypeOK
  /\ ObjectsFit(jsBuffers)
  /\ \A l \in BufferLocals : Fits(bufferLocals[l], jsBuffers, memories)
  /\ Accounted(memories, bufferLocals, jsBuffers, held)

-----------------------------------------------------------------------------
(* Counting.                                                               *)

LEMMA OneChanges ==
  ASSUME NEW S, IsFiniteSet(S), NEW A \in SUBSET S, NEW B \in SUBSET S, NEW x \in S,
         \A y \in S : y # x => (y \in A <=> y \in B)
  PROVE  /\ Cardinality(A) \in Nat /\ Cardinality(B) \in Nat
         /\ Cardinality(B) = Cardinality(A) - One(x \in A) + One(x \in B)
<1>1. IsFiniteSet(A) /\ IsFiniteSet(B)
  BY FS_Subset
<1>2. Cardinality(A) \in Nat /\ Cardinality(B) \in Nat
  BY <1>1, FS_CardinalityType
<1>3. CASE x \in A /\ x \notin B
  <2>1. A = B \cup {x}
    BY <1>3
  <2>2. Cardinality(A) = Cardinality(B) + 1
    BY <1>1, <1>3, <2>1, FS_AddElement
  <2> QED
    BY <1>2, <1>3, <2>2 DEF One, Same
<1>4. CASE x \notin A /\ x \in B
  <2>1. B = A \cup {x}
    BY <1>4
  <2>2. Cardinality(B) = Cardinality(A) + 1
    BY <1>1, <1>4, <2>1, FS_AddElement
  <2> QED
    BY <1>2, <1>4, <2>2 DEF One, Same
<1>5. CASE x \in A <=> x \in B
  <2>1. A = B
    BY <1>5
  <2> QED
    BY <1>2, <2>1 DEF One, Same
<1> QED
  BY <1>3, <1>4, <1>5, <1>2

LEMMA UsersAreCounted ==
  ASSUME NEW locals, NEW js, NEW kept, NEW m
  PROVE  /\ Users(locals, js, kept, m) \in Nat
         /\ \A l \in BufferLocals : locals[l].backing = m => Users(locals, js, kept, m) > 0
         /\ \A j \in JsBuffers : js[j].owns /\ js[j].memory = m => Users(locals, js, kept, m) > 0
         /\ m \in kept => Users(locals, js, kept, m) > 0
<1> DEFINE L == {l \in BufferLocals : locals[l].backing = m}
           J == {j \in JsBuffers : js[j].owns /\ js[j].memory = m}
<1>1. /\ IsFiniteSet(L) /\ Cardinality(L) \in Nat
      /\ IsFiniteSet(J) /\ Cardinality(J) \in Nat
  BY BufferAssumption, FS_Subset, FS_CardinalityType
<1>2. /\ \A l \in L : Cardinality(L) # 0
      /\ \A j \in J : Cardinality(J) # 0
  BY <1>1, FS_EmptySet
<1>3. \A l \in BufferLocals : locals[l].backing = m => Cardinality(L) # 0
  BY <1>2
<1>4. \A j \in JsBuffers : js[j].owns /\ js[j].memory = m => Cardinality(J) # 0
  BY <1>2
<1>5. Users(locals, js, kept, m) = Cardinality(L) + Cardinality(J) + One(m \in kept)
  BY DEF Users
<1> HIDE DEF L, J
<1> QED
  BY <1>1, <1>3, <1>4, <1>5 DEF One, Same

OthersStay(locals, others, l) ==
  \A k \in BufferLocals : k # l => others[k].backing = locals[k].backing

LEMMA LocalChanges ==
  ASSUME NEW locals, NEW others, NEW js, NEW kept, NEW m, NEW l \in BufferLocals,
         OthersStay(locals, others, l)
  PROVE  Users(others, js, kept, m) =
           Users(locals, js, kept, m) - Same(locals[l].backing, m) + Same(others[l].backing, m)
<1> DEFINE A == {k \in BufferLocals : locals[k].backing = m}
           B == {k \in BufferLocals : others[k].backing = m}
           J == {j \in JsBuffers : js[j].owns /\ js[j].memory = m}
<1>1. /\ A \in SUBSET BufferLocals /\ B \in SUBSET BufferLocals
      /\ \A k \in BufferLocals : k # l => (k \in A <=> k \in B)
      /\ l \in A <=> locals[l].backing = m
      /\ l \in B <=> others[l].backing = m
  BY DEF OthersStay
<1>2. /\ Users(locals, js, kept, m) = Cardinality(A) + Cardinality(J) + One(m \in kept)
      /\ Users(others, js, kept, m) = Cardinality(B) + Cardinality(J) + One(m \in kept)
  BY DEF Users
<1>3. Cardinality(J) \in Nat
  BY BufferAssumption, FS_Subset, FS_CardinalityType
<1> HIDE DEF A, B, J
<1>4. /\ Cardinality(A) \in Nat /\ Cardinality(B) \in Nat
      /\ Cardinality(B) = Cardinality(A) - One(l \in A) + One(l \in B)
  BY <1>1, BufferAssumption, OneChanges
<1> QED
  BY <1>1, <1>2, <1>3, <1>4 DEF One, Same

LEMMA ObjectChanges ==
  ASSUME NEW locals, NEW js, NEW others, NEW kept, NEW m, NEW j \in JsBuffers,
         \A k \in JsBuffers :
           k # j => others[k].owns = js[k].owns /\ others[k].memory = js[k].memory
  PROVE  Users(locals, others, kept, m) =
           Users(locals, js, kept, m) - One(js[j].owns /\ js[j].memory = m)
                                      + One(others[j].owns /\ others[j].memory = m)
<1> DEFINE A == {k \in JsBuffers : js[k].owns /\ js[k].memory = m}
           B == {k \in JsBuffers : others[k].owns /\ others[k].memory = m}
           L == {k \in BufferLocals : locals[k].backing = m}
<1>1. /\ A \in SUBSET JsBuffers /\ B \in SUBSET JsBuffers
      /\ \A k \in JsBuffers : k # j => (k \in A <=> k \in B)
      /\ j \in A <=> js[j].owns /\ js[j].memory = m
      /\ j \in B <=> others[j].owns /\ others[j].memory = m
  OBVIOUS
<1>2. /\ Users(locals, js, kept, m) = Cardinality(L) + Cardinality(A) + One(m \in kept)
      /\ Users(locals, others, kept, m) = Cardinality(L) + Cardinality(B) + One(m \in kept)
  BY DEF Users
<1>3. Cardinality(L) \in Nat
  BY BufferAssumption, FS_Subset, FS_CardinalityType
<1> HIDE DEF A, B, L
<1>4. /\ Cardinality(A) \in Nat /\ Cardinality(B) \in Nat
      /\ Cardinality(B) = Cardinality(A) - One(j \in A) + One(j \in B)
  BY <1>1, BufferAssumption, OneChanges
<1> QED
  BY <1>1, <1>2, <1>3, <1>4 DEF One, Same

LEMMA UsersDepend ==
  ASSUME NEW locals, NEW others, NEW js, NEW objects, NEW kept, NEW m,
         \A k \in BufferLocals : others[k].backing = locals[k].backing,
         \A k \in JsBuffers : objects[k].owns = js[k].owns /\ objects[k].memory = js[k].memory
  PROVE  Users(others, objects, kept, m) = Users(locals, js, kept, m)
<1>1. {k \in BufferLocals : others[k].backing = m} = {k \in BufferLocals : locals[k].backing = m}
  OBVIOUS
<1>2. {k \in JsBuffers : objects[k].owns /\ objects[k].memory = m} =
      {k \in JsBuffers : js[k].owns /\ js[k].memory = m}
  OBVIOUS
<1> QED
  BY <1>1, <1>2 DEF Users

LEMMA KeptChanges ==
  ASSUME NEW locals, NEW js, NEW kept, NEW others, NEW m
  PROVE  Users(locals, js, others, m) =
           Users(locals, js, kept, m) - One(m \in kept) + One(m \in others)
<1> DEFINE L == {l \in BufferLocals : locals[l].backing = m}
           J == {j \in JsBuffers : js[j].owns /\ js[j].memory = m}
<1>1. Cardinality(L) \in Nat /\ Cardinality(J) \in Nat
  BY BufferAssumption, FS_Subset, FS_CardinalityType
<1>2. /\ Users(locals, js, kept, m) = Cardinality(L) + Cardinality(J) + One(m \in kept)
      /\ Users(locals, js, others, m) = Cardinality(L) + Cardinality(J) + One(m \in others)
  BY DEF Users
<1> HIDE DEF L, J
<1> QED
  BY <1>1, <1>2 DEF One, Same

-----------------------------------------------------------------------------
(* The counts.                                                             *)

LEMMA CountedChanges ==
  ASSUME NEW ms \in [Memories -> Memory], NEW x \in Memories \cup {NoMemory},
         NEW m \in Memories
  PROVE  /\ Counted(ms, x) \in [Memories -> Memory]
         /\ Counted(ms, x)[m].count = ms[m].count + Same(x, m)
         /\ Counted(ms, x)[m].state = ms[m].state
         /\ Counted(ms, x)[m].data = ms[m].data
<1>1. CASE x = NoMemory
  BY <1>1, BufferAssumption DEF Counted, One, Same, Memory
<1>2. CASE x \in Memories /\ x # NoMemory
  <2> DEFINE r == [ms[x] EXCEPT !.count = @ + 1]
  <2>1. /\ r \in Memory /\ r.count = ms[x].count + 1
        /\ r.state = ms[x].state /\ r.data = ms[x].data
    BY <1>2 DEF Memory
  <2>2. Counted(ms, x) = [ms EXCEPT ![x] = r]
    BY <1>2 DEF Counted
  <2>3. ms[m].count \in Int
    BY DEF Memory
  <2> HIDE DEF r
  <2> QED
    BY <1>2, <2>1, <2>2, <2>3 DEF One, Same
<1> QED
  BY <1>1, <1>2, BufferAssumption

LEMMA UncountedChanges ==
  ASSUME NEW ms \in [Memories -> Memory], NEW x \in Memories \cup {NoMemory},
         NEW m \in Memories
  PROVE  /\ Uncounted(ms, x) \in [Memories -> Memory]
         /\ Uncounted(ms, x)[m].count = ms[m].count - Same(x, m)
         /\ Uncounted(ms, x)[m].data = ms[m].data
         /\ x # m => Uncounted(ms, x)[m].state = ms[m].state
         /\ x = m /\ ms[m].count > 1 => Uncounted(ms, x)[m].state = ms[m].state
         /\ x = m /\ ms[m].count = 1 => Uncounted(ms, x)[m].state = "freed"
<1>1. CASE x = NoMemory
  BY <1>1, BufferAssumption DEF Uncounted, One, Same, Memory
<1>2. CASE x \in Memories /\ x # NoMemory
  <2> DEFINE r == Freed(ms[x])
  <2>1. /\ r \in Memory /\ r.count = ms[x].count - 1 /\ r.data = ms[x].data
        /\ ms[x].count > 1 => r.state = ms[x].state
        /\ ms[x].count = 1 => r.state = "freed"
    <3> DEFINE s == IF ms[x].count > 1 THEN ms[x].state
                    ELSE IF ms[x].count = 1 THEN "freed" ELSE "freedTwice"
    <3>1. ms[x] \in Memory
      BY <1>2
    <3>2. /\ ms[x].count \in Int /\ ms[x].state \in {"none", "allocated", "freed", "freedTwice"}
          /\ s \in {"none", "allocated", "freed", "freedTwice"}
          /\ ms[x].count > 1 => s = ms[x].state
          /\ ms[x].count = 1 => s = "freed"
      BY <3>1 DEF Memory
    <3>3. r = [ms[x] EXCEPT !.count = ms[x].count - 1, !.state = s]
      BY DEF Freed
    <3> HIDE DEF s
    <3>4. r = [state |-> s, count |-> ms[x].count - 1, data |-> ms[x].data]
      BY <3>1, <3>3 DEF Memory
    <3>5. ms[x].data \in Contents
      BY <3>1 DEF Memory
    <3> HIDE DEF r
    <3>6. r.count = ms[x].count - 1 /\ r.state = s /\ r.data = ms[x].data
      BY <3>4
    <3>7. r \in Memory
      BY <3>2, <3>4, <3>5 DEF Memory
    <3> QED
      BY <3>2, <3>6, <3>7
  <2>2. Uncounted(ms, x) = [ms EXCEPT ![x] = r]
    BY <1>2 DEF Uncounted
  <2>3. ms[m].count \in Int
    BY DEF Memory
  <2> HIDE DEF r
  <2> QED
    BY <1>2, <2>1, <2>2, <2>3 DEF One, Same
<1> QED
  BY <1>1, <1>2, BufferAssumption

(* What becomes of the account as one user comes, goes, or makes memory.   *)
LEMMA UserComes ==
  ASSUME NEW ms \in [Memories -> Memory], NEW x \in Memories \cup {NoMemory},
         NEW locals, NEW js, NEW kept, NEW locals2, NEW js2, NEW kept2,
         Accounted(ms, locals, js, kept),
         x # NoMemory => Users(locals, js, kept, x) > 0,
         \A m \in Memories :
           Users(locals2, js2, kept2, m) = Users(locals, js, kept, m) + Same(x, m)
  PROVE  Accounted(Counted(ms, x), locals2, js2, kept2)
<1> SUFFICES ASSUME NEW m \in Memories
             PROVE  IsAccounted(Counted(ms, x)[m], Users(locals2, js2, kept2, m))
  BY DEF Accounted
<1> DEFINE u == Users(locals, js, kept, m)
           v == Users(locals2, js2, kept2, m)
           r == Counted(ms, x)[m]
<1>1. u \in Nat /\ v = u + Same(x, m) /\ IsAccounted(ms[m], u)
  BY UsersAreCounted DEF Accounted
<1>2. r.count = ms[m].count + Same(x, m) /\ r.state = ms[m].state
  BY CountedChanges
<1>3. x = m => u > 0
  BY BufferAssumption
<1> HIDE DEF u, v, r
<1> QED
  BY <1>1, <1>2, <1>3 DEF IsAccounted, One, Same, u, v, r

LEMMA UserGoes ==
  ASSUME NEW ms \in [Memories -> Memory], NEW x \in Memories \cup {NoMemory},
         NEW locals, NEW js, NEW kept, NEW locals2, NEW js2, NEW kept2,
         Accounted(ms, locals, js, kept),
         x # NoMemory => Users(locals, js, kept, x) > 0,
         \A m \in Memories :
           Users(locals2, js2, kept2, m) = Users(locals, js, kept, m) - Same(x, m)
  PROVE  Accounted(Uncounted(ms, x), locals2, js2, kept2)
<1> SUFFICES ASSUME NEW m \in Memories
             PROVE  IsAccounted(Uncounted(ms, x)[m], Users(locals2, js2, kept2, m))
  BY DEF Accounted
<1> DEFINE u == Users(locals, js, kept, m)
           v == Users(locals2, js2, kept2, m)
           r == Uncounted(ms, x)[m]
<1>1. u \in Nat /\ v = u - Same(x, m) /\ IsAccounted(ms[m], u)
  BY UsersAreCounted DEF Accounted
<1>2. /\ r.count = ms[m].count - Same(x, m)
      /\ x # m => r.state = ms[m].state
      /\ x = m /\ ms[m].count > 1 => r.state = ms[m].state
      /\ x = m /\ ms[m].count = 1 => r.state = "freed"
  BY UncountedChanges
<1>3. x = m => u > 0
  BY BufferAssumption
<1> HIDE DEF u, v, r
<1>4. CASE x = m
  BY <1>1, <1>2, <1>3, <1>4 DEF IsAccounted, One, Same, u, v, r
<1>5. CASE x # m
  BY <1>1, <1>2, <1>5 DEF IsAccounted, One, Same, u, v, r
<1> QED
  BY <1>4, <1>5

Made(ms, x, d) == [ms EXCEPT ![x] = [state |-> "allocated", count |-> 1, data |-> d]]

LEMMA UserAllocates ==
  ASSUME NEW ms \in [Memories -> Memory], NEW x \in Memories, NEW d \in Contents,
         NEW locals, NEW js, NEW kept, NEW locals2, NEW js2, NEW kept2,
         Accounted(ms, locals, js, kept), ms[x].state = "none",
         \A m \in Memories :
           Users(locals2, js2, kept2, m) = Users(locals, js, kept, m) + Same(x, m)
  PROVE  Accounted(Made(ms, x, d), locals2, js2, kept2)
<1> DEFINE n == [state |-> "allocated", count |-> 1, data |-> d]
           ms2 == Made(ms, x, d)
<1>1. n \in Memory /\ n.state = "allocated" /\ n.count = 1 /\ n.data = d
  BY DEF Memory
<1> HIDE DEF n
<1>2. /\ ms2 \in [Memories -> Memory] /\ ms2[x] = n
      /\ \A m \in Memories : m # x => ms2[m] = ms[m]
  BY <1>1 DEF Made, n
<1> HIDE DEF ms2
<1>3. Users(locals, js, kept, x) = 0
  BY UsersAreCounted DEF Accounted, IsAccounted
<1>4. ASSUME NEW m \in Memories PROVE IsAccounted(ms2[m], Users(locals2, js2, kept2, m))
  <2>1. CASE m = x
    BY <1>1, <1>2, <1>3, <2>1 DEF IsAccounted, One, Same
  <2>2. CASE m # x
    <3>1. Users(locals2, js2, kept2, m) = Users(locals, js, kept, m)
      BY <2>2, UsersAreCounted DEF One, Same
    <3> QED
      BY <1>2, <2>2, <3>1 DEF Accounted
  <2> QED
    BY <2>1, <2>2
<1> QED
  BY <1>4 DEF Accounted, ms2

LEMMA UsersStay ==
  ASSUME NEW ms, NEW ms2, NEW locals, NEW js, NEW kept, NEW locals2, NEW js2, NEW kept2,
         Accounted(ms, locals, js, kept),
         \A m \in Memories : ms2[m].count = ms[m].count /\ ms2[m].state = ms[m].state,
         \A m \in Memories : Users(locals2, js2, kept2, m) = Users(locals, js, kept, m)
  PROVE  Accounted(ms2, locals2, js2, kept2)
  BY DEF Accounted, IsAccounted

LEMMA FitsDepends ==
  ASSUME NEW r, NEW js, NEW ms, NEW js2, NEW ms2, Fits(r, js, ms),
         r.inStep =>
           /\ js2[r.val].kind = js[r.val].kind /\ js2[r.val].data = js[r.val].data
           /\ ms2[r.backing].data = ms[r.backing].data
  PROVE  Fits(r, js2, ms2)
  BY DEF Fits

(* A Local that has memory uses it.                                        *)
LEMMA BackingIsUsed ==
  ASSUME BufferInv, NEW l \in BufferLocals, bufferLocals[l].backing # NoMemory
  PROVE  LET m == bufferLocals[l].backing
         IN  /\ m \in Memories /\ Users(bufferLocals, jsBuffers, held, m) > 0
             /\ bufferLocals[l].alive
<1>1. bufferLocals[l] \in BufferLocal /\ Fits(bufferLocals[l], jsBuffers, memories)
  BY DEF BufferInv, BufferTypeOK
<1>2. bufferLocals[l].backing \in Memories
  BY <1>1 DEF BufferLocal
<1>3. bufferLocals[l].alive
  BY <1>1 DEF Fits, Dead
<1> QED
  BY <1>2, <1>3, UsersAreCounted

-----------------------------------------------------------------------------
(* Commits.                                                                *)

LEMMA CommitFits ==
  ASSUME BufferInv, NEW r \in BufferLocal, NEW locals \in [BufferLocals -> BufferLocal],
         \A l \in BufferLocals : Fits(locals[l], jsBuffers, memories)
  PROVE  LET js    == Committed(r)
             after == AfterCommit(locals, r)
         IN  /\ js \in [JsBuffers -> JsBuffer]
             /\ \A j \in JsBuffers :
                  /\ js[j].kind = jsBuffers[j].kind
                  /\ js[j].owns = jsBuffers[j].owns /\ js[j].memory = jsBuffers[j].memory
             /\ after \in [BufferLocals -> BufferLocal]
             /\ \A l \in BufferLocals :
                  /\ after[l].backing = locals[l].backing
                  /\ Fits(after[l], js, memories)
<1> DEFINE js == Committed(r)
           after == AfterCommit(locals, r)
<1>1. /\ jsBuffers \in [JsBuffers -> JsBuffer] /\ memories \in [Memories -> Memory]
      /\ r.val \in JsBuffers \cup {NoBuffer} /\ r.backing \in Memories \cup {NoMemory}
  BY DEF BufferInv, BufferTypeOK, BufferLocal
<1>2. CASE ~Copies(r)
  <2>1. js = jsBuffers /\ after = locals
    BY <1>2 DEF Committed, AfterCommit
  <2> QED
    BY <1>1, <2>1
<1>3. CASE Copies(r)
  <2>1. /\ r.val \in JsBuffers /\ r.backing \in Memories /\ jsBuffers[r.val].kind = "array"
        /\ r.val # NoBuffer /\ r.backing # NoMemory
    BY <1>1, <1>3 DEF Copies
  <2> DEFINE d == memories[r.backing].data
             b == [jsBuffers[r.val] EXCEPT !.data = d]
  <2>2. d \in Contents /\ jsBuffers[r.val] \in JsBuffer
    BY <1>1, <2>1 DEF Memory
  <2>3. /\ b \in JsBuffer /\ b.data = d /\ b.kind = "array"
        /\ b.owns = jsBuffers[r.val].owns /\ b.memory = jsBuffers[r.val].memory
    BY <2>1, <2>2 DEF JsBuffer
  <2>4. js = [jsBuffers EXCEPT ![r.val] = b]
    BY <1>1, <1>3 DEF Committed
  <2> HIDE DEF b, js
  <2>5. /\ js \in [JsBuffers -> JsBuffer] /\ js[r.val] = b
        /\ \A j \in JsBuffers : j # r.val => js[j] = jsBuffers[j]
    BY <1>1, <2>1, <2>3, <2>4
  <2>6. after = [l \in BufferLocals |->
                   IF locals[l].val # r.val THEN locals[l]
                   ELSE [locals[l] EXCEPT !.inStep = locals[l].backing = r.backing]]
    BY <1>3 DEF AfterCommit
  <2> HIDE DEF after
  <2>7. ASSUME NEW l \in BufferLocals
        PROVE  /\ after[l] \in BufferLocal /\ after[l].backing = locals[l].backing
               /\ Fits(after[l], js, memories)
    <3>1. /\ locals[l] \in BufferLocal /\ Fits(locals[l], jsBuffers, memories)
          /\ locals[l].val \in JsBuffers \cup {NoBuffer}
      BY DEF BufferLocal
    <3>2. CASE locals[l].val # r.val
      <4>1. after[l] = locals[l]
        BY <2>6, <3>2
      <4>2. locals[l].inStep =>
              locals[l].val \in JsBuffers /\ js[locals[l].val] = jsBuffers[locals[l].val]
        BY <2>5, <3>1, <3>2 DEF Fits
      <4> QED
        BY <3>1, <4>1, <4>2 DEF Fits
    <3>3. CASE locals[l].val = r.val
      <4> DEFINE c == [locals[l] EXCEPT !.inStep = locals[l].backing = r.backing]
      <4>1. after[l] = c
        BY <2>6, <3>3
      <4>2. /\ c \in BufferLocal /\ c.backing = locals[l].backing /\ c.val = r.val
            /\ c.alive = locals[l].alive
            /\ c.inStep <=> locals[l].backing = r.backing
        BY <3>1, <3>3 DEF BufferLocal
      <4>3. locals[l].alive
        BY <2>1, <3>1, <3>3 DEF Fits, Dead
      <4> HIDE DEF c
      <4>4. Fits(c, js, memories)
        BY <2>1, <2>3, <2>5, <4>2, <4>3 DEF Fits
      <4> QED
        BY <4>1, <4>2, <4>4
    <3> QED
      BY <3>2, <3>3
  <2>8. after \in [BufferLocals -> BufferLocal]
    BY <2>6, <2>7
  <2>9. \A j \in JsBuffers :
          /\ js[j].kind = jsBuffers[j].kind
          /\ js[j].owns = jsBuffers[j].owns /\ js[j].memory = jsBuffers[j].memory
    BY <2>1, <2>3, <2>5
  <2> QED
    BY <2>5, <2>7, <2>8, <2>9 DEF js, after
<1> QED
  BY <1>2, <1>3

-----------------------------------------------------------------------------
(* What buffers, memory and a Local become in a step.                      *)

LEMMA BufferTypes ==
  ASSUME BufferInv
  PROVE  /\ jsBuffers \in [JsBuffers -> JsBuffer] /\ memories \in [Memories -> Memory]
         /\ bufferLocals \in [BufferLocals -> BufferLocal] /\ held \subseteq Memories
         /\ ObjectsFit(jsBuffers)
         /\ \A l \in BufferLocals : Fits(bufferLocals[l], jsBuffers, memories)
         /\ Accounted(memories, bufferLocals, jsBuffers, held)
         /\ \A l \in BufferLocals :
              /\ bufferLocals[l].val \in JsBuffers \cup {NoBuffer}
              /\ bufferLocals[l].backing \in Memories \cup {NoMemory}
         /\ \A j \in JsBuffers : jsBuffers[j].memory \in Memories \cup {NoMemory}
  BY DEF BufferInv, BufferTypeOK, BufferLocal, JsBuffer

LEMMA ArrayIsMade ==
  ASSUME BufferInv, NEW j \in JsBuffers, NEW d \in Contents, ArrayBuffer(j, d)
  PROVE  /\ jsBuffers' \in [JsBuffers -> JsBuffer] /\ ObjectsFit(jsBuffers')
         /\ \A k \in JsBuffers :
              jsBuffers'[k].owns = jsBuffers[k].owns /\ jsBuffers'[k].memory = jsBuffers[k].memory
         /\ jsBuffers'[j].kind = "array" /\ jsBuffers'[j].data = d
         /\ \A l \in BufferLocals : Fits(bufferLocals[l], jsBuffers', memories)
<1> DEFINE r == [jsBuffers[j] EXCEPT !.kind = "array", !.data = d]
<1>1. jsBuffers[j] \in JsBuffer /\ jsBuffers[j].kind = "none"
  BY BufferTypes DEF ArrayBuffer
<1>2. /\ r \in JsBuffer /\ r.kind = "array" /\ r.data = d
      /\ r.owns = jsBuffers[j].owns /\ r.memory = jsBuffers[j].memory
  BY <1>1 DEF JsBuffer
<1>3. jsBuffers' = [jsBuffers EXCEPT ![j] = r]
  BY BufferTypes DEF ArrayBuffer
<1> HIDE DEF r
<1>4. /\ jsBuffers' \in [JsBuffers -> JsBuffer] /\ jsBuffers'[j] = r
      /\ \A k \in JsBuffers : k # j => jsBuffers'[k] = jsBuffers[k]
  BY <1>2, <1>3, BufferTypes
<1>5. ~jsBuffers[j].owns
  BY <1>1, BufferTypes DEF ObjectsFit
<1>6. ObjectsFit(jsBuffers')
  BY <1>2, <1>4, <1>5, BufferTypes DEF ObjectsFit
<1>7. ASSUME NEW l \in BufferLocals PROVE Fits(bufferLocals[l], jsBuffers', memories)
  <2>1. Fits(bufferLocals[l], jsBuffers, memories) /\ bufferLocals[l].val \in JsBuffers \cup {NoBuffer}
    BY BufferTypes
  <2>2. bufferLocals[l].inStep => jsBuffers'[bufferLocals[l].val] = jsBuffers[bufferLocals[l].val]
    BY <1>1, <1>4, <2>1 DEF Fits
  <2> QED
    BY <2>1, <2>2 DEF Fits
<1> QED
  BY <1>2, <1>4, <1>6, <1>7

LEMMA SharedIsMade ==
  ASSUME BufferInv, NEW j \in JsBuffers, NEW m \in Memories, SharedByteBuffer(j, m)
  PROVE  /\ jsBuffers' \in [JsBuffers -> JsBuffer] /\ ObjectsFit(jsBuffers')
         /\ \A k \in JsBuffers : k # j =>
              jsBuffers'[k].owns = jsBuffers[k].owns /\ jsBuffers'[k].memory = jsBuffers[k].memory
         /\ ~jsBuffers[j].owns
         /\ jsBuffers'[j].owns /\ jsBuffers'[j].memory = m
         /\ \A l \in BufferLocals : Fits(bufferLocals[l], jsBuffers', memories)
<1> DEFINE r == [jsBuffers[j] EXCEPT !.kind = "shared", !.memory = m, !.owns = TRUE]
<1>1. jsBuffers[j] \in JsBuffer /\ jsBuffers[j].kind = "none"
  BY BufferTypes DEF SharedByteBuffer
<1>2. r \in JsBuffer /\ r.kind = "shared" /\ r.owns /\ r.memory = m
  BY <1>1 DEF JsBuffer
<1>3. jsBuffers' = [jsBuffers EXCEPT ![j] = r]
  BY BufferTypes DEF SharedByteBuffer
<1> HIDE DEF r
<1>4. /\ jsBuffers' \in [JsBuffers -> JsBuffer] /\ jsBuffers'[j] = r
      /\ \A k \in JsBuffers : k # j => jsBuffers'[k] = jsBuffers[k]
  BY <1>2, <1>3, BufferTypes
<1>5. ~jsBuffers[j].owns
  BY <1>1, BufferTypes DEF ObjectsFit
<1>6. ObjectsFit(jsBuffers')
  BY <1>2, <1>4, BufferTypes DEF ObjectsFit
<1>7. ASSUME NEW l \in BufferLocals PROVE Fits(bufferLocals[l], jsBuffers', memories)
  <2>1. Fits(bufferLocals[l], jsBuffers, memories) /\ bufferLocals[l].val \in JsBuffers \cup {NoBuffer}
    BY BufferTypes
  <2>2. bufferLocals[l].inStep => jsBuffers'[bufferLocals[l].val] = jsBuffers[bufferLocals[l].val]
    BY <1>1, <1>4, <2>1 DEF Fits
  <2> QED
    BY <2>1, <2>2 DEF Fits
<1> QED
  BY <1>2, <1>4, <1>5, <1>6, <1>7

(* Memory that is allocated is that of no Local yet.                       *)
LEMMA MemoryIsMade ==
  ASSUME BufferInv, NEW m \in Memories, NEW d \in Contents, Allocated(m, d), NEW js,
         \A l \in BufferLocals : Fits(bufferLocals[l], js, memories)
  PROVE  /\ memories' \in [Memories -> Memory] /\ memories'[m].data = d
         /\ \A l \in BufferLocals : Fits(bufferLocals[l], js, memories')
<1> DEFINE n == [state |-> "allocated", count |-> 1, data |-> d]
<1>1. memories[m].state = "none" /\ memories' = [memories EXCEPT ![m] = n]
  BY DEF Allocated
<1>2. n \in Memory /\ n.data = d
  BY DEF Memory
<1> HIDE DEF n
<1>3. /\ memories' \in [Memories -> Memory] /\ memories'[m] = n
      /\ \A x \in Memories : x # m => memories'[x] = memories[x]
  BY <1>1, <1>2, BufferTypes
<1>4. ~(Users(bufferLocals, jsBuffers, held, m) > 0)
  BY <1>1, BufferTypes DEF Accounted, IsAccounted
<1>5. ASSUME NEW l \in BufferLocals PROVE Fits(bufferLocals[l], js, memories')
  <2>1. bufferLocals[l].backing # m
    BY <1>4, UsersAreCounted
  <2>2. bufferLocals[l].inStep => memories'[bufferLocals[l].backing] = memories[bufferLocals[l].backing]
    BY <1>3, <2>1, BufferTypes DEF Fits
  <2> QED
    BY <2>2 DEF Fits
<1> QED
  BY <1>2, <1>3, <1>5

(* Memory whose count alone changes.                                       *)
LEMMA DataStays ==
  ASSUME BufferInv, NEW locals, NEW js, NEW ms,
         \A l \in BufferLocals :
           Fits(locals[l], js, memories) /\ locals[l].backing \in Memories \cup {NoMemory},
         \A m \in Memories : ms[m].data = memories[m].data
  PROVE  \A l \in BufferLocals : Fits(locals[l], js, ms)
  BY DEF Fits

LEMMA LocalBecomes ==
  ASSUME BufferInv, NEW l \in BufferLocals, NEW r \in BufferLocal,
         bufferLocals' = [bufferLocals EXCEPT ![l] = r], NEW js, NEW ms,
         \A k \in BufferLocals : k # l => Fits(bufferLocals[k], js, ms), Fits(r, js, ms)
  PROVE  /\ bufferLocals' \in [BufferLocals -> BufferLocal]
         /\ bufferLocals'[l] = r
         /\ \A k \in BufferLocals : k # l => bufferLocals'[k] = bufferLocals[k]
         /\ \A k \in BufferLocals : Fits(bufferLocals'[k], js, ms)
<1>1. /\ bufferLocals' \in [BufferLocals -> BufferLocal] /\ bufferLocals'[l] = r
      /\ \A k \in BufferLocals : k # l => bufferLocals'[k] = bufferLocals[k]
  BY BufferTypes
<1> QED
  BY <1>1

LEMMA DeadFits ==
  ASSUME NEW js, NEW ms
  PROVE  /\ Fits(Dead, js, ms) /\ Dead.backing = NoMemory /\ Dead.val = NoBuffer
         /\ Dead \in BufferLocal
  BY DEF Fits, Dead, BufferLocal

-----------------------------------------------------------------------------
(* Where buffers come from.                                                *)

LEMMA ScriptNewsInv ==
  ASSUME BufferInv, NEW j \in JsBuffers, ScriptNews(j)
  PROVE  BufferInv'
<1>1. CASE \E d \in Contents : ArrayBuffer(j, d) /\ UNCHANGED <<memories, bufferLocals, held>>
  <2>1. PICK d \in Contents : ArrayBuffer(j, d)
    BY <1>1
  <2>2. memories' = memories /\ bufferLocals' = bufferLocals /\ held' = held
    BY <1>1
  <2>3. /\ jsBuffers' \in [JsBuffers -> JsBuffer] /\ ObjectsFit(jsBuffers')
        /\ \A k \in JsBuffers :
             jsBuffers'[k].owns = jsBuffers[k].owns /\ jsBuffers'[k].memory = jsBuffers[k].memory
        /\ \A l \in BufferLocals : Fits(bufferLocals[l], jsBuffers', memories)
    BY <2>1, ArrayIsMade
  <2>4. \A m \in Memories :
          Users(bufferLocals, jsBuffers', held, m) = Users(bufferLocals, jsBuffers, held, m)
    BY <2>3, UsersDepend
  <2>5. Accounted(memories, bufferLocals, jsBuffers', held)
    BY <2>4, BufferTypes, UsersStay
  <2> QED
    BY <2>2, <2>3, <2>5, BufferTypes DEF BufferInv, BufferTypeOK
<1>2. CASE \E m \in Memories, d \in Contents :
             Allocated(m, d) /\ SharedByteBuffer(j, m) /\ UNCHANGED <<bufferLocals, held>>
  <2>1. PICK m \in Memories, d \in Contents : Allocated(m, d) /\ SharedByteBuffer(j, m)
    BY <1>2
  <2>2. bufferLocals' = bufferLocals /\ held' = held
    BY <1>2
  <2>3. /\ jsBuffers' \in [JsBuffers -> JsBuffer] /\ ObjectsFit(jsBuffers')
        /\ \A k \in JsBuffers : k # j =>
             jsBuffers'[k].owns = jsBuffers[k].owns /\ jsBuffers'[k].memory = jsBuffers[k].memory
        /\ ~jsBuffers[j].owns /\ jsBuffers'[j].owns /\ jsBuffers'[j].memory = m
        /\ \A l \in BufferLocals : Fits(bufferLocals[l], jsBuffers', memories)
    BY <2>1, SharedIsMade
  <2>4. /\ memories' \in [Memories -> Memory]
        /\ \A l \in BufferLocals : Fits(bufferLocals[l], jsBuffers', memories')
    BY <2>1, <2>3, MemoryIsMade
  <2>5. \A x \in Memories :
          Users(bufferLocals, jsBuffers', held, x) =
            Users(bufferLocals, jsBuffers, held, x) + Same(m, x)
    <3> TAKE x \in Memories
    <3>1. Users(bufferLocals, jsBuffers', held, x) =
            Users(bufferLocals, jsBuffers, held, x) - One(jsBuffers[j].owns /\ jsBuffers[j].memory = x)
                                      + One(jsBuffers'[j].owns /\ jsBuffers'[j].memory = x)
      BY <2>3, ObjectChanges
    <3>2. Users(bufferLocals, jsBuffers, held, x) \in Nat
      BY UsersAreCounted
    <3> QED
      BY <2>3, <3>1, <3>2 DEF One, Same
  <2>6. Accounted(memories', bufferLocals, jsBuffers', held)
    <3>1. memories[m].state = "none" /\ memories' = Made(memories, m, d)
      BY <2>1 DEF Allocated, Made
    <3>2. memories \in [Memories -> Memory] /\ Accounted(memories, bufferLocals, jsBuffers, held)
      BY BufferTypes
    <3>3. Accounted(Made(memories, m, d), bufferLocals, jsBuffers', held)
      BY <2>5, <3>1, <3>2, UserAllocates
    <3> QED
      BY <3>1, <3>3
  <2> QED
    BY <2>2, <2>3, <2>4, <2>6, BufferTypes DEF BufferInv, BufferTypeOK
<1> QED
  BY <1>1, <1>2 DEF ScriptNews

LEMMA NewLocal ==
  ASSUME BufferInv, NEW l \in BufferLocals, NEW r, Declare(l, r)
  PROVE  /\ bufferLocals[l].backing = NoMemory
         /\ bufferLocals' = [bufferLocals EXCEPT ![l] = r]
<1>1. ~bufferLocals[l].alive /\ bufferLocals' = [bufferLocals EXCEPT ![l] = r]
  BY DEF Declare
<1>2. bufferLocals[l].backing = NoMemory
  BY <1>1, BufferTypes DEF Fits
<1> QED
  BY <1>1, <1>2

(* The users of memory, when l had none and has got some.                  *)
HasNone(locals, l) == locals[l].backing = NoMemory

LEMMA LocalTakes ==
  ASSUME NEW locals, NEW others, NEW l \in BufferLocals, HasNone(locals, l),
         OthersStay(locals, others, l), NEW js, NEW kept, NEW m \in Memories
  PROVE  Users(others, js, kept, m) = Users(locals, js, kept, m) + Same(others[l].backing, m)
<1>1. Users(others, js, kept, m) =
        Users(locals, js, kept, m) - Same(locals[l].backing, m) + Same(others[l].backing, m)
  BY LocalChanges
<1>2. Users(locals, js, kept, m) \in Nat
  BY UsersAreCounted
<1>3. locals[l].backing # m
  BY BufferAssumption DEF HasNone
<1> QED
  BY <1>1, <1>2, <1>3 DEF One, Same

LEMMA NewByteBufferInv ==
  ASSUME BufferInv, NEW l \in BufferLocals, NEW j \in JsBuffers, NEW m \in Memories,
         NEW d \in Contents, newByteBuffer(l, j, m, d)
  PROVE  BufferInv'
<1> DEFINE r == Holding(j, m, TRUE)
<1>1. /\ ArrayBuffer(j, d) /\ Allocated(m, d) /\ Declare(l, r) /\ held' = held
  BY DEF newByteBuffer
<1>2. /\ r \in BufferLocal /\ r.alive /\ r.val = j /\ r.backing = m /\ r.inStep
  BY DEF Holding, BufferLocal
<1> HIDE DEF r
<1>3. /\ jsBuffers' \in [JsBuffers -> JsBuffer] /\ ObjectsFit(jsBuffers')
      /\ \A k \in JsBuffers :
           jsBuffers'[k].owns = jsBuffers[k].owns /\ jsBuffers'[k].memory = jsBuffers[k].memory
      /\ jsBuffers'[j].kind = "array" /\ jsBuffers'[j].data = d
      /\ \A k \in BufferLocals : Fits(bufferLocals[k], jsBuffers', memories)
  BY <1>1, ArrayIsMade
<1>4. /\ memories' \in [Memories -> Memory] /\ memories'[m].data = d
      /\ \A k \in BufferLocals : Fits(bufferLocals[k], jsBuffers', memories')
  BY <1>1, <1>3, MemoryIsMade
<1>5. Fits(r, jsBuffers', memories')
  BY <1>2, <1>3, <1>4, BufferAssumption DEF Fits
<1>6. bufferLocals[l].backing = NoMemory /\ bufferLocals' = [bufferLocals EXCEPT ![l] = r]
  BY <1>1, NewLocal
<1>7. /\ bufferLocals' \in [BufferLocals -> BufferLocal] /\ bufferLocals'[l] = r
      /\ \A k \in BufferLocals : k # l => bufferLocals'[k] = bufferLocals[k]
      /\ \A k \in BufferLocals : Fits(bufferLocals'[k], jsBuffers', memories')
  BY <1>2, <1>4, <1>5, <1>6, LocalBecomes
<1>8. \A x \in Memories :
        Users(bufferLocals', jsBuffers', held, x) =
          Users(bufferLocals, jsBuffers, held, x) + Same(m, x)
  <2> TAKE x \in Memories
  <2>1. Users(bufferLocals, jsBuffers', held, x) = Users(bufferLocals, jsBuffers, held, x)
    BY <1>3, UsersDepend
  <2>2. Users(bufferLocals', jsBuffers', held, x) =
          Users(bufferLocals, jsBuffers', held, x) + Same(m, x)
    <3>1. /\ OthersStay(bufferLocals, bufferLocals', l) /\ HasNone(bufferLocals, l)
          /\ bufferLocals'[l].backing = m
      BY <1>2, <1>6, <1>7 DEF OthersStay, HasNone
    <3>2. Users(bufferLocals', jsBuffers', held, x) =
            Users(bufferLocals, jsBuffers', held, x) + Same(bufferLocals'[l].backing, x)
      BY <3>1, LocalTakes
    <3> QED
      BY <3>1, <3>2
  <2> QED
    BY <2>1, <2>2
<1>9. Accounted(memories', bufferLocals', jsBuffers', held)
  <2>1. memories[m].state = "none" /\ memories' = Made(memories, m, d)
    BY <1>1 DEF Allocated, Made
  <2>2. memories \in [Memories -> Memory] /\ Accounted(memories, bufferLocals, jsBuffers, held)
    BY BufferTypes
  <2>3. Accounted(Made(memories, m, d), bufferLocals', jsBuffers', held)
    BY <1>8, <2>1, <2>2, UserAllocates
  <2> QED
    BY <2>1, <2>3
<1> QED
  BY <1>1, <1>3, <1>4, <1>7, <1>9, BufferTypes DEF BufferInv, BufferTypeOK

LEMMA NewSharedInv ==
  ASSUME BufferInv, NEW l \in BufferLocals, NEW m \in Memories, NEW d \in Contents,
         newShared(l, m, d)
  PROVE  BufferInv'
<1> DEFINE r == Holding(NoBuffer, m, FALSE)
<1>1. /\ Allocated(m, d) /\ Declare(l, r) /\ jsBuffers' = jsBuffers /\ held' = held
  BY DEF newShared
<1>2. r \in BufferLocal /\ r.alive /\ r.backing = m /\ ~r.inStep
  BY DEF Holding, BufferLocal
<1> HIDE DEF r
<1>3. /\ memories' \in [Memories -> Memory]
      /\ \A k \in BufferLocals : Fits(bufferLocals[k], jsBuffers, memories')
  BY <1>1, MemoryIsMade, BufferTypes
<1>4. bufferLocals[l].backing = NoMemory /\ bufferLocals' = [bufferLocals EXCEPT ![l] = r]
  BY <1>1, NewLocal
<1>5. /\ bufferLocals' \in [BufferLocals -> BufferLocal] /\ bufferLocals'[l] = r
      /\ \A k \in BufferLocals : k # l => bufferLocals'[k] = bufferLocals[k]
      /\ \A k \in BufferLocals : Fits(bufferLocals'[k], jsBuffers, memories')
  <2>1. Fits(r, jsBuffers, memories')
    BY <1>2 DEF Fits
  <2> QED
    BY <1>2, <1>3, <1>4, <2>1, LocalBecomes
<1>6. \A x \in Memories :
        Users(bufferLocals', jsBuffers, held, x) =
          Users(bufferLocals, jsBuffers, held, x) + Same(m, x)
  <2> TAKE x \in Memories
  <2>1. Users(bufferLocals', jsBuffers, held, x) =
          Users(bufferLocals, jsBuffers, held, x) + Same(m, x)
    <3>1. /\ OthersStay(bufferLocals, bufferLocals', l) /\ HasNone(bufferLocals, l)
          /\ bufferLocals'[l].backing = m
      BY <1>2, <1>4, <1>5 DEF OthersStay, HasNone
    <3>2. Users(bufferLocals', jsBuffers, held, x) =
            Users(bufferLocals, jsBuffers, held, x) + Same(bufferLocals'[l].backing, x)
      BY <3>1, LocalTakes
    <3> QED
      BY <3>1, <3>2
  <2> QED
    BY <2>1
<1>7. Accounted(memories', bufferLocals', jsBuffers, held)
  <2>1. memories[m].state = "none" /\ memories' = Made(memories, m, d)
    BY <1>1 DEF Allocated, Made
  <2>2. memories \in [Memories -> Memory] /\ Accounted(memories, bufferLocals, jsBuffers, held)
    BY BufferTypes
  <2>3. Accounted(Made(memories, m, d), bufferLocals', jsBuffers, held)
    BY <1>6, <2>1, <2>2, UserAllocates
  <2> QED
    BY <2>1, <2>3
<1> QED
  BY <1>1, <1>3, <1>5, <1>7, BufferTypes DEF BufferInv, BufferTypeOK

LEMMA AsByteBufferInv ==
  ASSUME BufferInv, NEW l \in BufferLocals, NEW j \in JsBuffers, asByteBuffer(l, j)
  PROVE  BufferInv'
<1> DEFINE r == Holding(j, NoMemory, FALSE)
<1>1. /\ Declare(l, r) /\ jsBuffers' = jsBuffers /\ memories' = memories /\ held' = held
  BY DEF asByteBuffer
<1>2. r \in BufferLocal /\ r.alive /\ r.backing = NoMemory /\ ~r.inStep
  BY DEF Holding, BufferLocal
<1> HIDE DEF r
<1>3. bufferLocals[l].backing = NoMemory /\ bufferLocals' = [bufferLocals EXCEPT ![l] = r]
  BY <1>1, NewLocal
<1>4. /\ bufferLocals' \in [BufferLocals -> BufferLocal] /\ bufferLocals'[l] = r
      /\ \A k \in BufferLocals : k # l => bufferLocals'[k] = bufferLocals[k]
      /\ \A k \in BufferLocals : Fits(bufferLocals'[k], jsBuffers, memories)
  <2>1. Fits(r, jsBuffers, memories) /\ \A k \in BufferLocals : Fits(bufferLocals[k], jsBuffers, memories)
    BY <1>2, BufferTypes DEF Fits
  <2> QED
    BY <1>2, <1>3, <2>1, LocalBecomes
<1>5. \A m \in Memories :
        Users(bufferLocals', jsBuffers, held, m) = Users(bufferLocals, jsBuffers, held, m)
  <2>1. \A k \in BufferLocals : bufferLocals'[k].backing = bufferLocals[k].backing
    BY <1>2, <1>3, <1>4
  <2> QED
    BY <2>1, UsersDepend
<1>6. Accounted(memories, bufferLocals', jsBuffers, held)
  BY <1>5, BufferTypes, UsersStay
<1> QED
  BY <1>1, <1>4, <1>6, BufferTypes DEF BufferInv, BufferTypeOK

LEMMA FillWrapperInv ==
  ASSUME BufferInv, NEW l \in BufferLocals, fillWrapperIfNeed(l)
  PROVE  BufferInv'
<1> DEFINE x == bufferLocals[l].backing
<1>1. /\ bufferLocals[l].val = NoBuffer /\ x # NoMemory /\ held' = held
      /\ memories' = Counted(memories, x)
  BY DEF fillWrapperIfNeed
<1>2. PICK j \in JsBuffers :
        SharedByteBuffer(j, x) /\ bufferLocals' = [bufferLocals EXCEPT ![l].val = j]
  BY DEF fillWrapperIfNeed
<1>3. /\ x \in Memories /\ Users(bufferLocals, jsBuffers, held, x) > 0
      /\ bufferLocals[l].alive
  BY <1>1, BackingIsUsed
<1> DEFINE r == [bufferLocals[l] EXCEPT !.val = j]
<1>4. /\ bufferLocals[l] \in BufferLocal /\ Fits(bufferLocals[l], jsBuffers, memories)
  BY BufferTypes
<1>5. r \in BufferLocal /\ r.alive /\ r.backing = x /\ ~r.inStep
  BY <1>1, <1>3, <1>4 DEF BufferLocal, Fits
<1>6. bufferLocals' = [bufferLocals EXCEPT ![l] = r]
  BY <1>2, BufferTypes
<1> HIDE DEF r, x
<1>7. /\ jsBuffers' \in [JsBuffers -> JsBuffer] /\ ObjectsFit(jsBuffers')
      /\ \A k \in JsBuffers : k # j =>
           jsBuffers'[k].owns = jsBuffers[k].owns /\ jsBuffers'[k].memory = jsBuffers[k].memory
      /\ ~jsBuffers[j].owns /\ jsBuffers'[j].owns /\ jsBuffers'[j].memory = x
      /\ \A k \in BufferLocals : Fits(bufferLocals[k], jsBuffers', memories)
  BY <1>2, <1>3, SharedIsMade
<1>8. /\ memories' \in [Memories -> Memory]
      /\ \A m \in Memories : memories'[m].data = memories[m].data
  BY <1>1, <1>3, CountedChanges, BufferTypes
<1>9. /\ bufferLocals' \in [BufferLocals -> BufferLocal]
      /\ bufferLocals'[l] = r
      /\ \A k \in BufferLocals : k # l => bufferLocals'[k] = bufferLocals[k]
      /\ \A k \in BufferLocals : Fits(bufferLocals'[k], jsBuffers', memories)
  <2>1. Fits(r, jsBuffers', memories)
    BY <1>5 DEF Fits
  <2> QED
    BY <1>5, <1>6, <1>7, <2>1, LocalBecomes
<1>10. \A k \in BufferLocals :
         /\ bufferLocals'[k].backing = bufferLocals[k].backing
         /\ bufferLocals'[k].backing \in Memories \cup {NoMemory}
  BY <1>5, <1>9, BufferTypes DEF x
<1>11. \A k \in BufferLocals : Fits(bufferLocals'[k], jsBuffers', memories')
  BY <1>8, <1>9, <1>10, DataStays
<1>12. \A m \in Memories :
         Users(bufferLocals', jsBuffers', held, m) =
           Users(bufferLocals, jsBuffers, held, m) + Same(x, m)
  <2> TAKE m \in Memories
  <2>1. Users(bufferLocals', jsBuffers', held, m) = Users(bufferLocals, jsBuffers', held, m)
    BY <1>10, UsersDepend
  <2>2. Users(bufferLocals, jsBuffers', held, m) =
          Users(bufferLocals, jsBuffers, held, m) - One(jsBuffers[j].owns /\ jsBuffers[j].memory = m)
                                    + One(jsBuffers'[j].owns /\ jsBuffers'[j].memory = m)
    BY <1>7, ObjectChanges
  <2>3. Users(bufferLocals, jsBuffers, held, m) \in Nat
    BY UsersAreCounted
  <2> QED
    BY <1>7, <2>1, <2>2, <2>3 DEF One, Same
<1>13. Accounted(memories', bufferLocals', jsBuffers', held)
  <2>1. Accounted(Counted(memories, x), bufferLocals', jsBuffers', held)
    BY <1>3, <1>12, BufferTypes, UserComes
  <2> QED
    BY <1>1, <2>1
<1> QED
  BY <1>1, <1>7, <1>8, <1>9, <1>11, <1>13, BufferTypes DEF BufferInv, BufferTypeOK

(* The Local's copy of the ArrayBuffer, or its share of the memory.        *)
LEMMA FillBackingInv ==
  ASSUME BufferInv, NEW l \in BufferLocals, fillBackingStore(l)
  PROVE  BufferInv'
<1> DEFINE j == bufferLocals[l].val
<1>1. /\ bufferLocals[l].backing = NoMemory /\ j # NoBuffer
      /\ jsBuffers' = jsBuffers /\ held' = held
  BY DEF fillBackingStore
<1>2. /\ j \in JsBuffers /\ bufferLocals[l] \in BufferLocal
      /\ Fits(bufferLocals[l], jsBuffers, memories) /\ jsBuffers[j] \in JsBuffer
  BY <1>1, BufferTypes
<1>3. bufferLocals[l].alive /\ ~bufferLocals[l].inStep /\ HasNone(bufferLocals, l)
  BY <1>1, <1>2 DEF Fits, Dead, HasNone
<1>4. CASE /\ jsBuffers[j].kind = "array"
           /\ \E m \in Memories :
                /\ Allocated(m, jsBuffers[j].data)
                /\ bufferLocals' = [bufferLocals EXCEPT ![l] = Holding(j, m, TRUE)]
  <2> DEFINE d == jsBuffers[j].data
  <2>1. PICK m \in Memories :
          Allocated(m, d) /\ bufferLocals' = [bufferLocals EXCEPT ![l] = Holding(j, m, TRUE)]
    BY <1>4
  <2> DEFINE r == Holding(j, m, TRUE)
  <2>2. r \in BufferLocal /\ r.alive /\ r.val = j /\ r.backing = m /\ r.inStep
    BY <1>2 DEF Holding, BufferLocal
  <2>3. bufferLocals' = [bufferLocals EXCEPT ![l] = r]
    BY <2>1
  <2>4. d \in Contents
    BY <1>2 DEF JsBuffer
  <2> HIDE DEF r
  <2>5. /\ memories' \in [Memories -> Memory] /\ memories'[m].data = d
        /\ \A k \in BufferLocals : Fits(bufferLocals[k], jsBuffers, memories')
    BY <2>1, <2>4, MemoryIsMade, BufferTypes
  <2>6. Fits(r, jsBuffers, memories')
    BY <1>1, <1>4, <2>2, <2>5, BufferAssumption DEF Fits
  <2>7. /\ bufferLocals' \in [BufferLocals -> BufferLocal] /\ bufferLocals'[l] = r
        /\ \A k \in BufferLocals : k # l => bufferLocals'[k] = bufferLocals[k]
        /\ \A k \in BufferLocals : Fits(bufferLocals'[k], jsBuffers, memories')
    BY <2>2, <2>3, <2>5, <2>6, LocalBecomes
  <2>8. OthersStay(bufferLocals, bufferLocals', l) /\ bufferLocals'[l].backing = m
    BY <2>2, <2>7 DEF OthersStay
  <2>9. \A x \in Memories :
          Users(bufferLocals', jsBuffers, held, x) =
            Users(bufferLocals, jsBuffers, held, x) + Same(m, x)
    <3> TAKE x \in Memories
    <3>1. Users(bufferLocals', jsBuffers, held, x) =
            Users(bufferLocals, jsBuffers, held, x) + Same(bufferLocals'[l].backing, x)
      BY <1>3, <2>8, LocalTakes
    <3> QED
      BY <2>8, <3>1
  <2>10. Accounted(memories', bufferLocals', jsBuffers, held)
    <3>1. memories[m].state = "none" /\ memories' = Made(memories, m, d)
      BY <2>1 DEF Allocated, Made
    <3>2. memories \in [Memories -> Memory] /\ Accounted(memories, bufferLocals, jsBuffers, held)
      BY BufferTypes
    <3>3. Accounted(Made(memories, m, d), bufferLocals', jsBuffers, held)
      BY <2>4, <2>9, <3>1, <3>2, UserAllocates
    <3> QED
      BY <3>1, <3>3
  <2> QED
    BY <1>1, <2>5, <2>7, <2>10, BufferTypes DEF BufferInv, BufferTypeOK
<1>5. CASE /\ jsBuffers[j].kind = "shared" /\ jsBuffers[j].owns
           /\ memories' = Counted(memories, jsBuffers[j].memory)
           /\ bufferLocals' = [bufferLocals EXCEPT ![l].backing = jsBuffers[j].memory]
  <2> DEFINE x == jsBuffers[j].memory
             r == [bufferLocals[l] EXCEPT !.backing = x]
  <2>1. x \in Memories /\ Users(bufferLocals, jsBuffers, held, x) > 0
    BY <1>2, <1>5, BufferTypes, UsersAreCounted DEF ObjectsFit
  <2>2. r \in BufferLocal /\ r.alive /\ r.backing = x /\ ~r.inStep
    BY <1>2, <1>3, <2>1 DEF BufferLocal
  <2>3. bufferLocals' = [bufferLocals EXCEPT ![l] = r] /\ memories' = Counted(memories, x)
    BY <1>5, BufferTypes
  <2> HIDE DEF r, x
  <2>4. /\ memories' \in [Memories -> Memory]
        /\ \A m \in Memories : memories'[m].data = memories[m].data
    BY <2>1, <2>3, CountedChanges, BufferTypes
  <2>5. Fits(r, jsBuffers, memories)
    BY <2>2 DEF Fits
  <2>6. /\ bufferLocals' \in [BufferLocals -> BufferLocal] /\ bufferLocals'[l] = r
        /\ \A k \in BufferLocals : k # l => bufferLocals'[k] = bufferLocals[k]
        /\ \A k \in BufferLocals : Fits(bufferLocals'[k], jsBuffers, memories)
    BY <2>2, <2>3, <2>5, LocalBecomes, BufferTypes
  <2>7. \A k \in BufferLocals : Fits(bufferLocals'[k], jsBuffers, memories')
    <3>1. \A k \in BufferLocals : bufferLocals'[k].backing \in Memories \cup {NoMemory}
      BY <2>6 DEF BufferLocal
    <3> QED
      BY <2>4, <2>6, <3>1, DataStays
  <2>8. OthersStay(bufferLocals, bufferLocals', l) /\ bufferLocals'[l].backing = x
    BY <2>2, <2>6 DEF OthersStay
  <2>9. \A m \in Memories :
          Users(bufferLocals', jsBuffers, held, m) =
            Users(bufferLocals, jsBuffers, held, m) + Same(x, m)
    <3> TAKE m \in Memories
    <3>1. Users(bufferLocals', jsBuffers, held, m) =
            Users(bufferLocals, jsBuffers, held, m) + Same(bufferLocals'[l].backing, m)
      BY <1>3, <2>8, LocalTakes
    <3> QED
      BY <2>8, <3>1
  <2>10. Accounted(Counted(memories, x), bufferLocals', jsBuffers, held)
    BY <2>1, <2>9, BufferTypes, UserComes
  <2> QED
    BY <1>1, <2>3, <2>4, <2>6, <2>7, <2>10, BufferTypes DEF BufferInv, BufferTypeOK
<1> QED
  BY <1>4, <1>5 DEF fillBackingStore

-----------------------------------------------------------------------------
(* Writes, and copies between the two sides.                               *)

(* The data of m alone changes.                                            *)
LEMMA MemoryIsWritten ==
  ASSUME BufferInv, NEW m \in Memories, NEW d \in Contents,
         memories' = [memories EXCEPT ![m].data = d]
  PROVE  /\ memories' \in [Memories -> Memory] /\ memories'[m].data = d
         /\ \A x \in Memories :
              memories'[x].count = memories[x].count /\ memories'[x].state = memories[x].state
         /\ \A x \in Memories : x # m => memories'[x] = memories[x]
<1> DEFINE n == [memories[m] EXCEPT !.data = d]
<1>1. memories \in [Memories -> Memory] /\ memories[m] \in Memory
  BY BufferTypes
<1>2. /\ n \in Memory /\ n.data = d
      /\ n.count = memories[m].count /\ n.state = memories[m].state
  BY <1>1 DEF Memory
<1>3. memories' = [memories EXCEPT ![m] = n]
  BY <1>1
<1> HIDE DEF n
<1>4. /\ memories' \in [Memories -> Memory] /\ memories'[m] = n
      /\ \A x \in Memories : x # m => memories'[x] = memories[x]
  BY <1>1, <1>2, <1>3
<1> QED
  BY <1>2, <1>4

(* Locals keep what they use as they lose step.                            *)
LEMMA StepIsSet ==
  ASSUME NEW r \in BufferLocal, NEW b \in BOOLEAN
  PROVE  LET s == [r EXCEPT !.inStep = b]
         IN  /\ s \in BufferLocal /\ s.inStep = b
             /\ s.alive = r.alive /\ s.val = r.val /\ s.backing = r.backing
  BY DEF BufferLocal

LEMMA WriteMemoryInv ==
  ASSUME BufferInv, NEW m \in Memories, NEW d \in Contents, WriteMemory(m, d),
         jsBuffers' = jsBuffers, held' = held
  PROVE  BufferInv'
<1>1. /\ memories' = [memories EXCEPT ![m].data = d]
      /\ bufferLocals' = [l \in BufferLocals |->
           [bufferLocals[l] EXCEPT !.inStep = @ /\ bufferLocals[l].backing # m]]
  BY DEF WriteMemory
<1>2. /\ memories' \in [Memories -> Memory]
      /\ \A x \in Memories :
           memories'[x].count = memories[x].count /\ memories'[x].state = memories[x].state
      /\ \A x \in Memories : x # m => memories'[x] = memories[x]
  BY <1>1, MemoryIsWritten
<1>3. ASSUME NEW l \in BufferLocals
      PROVE  /\ bufferLocals'[l] \in BufferLocal
             /\ bufferLocals'[l].backing = bufferLocals[l].backing
             /\ Fits(bufferLocals'[l], jsBuffers, memories')
  <2> DEFINE b == bufferLocals[l].inStep /\ bufferLocals[l].backing # m
             s == [bufferLocals[l] EXCEPT !.inStep = b]
  <2>1. /\ bufferLocals[l] \in BufferLocal /\ Fits(bufferLocals[l], jsBuffers, memories)
        /\ bufferLocals[l].backing \in Memories \cup {NoMemory}
    BY BufferTypes
  <2>2. bufferLocals'[l] = s
    BY <1>1
  <2>3. b \in BOOLEAN
    OBVIOUS
  <2>4. b => bufferLocals[l].inStep /\ bufferLocals[l].backing # m
    OBVIOUS
  <2> HIDE DEF b
  <2>5. /\ s \in BufferLocal /\ s.inStep = b
        /\ s.alive = bufferLocals[l].alive /\ s.val = bufferLocals[l].val
        /\ s.backing = bufferLocals[l].backing
    BY <2>1, <2>3, StepIsSet
  <2> HIDE DEF s
  <2>7. b => memories'[s.backing] = memories[s.backing]
    BY <1>2, <2>1, <2>4, <2>5 DEF Fits
  <2>8. Fits(s, jsBuffers, memories')
    BY <2>1, <2>4, <2>5, <2>7 DEF Fits
  <2> QED
    BY <2>2, <2>5, <2>8
<1>4. bufferLocals' \in [BufferLocals -> BufferLocal]
  BY <1>1, <1>3
<1>5. \A x \in Memories :
        Users(bufferLocals', jsBuffers, held, x) = Users(bufferLocals, jsBuffers, held, x)
  BY <1>3, UsersDepend
<1>6. Accounted(memories', bufferLocals', jsBuffers, held)
  BY <1>2, <1>5, BufferTypes, UsersStay
<1> QED
  BY <1>2, <1>3, <1>4, <1>6, BufferTypes DEF BufferInv, BufferTypeOK

LEMMA ScriptWritesInv ==
  ASSUME BufferInv, NEW j \in JsBuffers, NEW d \in Contents, ScriptWrites(j, d)
  PROVE  BufferInv'
<1>1. CASE /\ jsBuffers[j].kind = "array"
           /\ jsBuffers' = [jsBuffers EXCEPT ![j].data = d]
           /\ bufferLocals' = [l \in BufferLocals |->
                [bufferLocals[l] EXCEPT !.inStep = @ /\ bufferLocals[l].val # j]]
           /\ UNCHANGED <<memories, held>>
  <2> DEFINE b == [jsBuffers[j] EXCEPT !.data = d]
  <2>1. jsBuffers[j] \in JsBuffer /\ memories' = memories /\ held' = held
    BY <1>1, BufferTypes
  <2>2. /\ b \in JsBuffer /\ b.kind = jsBuffers[j].kind
        /\ b.owns = jsBuffers[j].owns /\ b.memory = jsBuffers[j].memory
    BY <2>1 DEF JsBuffer
  <2>3. jsBuffers' = [jsBuffers EXCEPT ![j] = b]
    BY <1>1, BufferTypes
  <2> HIDE DEF b
  <2>4. /\ jsBuffers' \in [JsBuffers -> JsBuffer] /\ jsBuffers'[j] = b
        /\ \A k \in JsBuffers : k # j => jsBuffers'[k] = jsBuffers[k]
    BY <2>2, <2>3, BufferTypes
  <2>5. \A k \in JsBuffers :
          /\ jsBuffers'[k].kind = jsBuffers[k].kind
          /\ jsBuffers'[k].owns = jsBuffers[k].owns /\ jsBuffers'[k].memory = jsBuffers[k].memory
    BY <2>2, <2>4
  <2>6. ASSUME NEW l \in BufferLocals
        PROVE  /\ bufferLocals'[l] \in BufferLocal
               /\ bufferLocals'[l].backing = bufferLocals[l].backing
               /\ Fits(bufferLocals'[l], jsBuffers', memories)
    <3> DEFINE c == bufferLocals[l].inStep /\ bufferLocals[l].val # j
               s == [bufferLocals[l] EXCEPT !.inStep = c]
    <3>1. /\ bufferLocals[l] \in BufferLocal /\ Fits(bufferLocals[l], jsBuffers, memories)
          /\ bufferLocals[l].val \in JsBuffers \cup {NoBuffer}
      BY BufferTypes
    <3>2. bufferLocals'[l] = s
      BY <1>1
    <3>3. c \in BOOLEAN /\ (c => bufferLocals[l].inStep /\ bufferLocals[l].val # j)
      OBVIOUS
    <3> HIDE DEF c
    <3>4. /\ s \in BufferLocal /\ s.inStep = c
          /\ s.alive = bufferLocals[l].alive /\ s.val = bufferLocals[l].val
          /\ s.backing = bufferLocals[l].backing
      BY <3>1, <3>3, StepIsSet
    <3> HIDE DEF s
    <3>5. c => jsBuffers'[s.val] = jsBuffers[s.val]
      BY <2>4, <3>1, <3>3, <3>4 DEF Fits
    <3>6. Fits(s, jsBuffers', memories)
      BY <3>1, <3>3, <3>4, <3>5 DEF Fits
    <3> QED
      BY <3>2, <3>4, <3>6
  <2>7. bufferLocals' \in [BufferLocals -> BufferLocal]
    BY <1>1, <2>6
  <2>8. ObjectsFit(jsBuffers')
    BY <2>5, BufferTypes DEF ObjectsFit
  <2>9. \A x \in Memories :
          Users(bufferLocals', jsBuffers', held, x) = Users(bufferLocals, jsBuffers, held, x)
    BY <2>5, <2>6, UsersDepend
  <2>10. Accounted(memories, bufferLocals', jsBuffers', held)
    BY <2>9, BufferTypes, UsersStay
  <2> QED
    BY <2>1, <2>4, <2>6, <2>7, <2>8, <2>10, BufferTypes DEF BufferInv, BufferTypeOK
<1>2. CASE /\ jsBuffers[j].owns /\ WriteMemory(jsBuffers[j].memory, d)
           /\ UNCHANGED <<jsBuffers, held>>
  <2>1. /\ jsBuffers[j].memory \in Memories /\ WriteMemory(jsBuffers[j].memory, d)
        /\ jsBuffers' = jsBuffers /\ held' = held
    BY <1>2, BufferTypes DEF ObjectsFit
  <2> QED
    BY <2>1, WriteMemoryInv
<1> QED
  BY <1>1, <1>2 DEF ScriptWrites

LEMMA WriteBytesInv ==
  ASSUME BufferInv, NEW l \in BufferLocals, NEW d \in Contents, WriteBytes(l, d)
  PROVE  BufferInv'
<1>1. /\ bufferLocals[l].backing \in Memories /\ WriteMemory(bufferLocals[l].backing, d)
      /\ jsBuffers' = jsBuffers /\ held' = held
  BY BufferTypes DEF WriteBytes
<1> QED
  BY <1>1, WriteMemoryInv

LEMMA CommitInv ==
  ASSUME BufferInv, NEW l \in BufferLocals, commit(l)
  PROVE  BufferInv'
<1> DEFINE r == bufferLocals[l]
<1>1. /\ jsBuffers' = Committed(r) /\ bufferLocals' = AfterCommit(bufferLocals, r)
      /\ memories' = memories /\ held' = held
  BY DEF commit
<1>2. r \in BufferLocal
  BY BufferTypes
<1> HIDE DEF r
<1>3. /\ jsBuffers' \in [JsBuffers -> JsBuffer]
      /\ \A j \in JsBuffers :
           /\ jsBuffers'[j].kind = jsBuffers[j].kind
           /\ jsBuffers'[j].owns = jsBuffers[j].owns /\ jsBuffers'[j].memory = jsBuffers[j].memory
      /\ bufferLocals' \in [BufferLocals -> BufferLocal]
      /\ \A k \in BufferLocals :
           /\ bufferLocals'[k].backing = bufferLocals[k].backing
           /\ Fits(bufferLocals'[k], jsBuffers', memories)
  BY <1>1, <1>2, CommitFits, BufferTypes
<1>4. ObjectsFit(jsBuffers')
  BY <1>3, BufferTypes DEF ObjectsFit
<1>5. \A x \in Memories :
        Users(bufferLocals', jsBuffers', held, x) = Users(bufferLocals, jsBuffers, held, x)
  BY <1>3, UsersDepend
<1>6. Accounted(memories, bufferLocals', jsBuffers', held)
  BY <1>5, BufferTypes, UsersStay
<1> QED
  BY <1>1, <1>3, <1>4, <1>6, BufferTypes DEF BufferInv, BufferTypeOK

LEMMA SyncInv ==
  ASSUME BufferInv, NEW l \in BufferLocals, sync(l)
  PROVE  BufferInv'
<1> DEFINE j == bufferLocals[l].val
           m == bufferLocals[l].backing
           d == jsBuffers[j].data
<1>1. /\ j # NoBuffer /\ m # NoMemory /\ jsBuffers[j].kind = "array"
      /\ memories' = [memories EXCEPT ![m].data = d]
      /\ jsBuffers' = jsBuffers /\ held' = held
      /\ bufferLocals' = [k \in BufferLocals |->
           [bufferLocals[k] EXCEPT !.inStep =
              IF bufferLocals[k].backing = m THEN bufferLocals[k].val = j ELSE @]]
  BY DEF sync, Copies
<1>2. j \in JsBuffers /\ m \in Memories /\ d \in Contents
  <2>1. j \in JsBuffers /\ m \in Memories /\ jsBuffers[j] \in JsBuffer
    BY <1>1, BufferTypes
  <2> QED
    BY <2>1 DEF JsBuffer
<1> HIDE DEF j, m
<1>3. /\ memories' \in [Memories -> Memory] /\ memories'[m].data = d
      /\ \A x \in Memories :
           memories'[x].count = memories[x].count /\ memories'[x].state = memories[x].state
      /\ \A x \in Memories : x # m => memories'[x] = memories[x]
  BY <1>1, <1>2, MemoryIsWritten
<1>4. ASSUME NEW k \in BufferLocals
      PROVE  /\ bufferLocals'[k] \in BufferLocal
             /\ bufferLocals'[k].backing = bufferLocals[k].backing
             /\ Fits(bufferLocals'[k], jsBuffers, memories')
  <2> DEFINE b == IF bufferLocals[k].backing = m THEN bufferLocals[k].val = j
                  ELSE bufferLocals[k].inStep
             s == [bufferLocals[k] EXCEPT !.inStep = b]
  <2>1. /\ bufferLocals[k] \in BufferLocal /\ Fits(bufferLocals[k], jsBuffers, memories)
        /\ bufferLocals[k].backing \in Memories \cup {NoMemory}
        /\ bufferLocals[k].inStep \in BOOLEAN
    BY BufferTypes DEF BufferLocal
  <2>2. bufferLocals'[k] = s
    BY <1>1
  <2>3. /\ b \in BOOLEAN
        /\ bufferLocals[k].backing = m /\ b => bufferLocals[k].val = j
        /\ bufferLocals[k].backing # m /\ b => bufferLocals[k].inStep
    BY <2>1
  <2> HIDE DEF b
  <2>4. /\ s \in BufferLocal /\ s.inStep = b
        /\ s.alive = bufferLocals[k].alive /\ s.val = bufferLocals[k].val
        /\ s.backing = bufferLocals[k].backing
    BY <2>1, <2>3, StepIsSet
  <2> HIDE DEF s
  <2>5. CASE s.backing = m
    <3>1. s.alive
      BY <1>1, <2>1, <2>4, <2>5 DEF Fits
    <3>2. b => s.val = j
      BY <2>3, <2>4, <2>5
    <3>3. Fits(s, jsBuffers, memories')
      BY <1>1, <1>3, <2>4, <2>5, <3>1, <3>2 DEF Fits
    <3> QED
      BY <2>2, <2>4, <3>3
  <2>6. CASE s.backing # m
    <3>1. b => bufferLocals[k].inStep
      BY <2>3, <2>4, <2>6
    <3>2. b => memories'[s.backing] = memories[s.backing]
      BY <1>3, <2>1, <2>4, <2>6, <3>1 DEF Fits
    <3>3. Fits(s, jsBuffers, memories')
      BY <2>1, <2>4, <3>1, <3>2 DEF Fits
    <3> QED
      BY <2>2, <2>4, <3>3
  <2> QED
    BY <2>5, <2>6
<1>5. bufferLocals' \in [BufferLocals -> BufferLocal]
  BY <1>1, <1>4
<1>6. \A x \in Memories :
        Users(bufferLocals', jsBuffers, held, x) = Users(bufferLocals, jsBuffers, held, x)
  BY <1>4, UsersDepend
<1>7. Accounted(memories', bufferLocals', jsBuffers, held)
  BY <1>3, <1>6, BufferTypes, UsersStay
<1> QED
  BY <1>1, <1>3, <1>4, <1>5, <1>7, BufferTypes DEF BufferInv, BufferTypeOK

-----------------------------------------------------------------------------
(* Copies, moves and destructors of Locals.                                *)

LEMMA CountIsAdded ==
  ASSUME NEW ms \in [Memories -> Memory], NEW x \in Memories \cup {NoMemory}
  PROVE  /\ Counted(ms, x) \in [Memories -> Memory]
         /\ \A m \in Memories : Counted(ms, x)[m].data = ms[m].data
<1>1. Counted(ms, x) \in [Memories -> Memory]
  BY BufferAssumption DEF Counted, Memory
<1> QED
  BY <1>1, CountedChanges

LEMMA BufferCopyInv ==
  ASSUME BufferInv, NEW a \in BufferLocals, NEW b \in BufferLocals, BufferCopy(a, b)
  PROVE  BufferInv'
<1> DEFINE r == bufferLocals[b]
           x == bufferLocals[b].backing
<1>1. /\ Declare(a, r) /\ memories' = Counted(memories, x)
      /\ jsBuffers' = jsBuffers /\ held' = held
  BY DEF BufferCopy
<1>2. /\ r \in BufferLocal /\ Fits(r, jsBuffers, memories) /\ r.backing = x
      /\ x \in Memories \cup {NoMemory}
  BY BufferTypes
<1>3. x # NoMemory => Users(bufferLocals, jsBuffers, held, x) > 0
  BY UsersAreCounted
<1> HIDE DEF r, x
<1>4. HasNone(bufferLocals, a) /\ bufferLocals' = [bufferLocals EXCEPT ![a] = r]
  BY <1>1, NewLocal DEF HasNone
<1>5. /\ bufferLocals' \in [BufferLocals -> BufferLocal] /\ bufferLocals'[a] = r
      /\ \A k \in BufferLocals : k # a => bufferLocals'[k] = bufferLocals[k]
      /\ \A k \in BufferLocals : Fits(bufferLocals'[k], jsBuffers, memories)
  BY <1>2, <1>4, LocalBecomes, BufferTypes
<1>6. /\ memories' \in [Memories -> Memory]
      /\ \A m \in Memories : memories'[m].data = memories[m].data
  <2>1. /\ memories \in [Memories -> Memory] /\ x \in Memories \cup {NoMemory}
        /\ memories' = Counted(memories, x)
    BY <1>1, <1>2, BufferTypes
  <2> QED
    BY <2>1, CountIsAdded
<1>7. \A k \in BufferLocals : Fits(bufferLocals'[k], jsBuffers, memories')
  <2>1. \A k \in BufferLocals : bufferLocals'[k].backing \in Memories \cup {NoMemory}
    BY <1>5 DEF BufferLocal
  <2> QED
    BY <1>5, <1>6, <2>1, DataStays
<1>8. OthersStay(bufferLocals, bufferLocals', a) /\ bufferLocals'[a].backing = x
  BY <1>2, <1>5 DEF OthersStay
<1>9. \A m \in Memories :
        Users(bufferLocals', jsBuffers, held, m) =
          Users(bufferLocals, jsBuffers, held, m) + Same(x, m)
  <2> TAKE m \in Memories
  <2>1. HasNone(bufferLocals, a) /\ OthersStay(bufferLocals, bufferLocals', a)
    BY <1>4, <1>8
  <2>2. Users(bufferLocals', jsBuffers, held, m) =
          Users(bufferLocals, jsBuffers, held, m) + Same(bufferLocals'[a].backing, m)
    BY <2>1, LocalTakes
  <2> QED
    BY <1>8, <2>2
<1>10. Accounted(Counted(memories, x), bufferLocals', jsBuffers, held)
  BY <1>2, <1>3, <1>9, BufferTypes, UserComes
<1> QED
  BY <1>1, <1>5, <1>6, <1>7, <1>10, BufferTypes DEF BufferInv, BufferTypeOK

(* A move of a Local with a val_ takes its memory along; else both have it.*)
LEMMA BufferMoveInv ==
  ASSUME BufferInv, NEW a \in BufferLocals, NEW b \in BufferLocals, BufferMove(a, b)
  PROVE  BufferInv'
<1> DEFINE r == bufferLocals[b]
           x == bufferLocals[b].backing
           mid == [bufferLocals EXCEPT ![a] = r]
           s == MovedFrom(r)
<1>1. /\ ~bufferLocals[a].alive /\ r.alive
      /\ bufferLocals' = [bufferLocals EXCEPT ![a] = r, ![b] = s]
      /\ memories' = IF r.val = NoBuffer THEN Counted(memories, x) ELSE memories
      /\ jsBuffers' = jsBuffers /\ held' = held
  BY DEF BufferMove
<1>2. /\ r \in BufferLocal /\ Fits(r, jsBuffers, memories) /\ r.backing = x
      /\ x \in Memories \cup {NoMemory} /\ a # b
  BY <1>1, BufferTypes
<1>3. x # NoMemory => Users(bufferLocals, jsBuffers, held, x) > 0
  BY UsersAreCounted
<1>4. HasNone(bufferLocals, a)
  BY <1>1, BufferTypes DEF Fits, HasNone
<1>5. /\ mid \in [BufferLocals -> BufferLocal] /\ mid[a] = r /\ mid[b] = r
      /\ \A k \in BufferLocals : k # a => mid[k] = bufferLocals[k]
      /\ bufferLocals' = [mid EXCEPT ![b] = s]
  BY <1>1, <1>2, BufferTypes
<1>6. /\ s \in BufferLocal /\ Fits(s, jsBuffers, memories)
      /\ r.val = NoBuffer => s.backing = x
      /\ r.val # NoBuffer => s.backing = NoMemory
  <2>1. CASE r.val = NoBuffer
    BY <1>2, <2>1 DEF MovedFrom
  <2>2. CASE r.val # NoBuffer
    <3> DEFINE h == Holding(NoBuffer, NoMemory, FALSE)
    <3>1. s = h
      BY <2>2 DEF MovedFrom
    <3>2. h \in BufferLocal /\ h.alive /\ ~h.inStep /\ h.backing = NoMemory
      BY DEF Holding, BufferLocal
    <3> HIDE DEF h
    <3>3. Fits(h, jsBuffers, memories)
      BY <3>2 DEF Fits
    <3> QED
      BY <2>2, <3>1, <3>2, <3>3
  <2> QED
    BY <2>1, <2>2
<1> HIDE DEF r, s, x, mid
<1>7. /\ bufferLocals' \in [BufferLocals -> BufferLocal]
      /\ bufferLocals'[a] = r /\ bufferLocals'[b] = s
      /\ \A k \in BufferLocals : k # b => bufferLocals'[k] = mid[k]
      /\ \A k \in BufferLocals : Fits(bufferLocals'[k], jsBuffers, memories)
  <2>1. /\ bufferLocals' \in [BufferLocals -> BufferLocal] /\ bufferLocals'[b] = s
        /\ \A k \in BufferLocals : k # b => bufferLocals'[k] = mid[k]
    BY <1>5, <1>6
  <2>2. \A k \in BufferLocals : Fits(mid[k], jsBuffers, memories)
    BY <1>2, <1>5, BufferTypes
  <2> QED
    BY <1>2, <1>5, <1>6, <2>1, <2>2
<1>8. /\ OthersStay(bufferLocals, mid, a) /\ OthersStay(mid, bufferLocals', b)
      /\ mid[a].backing = x /\ mid[b].backing = x /\ bufferLocals'[b].backing = s.backing
  BY <1>2, <1>5, <1>7 DEF OthersStay
<1>9. ASSUME NEW m \in Memories
      PROVE  Users(bufferLocals', jsBuffers, held, m) =
               Users(bufferLocals, jsBuffers, held, m) + Same(s.backing, m)
  <2>1. Users(mid, jsBuffers, held, m) =
          Users(bufferLocals, jsBuffers, held, m) + Same(mid[a].backing, m)
    BY <1>4, <1>8, LocalTakes
  <2>2. Users(bufferLocals', jsBuffers, held, m) =
          Users(mid, jsBuffers, held, m) - Same(mid[b].backing, m) + Same(bufferLocals'[b].backing, m)
    BY <1>8, LocalChanges
  <2>3. Users(bufferLocals, jsBuffers, held, m) \in Nat
    BY UsersAreCounted
  <2> QED
    BY <1>8, <2>1, <2>2, <2>3 DEF Same
<1>10. CASE r.val = NoBuffer
  <2>1. memories' = Counted(memories, x) /\ s.backing = x
    BY <1>1, <1>6, <1>10
  <2>2. /\ memories' \in [Memories -> Memory]
        /\ \A m \in Memories : memories'[m].data = memories[m].data
    <3>1. /\ memories \in [Memories -> Memory] /\ x \in Memories \cup {NoMemory}
          /\ memories' = Counted(memories, x)
      BY <1>2, <2>1, BufferTypes
    <3> QED
      BY <3>1, CountIsAdded
  <2>3. \A k \in BufferLocals : Fits(bufferLocals'[k], jsBuffers, memories')
    <3>1. \A k \in BufferLocals : bufferLocals'[k].backing \in Memories \cup {NoMemory}
      BY <1>7 DEF BufferLocal
    <3> QED
      BY <1>7, <2>2, <3>1, DataStays
  <2>4. \A m \in Memories :
          Users(bufferLocals', jsBuffers, held, m) =
            Users(bufferLocals, jsBuffers, held, m) + Same(x, m)
    BY <1>9, <2>1
  <2>5. Accounted(Counted(memories, x), bufferLocals', jsBuffers, held)
    BY <1>2, <1>3, <2>4, BufferTypes, UserComes
  <2> QED
    BY <1>1, <1>7, <2>1, <2>2, <2>3, <2>5, BufferTypes DEF BufferInv, BufferTypeOK
<1>11. CASE r.val # NoBuffer
  <2>1. memories' = memories /\ s.backing = NoMemory
    BY <1>1, <1>6, <1>11
  <2>2. ASSUME NEW m \in Memories
        PROVE  Users(bufferLocals', jsBuffers, held, m) = Users(bufferLocals, jsBuffers, held, m)
    <3>1. Users(bufferLocals, jsBuffers, held, m) \in Nat /\ Same(s.backing, m) = 0
      BY <2>1, UsersAreCounted, BufferAssumption DEF Same
    <3> QED
      BY <1>9, <3>1
  <2>3. Accounted(memories, bufferLocals', jsBuffers, held)
    BY <2>2, BufferTypes, UsersStay
  <2> QED
    BY <1>1, <1>7, <2>1, <2>3, BufferTypes DEF BufferInv, BufferTypeOK
<1> QED
  BY <1>10, <1>11

LEMMA CountIsTaken ==
  ASSUME NEW ms \in [Memories -> Memory], NEW x \in Memories \cup {NoMemory}
  PROVE  /\ Uncounted(ms, x) \in [Memories -> Memory]
         /\ \A m \in Memories : Uncounted(ms, x)[m].data = ms[m].data
<1>1. CASE x = NoMemory
  BY <1>1 DEF Uncounted
<1>2. CASE x \in Memories
  <2>1. /\ Uncounted(ms, x) \in [Memories -> Memory]
        /\ Uncounted(ms, x)[x].data = ms[x].data
    BY <1>2, UncountedChanges
  <2> QED
    BY <2>1, UncountedChanges
<1> QED
  BY <1>1, <1>2

(* One user takes x and another one lets go of y.                          *)
LEMMA UserSwaps ==
  ASSUME NEW ms \in [Memories -> Memory],
         NEW x \in Memories \cup {NoMemory}, NEW y \in Memories \cup {NoMemory},
         NEW locals, NEW js, NEW kept, NEW locals2, NEW js2, NEW kept2,
         Accounted(ms, locals, js, kept),
         x # NoMemory => Users(locals, js, kept, x) > 0,
         y # NoMemory => Users(locals, js, kept, y) > 0,
         \A m \in Memories :
           Users(locals2, js2, kept2, m) =
             Users(locals, js, kept, m) + Same(x, m) - Same(y, m)
  PROVE  Accounted(Uncounted(Counted(ms, x), y), locals2, js2, kept2)
<1> DEFINE ms2 == Counted(ms, x)
<1>1. ms2 \in [Memories -> Memory]
  BY CountIsAdded
<1> SUFFICES ASSUME NEW m \in Memories
             PROVE  IsAccounted(Uncounted(ms2, y)[m], Users(locals2, js2, kept2, m))
  BY DEF Accounted
<1> DEFINE u == Users(locals, js, kept, m)
           v == Users(locals2, js2, kept2, m)
           q == ms2[m]
           r == Uncounted(ms2, y)[m]
<1>2. u \in Nat /\ v = u + Same(x, m) - Same(y, m) /\ IsAccounted(ms[m], u)
  BY UsersAreCounted DEF Accounted
<1>3. q.count = ms[m].count + Same(x, m) /\ q.state = ms[m].state
  BY CountedChanges
<1> HIDE DEF ms2
<1>4. /\ r.count = q.count - Same(y, m)
      /\ y # m => r.state = q.state
      /\ y = m /\ q.count > 1 => r.state = q.state
      /\ y = m /\ q.count = 1 => r.state = "freed"
  BY <1>1, UncountedChanges
<1>5. (x = m => u > 0) /\ (y = m => u > 0)
  BY BufferAssumption
<1> HIDE DEF u, v, q, r
<1>6. CASE y = m
  BY <1>2, <1>3, <1>4, <1>5, <1>6 DEF IsAccounted, Same, v, r
<1>7. CASE y # m
  BY <1>2, <1>3, <1>4, <1>5, <1>7 DEF IsAccounted, Same, v, r
<1> QED
  BY <1>6, <1>7 DEF v, r

SameUses(locals, others, js, objects) ==
  /\ \A k \in BufferLocals : others[k].backing = locals[k].backing
  /\ \A k \in JsBuffers : objects[k].owns = js[k].owns /\ objects[k].memory = js[k].memory

LEMMA UsesDecide ==
  ASSUME NEW locals, NEW others, NEW js, NEW objects, NEW kept, NEW m,
         SameUses(locals, others, js, objects)
  PROVE  Users(others, objects, kept, m) = Users(locals, js, kept, m)
  BY UsersDepend DEF SameUses

(* A Local that had old becomes new, and old is committed.                 *)
LEMMA CommitsAndBecomes ==
  ASSUME BufferInv, NEW a \in BufferLocals, NEW new \in BufferLocal,
         Fits(new, jsBuffers, memories),
         jsBuffers' = Committed(bufferLocals[a]),
         bufferLocals' = AfterCommit([bufferLocals EXCEPT ![a] = new], bufferLocals[a])
  PROVE  /\ jsBuffers' \in [JsBuffers -> JsBuffer] /\ ObjectsFit(jsBuffers')
         /\ bufferLocals' \in [BufferLocals -> BufferLocal]
         /\ \A k \in BufferLocals : Fits(bufferLocals'[k], jsBuffers', memories)
         /\ \A m \in Memories :
              Users(bufferLocals', jsBuffers', held, m) =
                Users(bufferLocals, jsBuffers, held, m)
                - Same(bufferLocals[a].backing, m) + Same(new.backing, m)
<1> DEFINE old == bufferLocals[a]
           mid == [bufferLocals EXCEPT ![a] = new]
<1>1. old \in BufferLocal /\ jsBuffers' = Committed(old) /\ bufferLocals' = AfterCommit(mid, old)
  BY BufferTypes
<1>2. /\ mid \in [BufferLocals -> BufferLocal] /\ mid[a] = new
      /\ \A k \in BufferLocals : k # a => mid[k] = bufferLocals[k]
  BY BufferTypes
<1>3. \A k \in BufferLocals : Fits(mid[k], jsBuffers, memories)
  BY <1>2, BufferTypes
<1> HIDE DEF mid
<1>4. OthersStay(bufferLocals, mid, a) /\ mid[a].backing = new.backing
  BY <1>2 DEF OthersStay
<1> HIDE DEF old
<1>5. /\ jsBuffers' \in [JsBuffers -> JsBuffer]
      /\ \A j \in JsBuffers :
           /\ jsBuffers'[j].kind = jsBuffers[j].kind
           /\ jsBuffers'[j].owns = jsBuffers[j].owns /\ jsBuffers'[j].memory = jsBuffers[j].memory
      /\ bufferLocals' \in [BufferLocals -> BufferLocal]
      /\ \A k \in BufferLocals :
           /\ bufferLocals'[k].backing = mid[k].backing
           /\ Fits(bufferLocals'[k], jsBuffers', memories)
  <2>1. /\ old \in BufferLocal /\ mid \in [BufferLocals -> BufferLocal]
        /\ \A k \in BufferLocals : Fits(mid[k], jsBuffers, memories)
    BY <1>1, <1>2, <1>3
  <2>2. LET js    == Committed(old)
            after == AfterCommit(mid, old)
        IN  /\ js \in [JsBuffers -> JsBuffer]
            /\ \A j \in JsBuffers :
                 /\ js[j].kind = jsBuffers[j].kind
                 /\ js[j].owns = jsBuffers[j].owns /\ js[j].memory = jsBuffers[j].memory
            /\ after \in [BufferLocals -> BufferLocal]
            /\ \A k \in BufferLocals :
                 /\ after[k].backing = mid[k].backing
                 /\ Fits(after[k], js, memories)
    BY <2>1, CommitFits
  <2> QED
    BY <1>1, <2>2
<1>6. ObjectsFit(jsBuffers')
  BY <1>5, BufferTypes DEF ObjectsFit
<1>7. ASSUME NEW m \in Memories
      PROVE  Users(bufferLocals', jsBuffers', held, m) =
               Users(bufferLocals, jsBuffers, held, m)
               - Same(bufferLocals[a].backing, m) + Same(new.backing, m)
  <2>1. Users(bufferLocals', jsBuffers', held, m) = Users(mid, jsBuffers, held, m)
    <3>1. SameUses(mid, bufferLocals', jsBuffers, jsBuffers')
      BY <1>5 DEF SameUses
    <3> QED
      BY <3>1, UsesDecide
  <2>2. Users(mid, jsBuffers, held, m) =
          Users(bufferLocals, jsBuffers, held, m)
          - Same(bufferLocals[a].backing, m) + Same(mid[a].backing, m)
    BY <1>4, LocalChanges
  <2> QED
    BY <1>4, <2>1, <2>2
<1> QED
  BY <1>5, <1>6, <1>7

LEMMA BufferAssignInv ==
  ASSUME BufferInv, NEW a \in BufferLocals, NEW b \in BufferLocals, BufferAssign(a, b)
  PROVE  BufferInv'
<1> DEFINE new == bufferLocals[b]
           x == bufferLocals[b].backing
           y == bufferLocals[a].backing
<1>1. /\ jsBuffers' = Committed(bufferLocals[a])
      /\ bufferLocals' = AfterCommit([bufferLocals EXCEPT ![a] = new], bufferLocals[a])
      /\ memories' = Uncounted(Counted(memories, x), y)
      /\ held' = held
  BY DEF BufferAssign
<1>2. /\ new \in BufferLocal /\ Fits(new, jsBuffers, memories)
      /\ x \in Memories \cup {NoMemory} /\ y \in Memories \cup {NoMemory}
  BY BufferTypes
<1>3. /\ x # NoMemory => Users(bufferLocals, jsBuffers, held, x) > 0
      /\ y # NoMemory => Users(bufferLocals, jsBuffers, held, y) > 0
  BY UsersAreCounted
<1>4. /\ jsBuffers' \in [JsBuffers -> JsBuffer] /\ ObjectsFit(jsBuffers')
      /\ bufferLocals' \in [BufferLocals -> BufferLocal]
      /\ \A k \in BufferLocals : Fits(bufferLocals'[k], jsBuffers', memories)
      /\ \A m \in Memories :
           Users(bufferLocals', jsBuffers', held, m) =
             Users(bufferLocals, jsBuffers, held, m) - Same(y, m) + Same(x, m)
  <2>1. new \in BufferLocal /\ Fits(new, jsBuffers, memories)
    BY <1>2
  <2>2. /\ jsBuffers' = Committed(bufferLocals[a])
        /\ bufferLocals' = AfterCommit([bufferLocals EXCEPT ![a] = new], bufferLocals[a])
    BY <1>1
  <2> QED
    BY <2>1, <2>2, CommitsAndBecomes
<1> HIDE DEF new, x, y
<1>5. ASSUME NEW m \in Memories
      PROVE  Users(bufferLocals', jsBuffers', held, m) =
               Users(bufferLocals, jsBuffers, held, m) + Same(x, m) - Same(y, m)
  <2>1. Users(bufferLocals, jsBuffers, held, m) \in Nat
    BY UsersAreCounted
  <2> QED
    BY <1>4, <2>1 DEF Same
<1>6. memories \in [Memories -> Memory] /\ Accounted(memories, bufferLocals, jsBuffers, held)
  BY BufferTypes
<1>7. Accounted(memories', bufferLocals', jsBuffers', held)
  <2>1. Accounted(Uncounted(Counted(memories, x), y), bufferLocals', jsBuffers', held)
    BY <1>2, <1>3, <1>5, <1>6, UserSwaps
  <2> QED
    BY <1>1, <2>1
<1>8. /\ memories' \in [Memories -> Memory]
      /\ \A m \in Memories : memories'[m].data = memories[m].data
  <2> DEFINE ms == Counted(memories, x)
  <2>1. ms \in [Memories -> Memory] /\ \A m \in Memories : ms[m].data = memories[m].data
    BY <1>2, <1>6, CountIsAdded
  <2> HIDE DEF ms
  <2>2. /\ Uncounted(ms, y) \in [Memories -> Memory]
        /\ \A m \in Memories : Uncounted(ms, y)[m].data = ms[m].data
    BY <1>2, <2>1, CountIsTaken
  <2>3. memories' = Uncounted(ms, y)
    BY <1>1 DEF ms
  <2> QED
    BY <2>1, <2>2, <2>3
<1>9. \A k \in BufferLocals : Fits(bufferLocals'[k], jsBuffers', memories')
  <2>1. \A k \in BufferLocals : bufferLocals'[k].backing \in Memories \cup {NoMemory}
    BY <1>4 DEF BufferLocal
  <2> QED
    BY <1>4, <1>8, <2>1, DataStays
<1> QED
  BY <1>1, <1>4, <1>7, <1>8, <1>9, BufferTypes DEF BufferInv, BufferTypeOK

LEMMA BufferDestructInv ==
  ASSUME BufferInv, NEW l \in BufferLocals, BufferDestruct(l)
  PROVE  BufferInv'
<1> DEFINE y == bufferLocals[l].backing
<1>1. /\ jsBuffers' = Committed(bufferLocals[l])
      /\ bufferLocals' = AfterCommit([bufferLocals EXCEPT ![l] = Dead], bufferLocals[l])
      /\ memories' = Uncounted(memories, y)
      /\ held' = held
  BY DEF BufferDestruct
<1>2. y \in Memories \cup {NoMemory}
  BY BufferTypes
<1>3. y # NoMemory => Users(bufferLocals, jsBuffers, held, y) > 0
  BY UsersAreCounted
<1>4. /\ jsBuffers' \in [JsBuffers -> JsBuffer] /\ ObjectsFit(jsBuffers')
      /\ bufferLocals' \in [BufferLocals -> BufferLocal]
      /\ \A k \in BufferLocals : Fits(bufferLocals'[k], jsBuffers', memories)
      /\ \A m \in Memories :
           Users(bufferLocals', jsBuffers', held, m) =
             Users(bufferLocals, jsBuffers, held, m) - Same(y, m) + Same(Dead.backing, m)
  <2>1. Dead \in BufferLocal /\ Fits(Dead, jsBuffers, memories)
    BY DeadFits
  <2>2. /\ jsBuffers' = Committed(bufferLocals[l])
        /\ bufferLocals' = AfterCommit([bufferLocals EXCEPT ![l] = Dead], bufferLocals[l])
    BY <1>1
  <2> QED
    BY <2>1, <2>2, CommitsAndBecomes
<1> HIDE DEF y
<1>5. ASSUME NEW m \in Memories
      PROVE  Users(bufferLocals', jsBuffers', held, m) =
               Users(bufferLocals, jsBuffers, held, m) - Same(y, m)
  <2>1. Users(bufferLocals, jsBuffers, held, m) \in Nat
    BY UsersAreCounted
  <2>2. Same(Dead.backing, m) = 0
    BY DeadFits, BufferAssumption DEF Same
  <2> QED
    BY <1>4, <2>1, <2>2 DEF Same
<1>6. memories \in [Memories -> Memory] /\ Accounted(memories, bufferLocals, jsBuffers, held)
  BY BufferTypes
<1>7. Accounted(memories', bufferLocals', jsBuffers', held)
  <2>1. Accounted(Uncounted(memories, y), bufferLocals', jsBuffers', held)
    BY <1>2, <1>3, <1>5, <1>6, UserGoes
  <2> QED
    BY <1>1, <2>1
<1>8. /\ memories' \in [Memories -> Memory]
      /\ \A m \in Memories : memories'[m].data = memories[m].data
  BY <1>1, <1>2, <1>6, CountIsTaken
<1>9. \A k \in BufferLocals : Fits(bufferLocals'[k], jsBuffers', memories')
  <2>1. \A k \in BufferLocals : bufferLocals'[k].backing \in Memories \cup {NoMemory}
    BY <1>4 DEF BufferLocal
  <2> QED
    BY <1>4, <1>8, <2>1, DataStays
<1> QED
  BY <1>1, <1>4, <1>7, <1>8, <1>9, BufferTypes DEF BufferInv, BufferTypeOK

-----------------------------------------------------------------------------
(* The program's own shared_ptr, and the end of a SharedByteBuffer.        *)

LEMMA GetRawBytesSharedInv ==
  ASSUME BufferInv, NEW l \in BufferLocals, getRawBytesShared(l)
  PROVE  BufferInv'
<1> DEFINE x == bufferLocals[l].backing
<1>1. /\ x # NoMemory /\ x \notin held /\ held' = held \cup {x}
      /\ memories' = Counted(memories, x)
      /\ jsBuffers' = jsBuffers /\ bufferLocals' = bufferLocals
  BY DEF getRawBytesShared
<1>2. x \in Memories /\ Users(bufferLocals, jsBuffers, held, x) > 0
  BY <1>1, BackingIsUsed
<1> HIDE DEF x
<1>3. memories \in [Memories -> Memory] /\ Accounted(memories, bufferLocals, jsBuffers, held)
  BY BufferTypes
<1>4. /\ memories' \in [Memories -> Memory]
      /\ \A m \in Memories : memories'[m].data = memories[m].data
  BY <1>1, <1>2, <1>3, CountIsAdded
<1>5. ASSUME NEW m \in Memories
      PROVE  Users(bufferLocals, jsBuffers, held', m) =
               Users(bufferLocals, jsBuffers, held, m) + Same(x, m)
  <2>1. Users(bufferLocals, jsBuffers, held', m) =
          Users(bufferLocals, jsBuffers, held, m) - One(m \in held) + One(m \in held')
    BY KeptChanges
  <2>2. Users(bufferLocals, jsBuffers, held, m) \in Nat
    BY UsersAreCounted
  <2> QED
    BY <1>1, <2>1, <2>2 DEF One, Same
<1>6. Accounted(Counted(memories, x), bufferLocals, jsBuffers, held')
  BY <1>2, <1>3, <1>5, UserComes
<1>7. \A k \in BufferLocals : Fits(bufferLocals[k], jsBuffers, memories')
  BY <1>4, BufferTypes, DataStays
<1> QED
  BY <1>1, <1>2, <1>4, <1>6, <1>7, BufferTypes DEF BufferInv, BufferTypeOK

LEMMA ReleaseBytesInv ==
  ASSUME BufferInv, NEW x \in Memories, ReleaseBytes(x)
  PROVE  BufferInv'
<1>1. /\ x \in held /\ held' = held \ {x}
      /\ memories' = Uncounted(memories, x)
      /\ jsBuffers' = jsBuffers /\ bufferLocals' = bufferLocals
  BY DEF ReleaseBytes
<1>2. Users(bufferLocals, jsBuffers, held, x) > 0
  BY <1>1, UsersAreCounted
<1>3. memories \in [Memories -> Memory] /\ Accounted(memories, bufferLocals, jsBuffers, held)
  BY BufferTypes
<1>4. /\ memories' \in [Memories -> Memory]
      /\ \A m \in Memories : memories'[m].data = memories[m].data
  BY <1>1, <1>3, CountIsTaken
<1>5. ASSUME NEW m \in Memories
      PROVE  Users(bufferLocals, jsBuffers, held', m) =
               Users(bufferLocals, jsBuffers, held, m) - Same(x, m)
  <2>1. Users(bufferLocals, jsBuffers, held', m) =
          Users(bufferLocals, jsBuffers, held, m) - One(m \in held) + One(m \in held')
    BY KeptChanges
  <2>2. Users(bufferLocals, jsBuffers, held, m) \in Nat
    BY UsersAreCounted
  <2> QED
    BY <1>1, <2>1, <2>2 DEF One, Same
<1>6. Accounted(Uncounted(memories, x), bufferLocals, jsBuffers, held')
  BY <1>2, <1>3, <1>5, UserGoes
<1>7. \A k \in BufferLocals : Fits(bufferLocals[k], jsBuffers, memories')
  BY <1>4, BufferTypes, DataStays
<1> QED
  BY <1>1, <1>4, <1>6, <1>7, BufferTypes DEF BufferInv, BufferTypeOK

(* destroy() of the object, and what Locals have then.                     *)
LEMMA DestroyInv ==
  ASSUME BufferInv, NEW j \in JsBuffers, Destroy(j), held' = held,
         bufferLocals' \in [BufferLocals -> BufferLocal],
         SameUses(bufferLocals, bufferLocals', jsBuffers, jsBuffers),
         \A k \in BufferLocals : Fits(bufferLocals'[k], jsBuffers, memories)
  PROVE  BufferInv'
<1> DEFINE x == jsBuffers[j].memory
           b == [jsBuffers[j] EXCEPT !.owns = FALSE]
<1>1. /\ jsBuffers' = [jsBuffers EXCEPT ![j] = b]
      /\ memories' = IF jsBuffers[j].owns THEN Uncounted(memories, x) ELSE memories
  BY BufferTypes DEF Destroy
<1>2. jsBuffers[j] \in JsBuffer
  BY BufferTypes
<1>3. /\ b \in JsBuffer /\ ~b.owns /\ b.kind = jsBuffers[j].kind
      /\ b.data = jsBuffers[j].data /\ b.memory = x
  BY <1>2 DEF JsBuffer
<1> HIDE DEF b
<1>4. /\ jsBuffers' \in [JsBuffers -> JsBuffer] /\ jsBuffers'[j] = b
      /\ \A k \in JsBuffers : k # j => jsBuffers'[k] = jsBuffers[k]
  BY <1>1, <1>3, BufferTypes
<1>5. \A k \in JsBuffers :
        jsBuffers'[k].kind = jsBuffers[k].kind /\ jsBuffers'[k].data = jsBuffers[k].data
  BY <1>3, <1>4
<1>6. ObjectsFit(jsBuffers')
  BY <1>3, <1>4, <1>5, BufferTypes DEF ObjectsFit
<1>7. \A k \in BufferLocals :
        /\ bufferLocals'[k].backing \in Memories \cup {NoMemory}
        /\ Fits(bufferLocals'[k], jsBuffers', memories)
  <2> TAKE k \in BufferLocals
  <2>1. /\ bufferLocals'[k] \in BufferLocal /\ Fits(bufferLocals'[k], jsBuffers, memories)
        /\ bufferLocals'[k].backing \in Memories \cup {NoMemory}
        /\ bufferLocals'[k].val \in JsBuffers \cup {NoBuffer}
    BY DEF BufferLocal
  <2>2. bufferLocals'[k].inStep => bufferLocals'[k].val \in JsBuffers
    BY <2>1 DEF Fits
  <2> QED
    BY <1>5, <2>1, <2>2 DEF Fits
<1>8. ASSUME NEW m \in Memories
      PROVE  Users(bufferLocals', jsBuffers', held, m) =
               Users(bufferLocals, jsBuffers, held, m) - One(jsBuffers[j].owns /\ x = m)
  <2>1. Users(bufferLocals', jsBuffers, held, m) = Users(bufferLocals, jsBuffers, held, m)
    BY UsesDecide
  <2>2. Users(bufferLocals', jsBuffers', held, m) =
          Users(bufferLocals', jsBuffers, held, m)
          - One(jsBuffers[j].owns /\ jsBuffers[j].memory = m)
          + One(jsBuffers'[j].owns /\ jsBuffers'[j].memory = m)
    BY <1>4, ObjectChanges
  <2>3. Users(bufferLocals, jsBuffers, held, m) \in Nat
    BY UsersAreCounted
  <2> QED
    BY <1>3, <1>4, <2>1, <2>2, <2>3 DEF One
<1>9. memories \in [Memories -> Memory] /\ Accounted(memories, bufferLocals, jsBuffers, held)
  BY BufferTypes
<1>10. CASE jsBuffers[j].owns
  <2>1. /\ x \in Memories /\ Users(bufferLocals, jsBuffers, held, x) > 0
        /\ memories' = Uncounted(memories, x)
    BY <1>1, <1>10, BufferTypes, UsersAreCounted DEF ObjectsFit
  <2>2. \A m \in Memories :
          Users(bufferLocals', jsBuffers', held, m) =
            Users(bufferLocals, jsBuffers, held, m) - Same(x, m)
    BY <1>8, <1>10 DEF One, Same
  <2> HIDE DEF x
  <2>3. /\ memories' \in [Memories -> Memory]
        /\ \A m \in Memories : memories'[m].data = memories[m].data
    BY <1>9, <2>1, CountIsTaken
  <2>4. Accounted(Uncounted(memories, x), bufferLocals', jsBuffers', held)
    BY <1>9, <2>1, <2>2, UserGoes
  <2>5. \A k \in BufferLocals : Fits(bufferLocals'[k], jsBuffers', memories')
    BY <1>7, <2>3, DataStays
  <2> QED
    BY <1>4, <1>6, <2>1, <2>3, <2>4, <2>5, BufferTypes DEF BufferInv, BufferTypeOK
<1>11. CASE ~jsBuffers[j].owns
  <2>1. memories' = memories
    BY <1>1, <1>11
  <2>2. ASSUME NEW m \in Memories
        PROVE  Users(bufferLocals', jsBuffers', held, m) = Users(bufferLocals, jsBuffers, held, m)
    <3>1. Users(bufferLocals, jsBuffers, held, m) \in Nat
      BY UsersAreCounted
    <3> QED
      BY <1>8, <1>11, <3>1 DEF One
  <2>3. Accounted(memories, bufferLocals', jsBuffers', held)
    BY <1>9, <2>2, UsersStay
  <2> QED
    BY <1>4, <1>6, <1>7, <2>1, <2>3, BufferTypes DEF BufferInv, BufferTypeOK
<1> QED
  BY <1>10, <1>11

LEMMA ScriptDestroysInv ==
  ASSUME BufferInv, NEW j \in JsBuffers, ScriptDestroys(j)
  PROVE  BufferInv'
<1>1. Destroy(j) /\ bufferLocals' = bufferLocals /\ held' = held
  BY DEF ScriptDestroys
<1>2. /\ bufferLocals' \in [BufferLocals -> BufferLocal]
      /\ \A k \in BufferLocals : Fits(bufferLocals'[k], jsBuffers, memories)
      /\ SameUses(bufferLocals, bufferLocals', jsBuffers, jsBuffers)
  BY <1>1, BufferTypes DEF SameUses
<1> QED
  BY <1>1, <1>2, DestroyInv

LEMMA DestroySharedInv ==
  ASSUME BufferInv, NEW l \in BufferLocals, destroySharedByteBuffer(l)
  PROVE  BufferInv'
<1> DEFINE j == bufferLocals[l].val
           r == [bufferLocals[l] EXCEPT !.val = NoBuffer]
<1>1. /\ j # NoBuffer /\ jsBuffers[j].kind = "shared" /\ Destroy(j) /\ held' = held
      /\ bufferLocals' = [bufferLocals EXCEPT ![l] = r]
  BY BufferTypes DEF destroySharedByteBuffer
<1>2. /\ bufferLocals[l] \in BufferLocal /\ Fits(bufferLocals[l], jsBuffers, memories)
      /\ j \in JsBuffers
  BY <1>1, BufferTypes
<1>3. /\ r \in BufferLocal /\ r.alive = bufferLocals[l].alive
      /\ r.backing = bufferLocals[l].backing /\ r.val = NoBuffer
      /\ r.inStep = bufferLocals[l].inStep
  BY <1>2 DEF BufferLocal
<1>4. ~bufferLocals[l].inStep
  BY <1>1, <1>2 DEF Fits
<1>5. Fits(r, jsBuffers, memories)
  BY <1>2, <1>3, <1>4 DEF Fits
<1> HIDE DEF r
<1>6. /\ bufferLocals' \in [BufferLocals -> BufferLocal] /\ bufferLocals'[l] = r
      /\ \A k \in BufferLocals : k # l => bufferLocals'[k] = bufferLocals[k]
      /\ \A k \in BufferLocals : Fits(bufferLocals'[k], jsBuffers, memories)
  BY <1>1, <1>3, <1>5, LocalBecomes, BufferTypes
<1>7. SameUses(bufferLocals, bufferLocals', jsBuffers, jsBuffers)
  BY <1>3, <1>6 DEF SameUses
<1> QED
  BY <1>1, <1>2, <1>6, <1>7, DestroyInv

-----------------------------------------------------------------------------

LEMMA BufferInitEstablishes ==
  ASSUME BufferInit
  PROVE  BufferInv
<1>1. SomeContents \in Contents
  BY BufferAssumption DEF SomeContents
<1>2. /\ BufferTypeOK
      /\ \A j \in JsBuffers : ~jsBuffers[j].owns
      /\ \A l \in BufferLocals : bufferLocals[l] = Dead
      /\ \A m \in Memories : memories[m].count = 0 /\ memories[m].state = "none"
      /\ held = {}
  BY <1>1, DeadFits DEF BufferInit, BufferTypeOK, JsBuffer, Memory
<1>3. ObjectsFit(jsBuffers)
  BY <1>2 DEF ObjectsFit
<1>4. \A l \in BufferLocals : Fits(bufferLocals[l], jsBuffers, memories)
  BY <1>2, DeadFits
<1>5. ASSUME NEW m \in Memories
      PROVE  IsAccounted(memories[m], Users(bufferLocals, jsBuffers, held, m))
  <2>1. \A l \in BufferLocals : bufferLocals[l].backing # m
    BY <1>2, DeadFits, BufferAssumption
  <2>2. /\ {l \in BufferLocals : bufferLocals[l].backing = m} = {}
        /\ {j \in JsBuffers : jsBuffers[j].owns /\ jsBuffers[j].memory = m} = {}
    BY <1>2, <2>1
  <2>3. Users(bufferLocals, jsBuffers, held, m) = 0
    <3>1. Cardinality({}) = 0
      BY FS_EmptySet
    <3> DEFINE L == {l \in BufferLocals : bufferLocals[l].backing = m}
               J == {j \in JsBuffers : jsBuffers[j].owns /\ jsBuffers[j].memory = m}
    <3>2. Users(bufferLocals, jsBuffers, held, m) = Cardinality(L) + Cardinality(J) + One(m \in held)
      BY DEF Users
    <3>3. m \notin held
      BY <1>2
    <3> HIDE DEF L, J
    <3>4. Cardinality(L) = 0 /\ Cardinality(J) = 0
      BY <2>2, <3>1 DEF L, J
    <3> QED
      BY <3>2, <3>3, <3>4 DEF One
  <2> QED
    BY <1>2, <2>3 DEF IsAccounted
<1> QED
  BY <1>2, <1>3, <1>4, <1>5 DEF BufferInv, Accounted

LEMMA BufferStepKeeps ==
  ASSUME BufferInv, [BufferNext]_bufferVars
  PROVE  BufferInv'
<1>1. CASE \E j \in JsBuffers :
             ScriptNews(j) \/ ScriptDestroys(j) \/ (\E d \in Contents : ScriptWrites(j, d))
  BY <1>1, ScriptNewsInv, ScriptDestroysInv, ScriptWritesInv
<1>2. CASE \E l \in BufferLocals :
             \/ \E j \in JsBuffers, m \in Memories, d \in Contents : newByteBuffer(l, j, m, d)
             \/ \E m \in Memories, d \in Contents : newShared(l, m, d)
             \/ \E j \in JsBuffers : asByteBuffer(l, j)
             \/ \E d \in Contents : WriteBytes(l, d)
  BY <1>2, NewByteBufferInv, NewSharedInv, AsByteBufferInv, WriteBytesInv
<1>3. CASE \E l \in BufferLocals :
             \/ fillWrapperIfNeed(l) \/ fillBackingStore(l) \/ commit(l) \/ sync(l)
             \/ BufferDestruct(l) \/ getRawBytesShared(l) \/ destroySharedByteBuffer(l)
  BY <1>3, FillWrapperInv, FillBackingInv, CommitInv, SyncInv, BufferDestructInv,
     GetRawBytesSharedInv, DestroySharedInv
<1>4. CASE \E a, b \in BufferLocals :
             BufferCopy(a, b) \/ BufferMove(a, b) \/ BufferAssign(a, b)
  BY <1>4, BufferCopyInv, BufferMoveInv, BufferAssignInv
<1>5. CASE \E m \in Memories : ReleaseBytes(m)
  BY <1>5, ReleaseBytesInv
<1>6. CASE UNCHANGED bufferVars
  <2>1. /\ jsBuffers' = jsBuffers /\ memories' = memories
        /\ bufferLocals' = bufferLocals /\ held' = held
    BY <1>6 DEF bufferVars
  <2> QED
    BY <2>1, BufferTypes DEF BufferInv, BufferTypeOK
<1> QED
  BY <1>1, <1>2, <1>3, <1>4, <1>5, <1>6 DEF BufferNext

LEMMA BufferInvImplies ==
  ASSUME BufferInv
  PROVE  BuffersAgree
<1>1. ASSUME NEW m \in Memories
      PROVE  /\ memories[m].state # "freedTwice" /\ memories[m].count = Owners(m)
             /\ memories[m].state = "allocated" <=> Owners(m) > 0
  <2>1. Owners(m) = Users(bufferLocals, jsBuffers, held, m)
    BY DEF Owners, Users, One
  <2>2. IsAccounted(memories[m], Users(bufferLocals, jsBuffers, held, m))
    BY BufferTypes DEF Accounted
  <2> QED
    BY <2>1, <2>2 DEF IsAccounted
<1>2. \A l \in BufferLocals :
        bufferLocals[l].inStep =>
          jsBuffers[bufferLocals[l].val].data = memories[bufferLocals[l].backing].data
  BY BufferTypes DEF Fits
<1> QED
  BY <1>1, <1>2 DEF BuffersAgree

(* For any Locals, script objects and memory: memory is freed once, by the *)
(* last of its users, and a copy in step with its ArrayBuffer agrees with  *)
(* it.                                                                     *)
THEOREM BuffersAlwaysAgree == BufferSpec => []BuffersAgree
<1>1. BufferInit => BufferInv
  BY BufferInitEstablishes
<1>2. BufferInv /\ [BufferNext]_bufferVars => BufferInv'
  BY BufferStepKeeps
<1>3. BufferInv => BuffersAgree
  BY BufferInvImplies
<1> QED
  BY <1>1, <1>2, <1>3, PTL DEF BufferSpec

(* The Locals, the ArrayBuffers and the memory they share are of their     *)
(* types.                                                                  *)
THEOREM BuffersAreTyped == BufferSpec => []BufferTypeOK
<1>1. BufferInit => BufferInv
  BY BufferInitEstablishes
<1>2. BufferInv /\ [BufferNext]_bufferVars => BufferInv'
  BY BufferStepKeeps
<1>3. BufferInv => BufferTypeOK
  BY DEF BufferInv
<1> QED
  BY <1>1, <1>2, <1>3, PTL DEF BufferSpec
=============================================================================
