--------------------------- MODULE MachineProofs ---------------------------
(***************************************************************************)
(* The safety of the machine for every well-formed program: each action is *)
(* a step of one of the kinds of MachineSteps, hence all of them keep the  *)
(* inductive invariant.  And the globals: only the instruction that writes *)
(* them changes them.                                                      *)
(***************************************************************************)
EXTENDS MachineSteps

-----------------------------------------------------------------------------
(* What the instructions push *)

LEMMA ValueFacts ==
    /\ Null \in Value /\ Plain \subseteq Value /\ Data \subseteq Value /\ Data \subseteq Plain
    /\ \A n \in 1..MaxObjects : [ref |-> n] \in Value
BY DEF Value, Plain, Reference

LEMMA TakeType ==
    ASSUME NEW S, NEW s \in Seq(S), NEW n \in 0..Len(s)
    PROVE  /\ SubSeq(s, Len(s) - n + 1, Len(s)) \in Seq(S)
           /\ Len(SubSeq(s, Len(s) - n + 1, Len(s))) = n
OBVIOUS

LEMMA ReverseType ==
    ASSUME NEW S, NEW s \in Seq(S)
    PROVE  Reverse(s) \in Seq(S)
BY DEF Reverse

LEMMA StoreType ==
    ASSUME NEW S, NEW s \in Seq(S), NEW i \in Nat, NEW e \in S
    PROVE  [s EXCEPT ![i] = e] \in Seq(S) /\ Len([s EXCEPT ![i] = e]) = Len(s)
<1>1. s \in [1..Len(s) -> S] /\ Len(s) \in Nat
  OBVIOUS
<1>2. [s EXCEPT ![i] = e] \in [1..Len(s) -> S]
  BY <1>1
<1> QED
  BY <1>1, <1>2

\* The n topmost values are temporaries, there are that many.
LEMMA TemporariesFacts ==
    ASSUME IInv, NEW n \in Nat, HasTemporaries(n)
    PROVE  /\ n \in 0..Len(values) /\ Len(values) - n \in 0..Len(values)
           /\ framePointer + Slots(pc) <= Len(values) - n
           /\ Slots(pc) \in Nat /\ framePointer \in Nat
           /\ Below(n) \in Seq(Value) /\ Len(Below(n)) = Len(values) - n
           /\ Above(n) \in Seq(Value) /\ Len(Above(n)) = n
           /\ n > 0 => Last(values) \in Value
<1>1. /\ values \in Seq(Value) /\ Slots(pc) \in Nat /\ framePointer \in Nat /\ Len(values) \in Nat
  BY SlotsType, TypeFacts DEF IInv, TypeOK
<1>2. /\ n \in 0..Len(values) /\ Len(values) - n \in 0..Len(values)
      /\ framePointer + Slots(pc) <= Len(values) - n
  BY <1>1 DEF HasTemporaries
<1>3. /\ Below(n) \in Seq(Value) /\ Len(Below(n)) = Len(values) - n
  BY <1>1, <1>2, CutType DEF Below
<1>4. /\ Above(n) \in Seq(Value) /\ Len(Above(n)) = n
  BY <1>1, <1>2, TakeType DEF Above
<1>5. n > 0 => Last(values) \in Value
  BY <1>1, <1>2 DEF Last
<1> QED
  BY <1>1, <1>2, <1>3, <1>4, <1>5

LEMMA ObjectFacts ==
    ASSUME IInv, NEW id \in DOMAIN objects
    PROVE  /\ objects[id] \in Object
           /\ objects[id].kind = "function" =>
                  objects[id].fx \in Functions /\ objects[id].captured \in Seq(Value)
           /\ objects[id].kind = "tuple" => objects[id].items \in Seq(Value)
           /\ objects[id].kind = "coroutine" =>
                  /\ objects[id].context \in IsCoroutine /\ objects[id].context \in Functions
                  /\ objects[id].locals \in Seq(Value)
                  /\ objects[id].resume \in FunctionPos /\ objects[id].resume.fx = objects[id].context
                  /\ CodeSlots(objects[id].resume) <= Len(objects[id].locals)
<1>1. objects[id] \in Object
  BY DEF IInv, TypeOK
<1>2. objects[id].kind = "coroutine" =>
          /\ objects[id].context \in IsCoroutine
          /\ objects[id].resume = BodyPos(objects[id].context)
          /\ CodeSlots(objects[id].resume) <= Len(objects[id].locals)
  BY DEF IInv, CoroutinesFit
<1> QED
  BY <1>1, <1>2, PositionFacts DEF Object

\* Objects are added: the coroutines among them keep enough values.
Fits(object) ==
    object.kind = "coroutine" =>
        /\ object.context \in IsCoroutine
        /\ object.resume = BodyPos(object.context)
        /\ CodeSlots(object.resume) <= Len(object.locals)

LEMMA ObjectsAdded ==
    ASSUME IInv, NEW news \in Seq(Object), objects' = objects \o news,
           \A i \in DOMAIN news : Fits(news[i])
    PROVE  objects' \in Seq(Object) /\ CoroutinesFit'
<1>1. objects \in Seq(Object) /\ \A i \in DOMAIN objects : Fits(objects[i])
  BY DEF IInv, TypeOK, CoroutinesFit, Fits
<1>2. objects' \in Seq(Object) /\ Len(objects') = Len(objects) + Len(news)
  BY <1>1
<1>3. \A i \in DOMAIN objects' : Fits(objects'[i])
  <2> TAKE i \in DOMAIN objects'
  <2>1. CASE i <= Len(objects)
    <3>1. i \in DOMAIN objects /\ objects'[i] = objects[i]
      BY <1>1, <1>2, <2>1
    <3> QED
      BY <1>1, <3>1
  <2>2. CASE i > Len(objects)
    <3>1. i - Len(objects) \in DOMAIN news /\ objects'[i] = news[i - Len(objects)]
      BY <1>1, <1>2, <2>2
    <3> QED
      BY <3>1
  <2> QED
    BY <1>1, <1>2, <2>1, <2>2
<1> QED
  BY <1>2, <1>3 DEF CoroutinesFit, Fits

LEMMA ObjectAdded ==
    ASSUME IInv, NEW new \in Object, objects' = Append(objects, new), Fits(new)
    PROVE  objects' \in Seq(Object) /\ CoroutinesFit'
<1>1. <<new>> \in Seq(Object) /\ DOMAIN <<new>> = {1} /\ <<new>>[1] = new
  OBVIOUS
<1>2. objects' = objects \o <<new>>
  BY DEF IInv, TypeOK
<1> QED
  BY <1>1, <1>2, ObjectsAdded

LEMMA ReplaceStep ==
    ASSUME IInv, InCode, NEW n \in Nat, NEW vs \in Seq(Value), Replace(n, vs)
    PROVE  IInv'
<1>1. HasTemporaries(n) /\ values' = Below(n) \o vs /\ UNCHANGED <<frames, framePointer, machineVars>>
  BY DEF Replace
<1>2. /\ Below(n) \in Seq(Value) /\ Len(Below(n)) = Len(values) - n
      /\ framePointer + Slots(pc) <= Len(values) - n
      /\ Len(values) - n \in Nat /\ Slots(pc) \in Nat /\ framePointer \in Nat
  BY <1>1, TemporariesFacts
<1>3. values' \in Seq(Value) /\ framePointer + Slots(pc) <= Len(values')
  <2>1. values' \in Seq(Value) /\ Len(values') = Len(values) - n + Len(vs) /\ Len(vs) \in Nat
    BY <1>1, <1>2, JoinType
  <2> QED
    BY <1>2, <2>1
<1>4. UNCHANGED objects /\ objects' \in Seq(Object) /\ CoroutinesFit'
  BY <1>1 DEF machineVars, IInv, TypeOK, CoroutinesFit
<1>5. UNCHANGED <<frames, framePointer, Threads>>
  BY <1>1 DEF machineVars, Threads
<1> QED
  BY <1>3, <1>4, <1>5, StraightStep

-----------------------------------------------------------------------------
(* The actions *)

LEMMA ElementType == ASSUME IInv, NEW i \in 1..Len(values) PROVE values[i] \in Value
BY DEF IInv, TypeOK

LEMMA TemporariesSafe == ASSUME IInv, OnTemporaries PROVE IInv'
<1>1. CASE PushConstant
  <2>1. PICK v \in Plain : InCode /\ Replace(0, <<v>>)
    BY <1>1 DEF PushConstant
  <2>2. <<v>> \in Seq(Value)
    BY ValueFacts
  <2> QED
    BY <2>1, <2>2, ReplaceStep
<1>2. CASE Scrap
  <2>1. <<>> \in Seq(Value)
    OBVIOUS
  <2> QED
    BY <1>2, <2>1, ReplaceStep DEF Scrap
<1>3. CASE Duplicate
  <2>1. Above(1) \o Above(1) \in Seq(Value)
    BY <1>3, TemporariesFacts, JoinType DEF Duplicate
  <2> QED
    BY <1>3, <2>1, ReplaceStep DEF Duplicate
<1>4. CASE Swap
  <2>1. Above(2) \in Seq(Value)
    BY <1>4, TemporariesFacts DEF Swap
  <2>2. Reverse(Above(2)) \in Seq(Value)
    BY <2>1, ReverseType
  <2> QED
    BY <1>4, <2>2, ReplaceStep DEF Swap
<1>5. CASE LoadX
  <2>1. PICK i \in 1..Addressable(pc) :
            InCode /\ framePointer + i <= Len(values) /\ Replace(0, <<values[framePointer + i]>>)
    BY <1>5 DEF LoadX
  <2>2. framePointer + i \in 1..Len(values)
    BY <2>1, TypeFacts DEF IInv
  <2>3. <<values[framePointer + i]>> \in Seq(Value)
    BY <2>2, ElementType
  <2> QED
    BY <2>1, <2>3, ReplaceStep
<1>6. CASE StoreX
  <2>1. PICK i \in Nat : StoreX!(i)
    BY <1>6 DEF StoreX
  <2>2. /\ InCode /\ HasTemporaries(1) /\ values' = [Below(1) EXCEPT ![framePointer + i] = Last(values)]
        /\ UNCHANGED <<frames, framePointer, machineVars>>
    BY <2>1
  <2>3. /\ Below(1) \in Seq(Value) /\ Len(Below(1)) = Len(values) - 1 /\ Last(values) \in Value
        /\ framePointer + Slots(pc) <= Len(values) - 1
    BY <2>2, TemporariesFacts
  <2>4. values' \in Seq(Value) /\ Len(values') = Len(Below(1))
    BY <2>1, <2>2, <2>3, StoreType, TypeFacts DEF IInv
  <2>5. UNCHANGED objects /\ objects' \in Seq(Object) /\ CoroutinesFit' /\ UNCHANGED <<frames, framePointer, Threads>>
    BY <2>2 DEF machineVars, Threads, IInv, TypeOK, CoroutinesFit
  <2> QED
    BY <2>2, <2>3, <2>4, <2>5, StraightStep
<1>7. CASE Unpack
  <2>1. IsA(Last(values), "tuple") /\ InCode
    BY <1>7 DEF Unpack
  <2>2. PICK n \in 0..Len(ObjectOf(Last(values)).items) :
            Replace(1, Reverse(SubSeq(ObjectOf(Last(values)).items, 1, n)))
    BY <1>7 DEF Unpack
  <2>3. ObjectOf(Last(values)).items \in Seq(Value)
    BY <2>1, ObjectFacts DEF IsA, ObjectOf
  <2>4. SubSeq(ObjectOf(Last(values)).items, 1, n) \in Seq(Value)
    BY <2>2, <2>3, CutType
  <2>5. Reverse(SubSeq(ObjectOf(Last(values)).items, 1, n)) \in Seq(Value)
    BY <2>4, ReverseType
  <2> QED
    BY <2>1, <2>2, <2>5, ReplaceStep
<1> QED
  BY <1>1, <1>2, <1>3, <1>4, <1>5, <1>6, <1>7 DEF OnTemporaries

LEMMA GlobalsSafe == ASSUME IInv, OnGlobals PROVE IInv'
<1>1. CASE GlobalRead
  <2>1. PICK i \in 1..NGlobals : InCode /\ i <= Len(values) /\ Replace(0, <<values[i]>>)
    BY <1>1 DEF GlobalRead, UsesGlobals
  <2>2. i \in 1..Len(values)
    BY <2>1, SlotsFacts, TypeFacts DEF IInv
  <2>3. <<values[i]>> \in Seq(Value)
    BY <2>2, ElementType
  <2> QED
    BY <2>1, <2>3, ReplaceStep
<1>2. CASE GlobalWrite
  <2>1. PICK i \in 1..NGlobals : GlobalWrite!(i)
    BY <1>2 DEF GlobalWrite
  <2>2. /\ InCode /\ HasTemporaries(1) /\ values' = [Below(1) EXCEPT ![i] = Last(values)]
        /\ UNCHANGED <<frames, framePointer, machineVars>>
    BY <2>1 DEF UsesGlobals
  <2>3. /\ Below(1) \in Seq(Value) /\ Len(Below(1)) = Len(values) - 1 /\ Last(values) \in Value
        /\ framePointer + Slots(pc) <= Len(values) - 1
    BY <2>2, TemporariesFacts
  <2>4. values' \in Seq(Value) /\ Len(values') = Len(Below(1))
    BY <2>1, <2>2, <2>3, StoreType, TypeFacts DEF IInv
  <2>5. UNCHANGED objects /\ objects' \in Seq(Object) /\ CoroutinesFit' /\ UNCHANGED <<frames, framePointer, Threads>>
    BY <2>2 DEF machineVars, Threads, IInv, TypeOK, CoroutinesFit
  <2> QED
    BY <2>2, <2>3, <2>4, <2>5, StraightStep
<1> QED
  BY <1>1, <1>2, InitGlobalStep DEF OnGlobals

LEMMA PushFrameFacts ==
    ASSUME NEW vals \in Seq(Value), NEW ret, NEW arity \in 0..Len(vals), NEW f \in Functions,
           NEW extra \in Seq(Value), PushFrame(vals, ret, arity, f, extra)
    PROVE  /\ values' \in Seq(Value)
           /\ Len(values') = Len(vals) + FrameSize[f] + Len(extra)
           /\ Len(vals) - arity \in Nat
           /\ frames' = Append(frames, FrameOf(ret, framePointer, FALSE, f))
           /\ framePointer' = Len(vals) - arity
<1>1. FrameSize[f] \in Nat
  BY SlotsFacts
<1>2. Nulls(FrameSize[f]) \in Seq(Value) /\ Len(Nulls(FrameSize[f])) = FrameSize[f]
  BY <1>1, NullsType
<1>3. /\ vals \o Nulls(FrameSize[f]) \in Seq(Value)
      /\ Len(vals \o Nulls(FrameSize[f])) = Len(vals) + FrameSize[f]
  BY <1>2, JoinType
<1>4. values' \in Seq(Value) /\ Len(values') = Len(vals) + FrameSize[f] + Len(extra)
  BY <1>3, JoinType DEF PushFrame
<1> QED
  BY <1>4 DEF PushFrame

LEMMA NewRefType ==
    ASSUME TypeOK
    PROVE  /\ Len(objects) < MaxObjects => NewRef(1) \in Value
           /\ Len(objects) + 2 <= MaxObjects => NewRef(1) \in Value /\ NewRef(2) \in Value
<1>1. Len(objects) \in Nat /\ MaxObjects \in Nat
  BY SlotsFacts DEF TypeOK
<1> QED
  BY <1>1, ValueFacts DEF NewRef

\* Steps that enter a function and leave the objects alone.
LEMMA SameObjects ==
    ASSUME IInv, UNCHANGED objects
    PROVE  objects' \in Seq(Object) /\ CoroutinesFit'
BY DEF IInv, TypeOK, CoroutinesFit

LEMMA CallableFacts ==
    ASSUME IInv, NEW v, IsCallable(v)
    PROVE  /\ ObjectOf(v).fx \in Functions /\ ObjectOf(v).captured \in Seq(Value)
           /\ Len(ObjectOf(v).captured) = Captures[ObjectOf(v).fx]
BY ObjectFacts DEF IsCallable, IsA, ObjectOf

\* INVOKE of a lambda: the arguments are the n topmost values of vals.
LEMMA EnterClosureStep ==
    ASSUME IInv, InCode, NEW v, IsCallable(v), NEW vals \in Seq(Value), NEW n \in Nat,
           framePointer + Slots(pc) + n <= Len(vals), EnterClosure(v, vals, n)
    PROVE  IInv'
<1>0. PICK f \in Functions, captured \in Seq(Value) :
          /\ f = ObjectOf(v).fx /\ captured = ObjectOf(v).captured
          /\ Len(captured) = Captures[f]
  BY CallableFacts
<1>1. /\ CallArity(f) \in Nat /\ Captures[f] \in Nat /\ FrameSize[f] \in Nat /\ Arity[f] \in Nat
      /\ CodeSlots(EntryPos(f)) = CallArity(f) + Captures[f] + FrameSize[f]
      /\ Len(captured) = Captures[f]
  BY <1>0, SlotsFacts
<1>2. PICK b \in Nat : b = Len(vals) - n /\ Len(vals) = b + n /\ framePointer + Slots(pc) <= b
  <2>1. Slots(pc) \in Nat /\ framePointer \in Nat
    BY SlotsType, TypeFacts DEF IInv
  <2>2. PICK len \in Nat : len = Len(vals)
    OBVIOUS
  <2>3. framePointer + Slots(pc) + n <= len
    BY <2>2
  <2>4. len - n \in Nat /\ len = (len - n) + n /\ framePointer + Slots(pc) <= len - n
    BY <2>1, <2>3
  <2> QED
    BY <2>2, <2>4
<1> DEFINE surplus == n - Arity[f]
           packed == SubSeq(vals, 1, Len(vals) - surplus) \o <<NewRef(1)>>
           args == IF f \in IsVariadic THEN packed ELSE vals
<1>3. /\ n >= Arity[f]
      /\ f \notin IsVariadic => n = Arity[f] /\ UNCHANGED objects
      /\ f \in IsVariadic =>
             /\ Len(objects) < MaxObjects
             /\ objects' = Append(objects, [kind |-> "tuple",
                    items |-> SubSeq(vals, Len(vals) - surplus + 1, Len(vals))])
      /\ PushFrame(args \o captured, pc, CallArity(f) + Captures[f], f, <<>>)
      /\ pc' = EntryPos(f)
      /\ UNCHANGED <<phase, natives, inNative, settled>>
  BY <1>0 DEF EnterClosure
<1>4. /\ surplus \in 0..Len(vals) /\ Len(vals) - surplus \in 0..Len(vals)
      /\ Len(vals) - surplus = b + Arity[f]
  <2>1. PICK a \in Nat : a = Arity[f] /\ a <= n
    BY <1>1, <1>3
  <2>2. surplus = n - a /\ n - a \in Nat
    BY <2>1
  <2>3. Len(vals) - (n - a) = b + a /\ n - a \in 0..Len(vals) /\ b + a \in 0..Len(vals)
    <3>1. PICK len \in Nat : len = Len(vals) /\ len = b + n
      BY <1>2
    <3>2. len - (n - a) = b + a /\ n - a \in 0..len /\ b + a \in 0..len
      BY <2>1, <3>1
    <3> QED
      BY <3>1, <3>2
  <2> HIDE DEF surplus
  <2> QED
    BY <2>1, <2>2, <2>3
<1>5. args \in Seq(Value) /\ Len(args) = b + CallArity(f)
  <2>1. CASE f \notin IsVariadic
    <3>1. args = vals /\ CallArity(f) = n
      BY <1>3, <2>1, SlotsFacts
    <3> QED
      BY <1>2, <3>1
  <2>2. CASE f \in IsVariadic
    <3>1. CallArity(f) = Arity[f] + 1
      BY <2>2 DEF CallArity
    <3>2. NewRef(1) \in Value
      BY <1>3, <2>2, NewRefType DEF IInv
    <3>3. /\ SubSeq(vals, 1, Len(vals) - surplus) \in Seq(Value)
          /\ Len(SubSeq(vals, 1, Len(vals) - surplus)) = Len(vals) - surplus
      BY <1>4, CutType
    <3>4. <<NewRef(1)>> \in Seq(Value) /\ Len(<<NewRef(1)>>) = 1
      BY <3>2
    <3>5. packed \in Seq(Value) /\ Len(packed) = Len(vals) - surplus + 1
      BY <3>3, <3>4, JoinType
    <3>6. args = packed
      BY <2>2
    <3> HIDE DEF packed, args, surplus
    <3>7. Len(packed) = b + Arity[f] + 1
      BY <1>1, <1>4, <3>5
    <3> QED
      BY <1>1, <3>1, <3>5, <3>6, <3>7
  <2> QED
    BY <2>1, <2>2
<1>6. objects' \in Seq(Object) /\ CoroutinesFit'
  <2>1. CASE f \notin IsVariadic
    BY <1>3, <2>1, SameObjects
  <2>2. CASE f \in IsVariadic
    <3> DEFINE new == [kind |-> "tuple", items |-> SubSeq(vals, Len(vals) - surplus + 1, Len(vals))]
    <3>1. SubSeq(vals, Len(vals) - surplus + 1, Len(vals)) \in Seq(Value)
      BY <1>4, TakeType
    <3>2. new \in Object /\ Fits(new)
      BY <3>1 DEF Object, Fits
    <3> HIDE DEF new
    <3>3. objects' = Append(objects, new)
      BY <1>3, <2>2 DEF new
    <3> QED
      BY <3>2, <3>3, ObjectAdded
  <2> QED
    BY <2>1, <2>2
<1> HIDE DEF surplus, packed, args
<1>7. /\ values' \in Seq(Value) /\ Len(values') = b + CallArity(f) + Captures[f] + FrameSize[f]
      /\ frames' = Append(frames, FrameOf(pc, framePointer, FALSE, f)) /\ framePointer' = b
  <2>1. args \o captured \in Seq(Value) /\ Len(args \o captured) = b + CallArity(f) + Captures[f]
    BY <1>1, <1>5, JoinType
  <2>2. CallArity(f) + Captures[f] \in 0..Len(args \o captured)
    BY <1>1, <2>1
  <2>3. <<>> \in Seq(Value) /\ Len(<<>>) = 0
    OBVIOUS
  <2>4. /\ values' \in Seq(Value)
        /\ Len(values') = Len(args \o captured) + FrameSize[f] + Len(<<>>)
        /\ frames' = Append(frames, FrameOf(pc, framePointer, FALSE, f))
        /\ framePointer' = Len(args \o captured) - (CallArity(f) + Captures[f])
    BY <1>1, <1>3, <2>1, <2>2, <2>3, PushFrameFacts
  <2>5. Len(args \o captured) - (CallArity(f) + Captures[f]) = b
    BY <1>1, <2>1
  <2> QED
    BY <1>1, <2>1, <2>3, <2>4, <2>5
<1>8. Enters(f, pc, b)
  <2>1. pc' \in FunctionPos /\ pc'.fx = f
    BY <1>1, <1>3, PositionFacts
  <2>2. b + CodeSlots(pc') <= Len(values')
    <3>1. CodeSlots(pc') = CallArity(f) + Captures[f] + FrameSize[f]
      BY <1>1, <1>3
    <3> QED
      BY <1>1, <1>7, <3>1
  <2>3. inNative' = FALSE
    BY <1>3 DEF InCode, Running, IInv, TypeOK
  <2> QED
    BY <1>3, <1>6, <1>7, <2>1, <2>2, <2>3 DEF Enters
<1>9. FromCode(pc, b)
  BY <1>2, <1>3 DEF FromCode
<1> QED
  BY <1>1, <1>2, <1>8, <1>9, EnterStep

\* RETURN and RETURN_NULL.
LEMMA ReturnStep ==
    ASSUME IInv, NEW v \in Value, Leave(v)
    PROVE  IInv'
<1>1. Leaves(v)
  BY SameObjects DEF Leave, Leaves, InCode
<1> QED
  BY <1>1, LeaveStep

LEMMA FunctionsSafe == ASSUME IInv, OnFunctions PROVE IInv'
<1>1. CASE NewFx
  <2>1. PICK f \in Functions : NewFx!(f)
    BY <1>1 DEF NewFx
  <2> DEFINE new == [kind |-> "function", fx |-> f, captured |-> <<>>]
  <2>2. new \in Object /\ Fits(new)
    BY DEF Object, Fits
  <2> HIDE DEF new
  <2>3. /\ InCode /\ Len(objects) < MaxObjects /\ values' = Append(values, NewRef(1))
        /\ objects' = Append(objects, new)
        /\ UNCHANGED <<frames, framePointer, Threads>>
    BY <2>1 DEF new, Threads
  <2>4. values' \in Seq(Value) /\ Len(values') = Len(values) + 1
    <3>1. NewRef(1) \in Value /\ values \in Seq(Value)
      BY <2>3, NewRefType DEF IInv, TypeOK
    <3> QED
      BY <2>3, <3>1
  <2>5. framePointer + Slots(pc) <= Len(values')
    BY <2>3, <2>4, BaseFacts, SlotsType, TypeFacts DEF IInv, WindowsFit, InCode, Running, Live
  <2> QED
    BY <2>2, <2>3, <2>4, <2>5, ObjectAdded, StraightStep
<1>2. CASE Capture
  <2> DEFINE ref == Above(2)[1].ref
  <2>1. /\ InCode /\ HasTemporaries(2) /\ IsA(Above(2)[1], "function") /\ values' = Below(1)
        /\ objects' = [objects EXCEPT ![ref].captured = Append(@, Last(values))]
        /\ UNCHANGED <<frames, framePointer, Threads>>
    BY <1>2 DEF Capture, Threads
  <2>2. HasTemporaries(1) /\ Last(values) \in Value
    BY <2>1, TemporariesFacts, TypeFacts, SlotsType DEF HasTemporaries, IInv
  <2>3. values' \in Seq(Value) /\ framePointer + Slots(pc) <= Len(values')
    BY <2>1, <2>2, TemporariesFacts
  <2>4. ref \in DOMAIN objects /\ objects[ref].kind = "function"
    BY <2>1 DEF IsA, ObjectOf
  <2> DEFINE new == [objects[ref] EXCEPT !.captured = Append(@, Last(values))]
  <2>5. new \in Object /\ new.kind = "function"
    <3>1. objects[ref] \in [kind : {"function"}, fx : Functions, captured : Seq(Value)]
      BY <2>4, ObjectFacts DEF Object
    <3>2. Append(objects[ref].captured, Last(values)) \in Seq(Value)
      BY <2>2, <3>1
    <3>3. new \in [kind : {"function"}, fx : Functions, captured : Seq(Value)]
      BY <3>1, <3>2
    <3> QED
      BY <3>3 DEF Object
  <2>6. objects' = [objects EXCEPT ![ref] = new]
    BY <2>1, <2>4
  <2> HIDE DEF new, ref
  <2>7. objects' \in Seq(Object) /\ DOMAIN objects' = DOMAIN objects
    <3>1. objects \in Seq(Object) /\ ref \in Nat
      BY <2>4 DEF IInv, TypeOK
    <3> QED
      BY <2>5, <2>6, <3>1, StoreType
  <2>8. CoroutinesFit'
    <3>1. \A i \in DOMAIN objects : objects'[i] = IF i = ref THEN new ELSE objects[i]
      BY <2>4, <2>6
    <3> QED
      BY <2>5, <2>7, <3>1 DEF IInv, CoroutinesFit
  <2> QED
    BY <2>1, <2>3, <2>7, <2>8, StraightStep
<1>3. CASE Call
  <2>1. PICK f \in Functions : Call!(f)
    BY <1>3 DEF Call
  <2>2. /\ InCode /\ Captures[f] = 0 /\ HasTemporaries(CallArity(f)) /\ pc' = EntryPos(f)
        /\ PushFrame(values, pc, CallArity(f), f, <<>>)
        /\ UNCHANGED <<phase, natives, inNative, settled, objects>>
    BY <2>1
  <2>3. /\ CallArity(f) \in Nat /\ FrameSize[f] \in Nat
        /\ CodeSlots(EntryPos(f)) = CallArity(f) + Captures[f] + FrameSize[f]
    BY SlotsFacts
  <2>4. /\ CallArity(f) \in 0..Len(values) /\ framePointer + Slots(pc) <= Len(values) - CallArity(f)
        /\ values \in Seq(Value) /\ <<>> \in Seq(Value) /\ Len(<<>>) = 0 /\ Len(values) \in Nat
    BY <2>2, <2>3, TemporariesFacts DEF IInv, TypeOK
  <2>5. PICK b \in Nat : b = Len(values) - CallArity(f) /\ framePointer + Slots(pc) <= b
    BY <2>4
  <2>6. /\ values' \in Seq(Value) /\ Len(values') = Len(values) + FrameSize[f]
        /\ frames' = Append(frames, FrameOf(pc, framePointer, FALSE, f)) /\ framePointer' = b
    <3>1. /\ values' \in Seq(Value) /\ Len(values') = Len(values) + FrameSize[f] + Len(<<>>)
          /\ frames' = Append(frames, FrameOf(pc, framePointer, FALSE, f))
          /\ framePointer' = Len(values) - CallArity(f)
      BY <2>2, <2>4, PushFrameFacts
    <3> QED
      BY <2>3, <2>4, <2>5, <3>1
  <2>7. b + CodeSlots(pc') <= Len(values')
    BY <2>2, <2>3, <2>4, <2>5, <2>6
  <2>8. pc' \in FunctionPos /\ pc'.fx = f /\ inNative' = FALSE
    BY <2>2, PositionFacts DEF InCode, Running, IInv, TypeOK
  <2>9. Enters(f, pc, b)
    BY <2>2, <2>6, <2>7, <2>8, SameObjects DEF Enters
  <2>10. FromCode(pc, b)
    BY <2>2, <2>5 DEF FromCode
  <2> QED
    BY <2>9, <2>10, EnterStep
<1>4. CASE Invoke
  <2>1. PICK n \in Nat : /\ InCode /\ HasTemporaries(n + 1) /\ IsCallable(Last(values))
                         /\ EnterClosure(Last(values), Below(1), n)
    BY <1>4, ConstantsAssumption DEF Invoke
  <2>2. HasTemporaries(1) /\ framePointer + Slots(pc) + n <= Len(values) - 1
    BY <2>1, TypeFacts, SlotsType DEF HasTemporaries, IInv
  <2>3. Below(1) \in Seq(Value) /\ Len(Below(1)) = Len(values) - 1
    BY <2>2, TemporariesFacts
  <2> QED
    BY <2>1, <2>2, <2>3, EnterClosureStep
<1>5. CASE InvokeVariadic
  <2> DEFINE items == ObjectOf(Last(values)).items
  <2>1. /\ InCode /\ HasTemporaries(2) /\ IsA(Last(values), "tuple") /\ IsCallable(Above(2)[1])
        /\ EnterClosure(Above(2)[1], Below(2) \o items, Len(items))
    BY <1>5 DEF InvokeVariadic
  <2>2. items \in Seq(Value) /\ Len(items) \in Nat
    BY <2>1, ObjectFacts DEF IsA, ObjectOf
  <2>3. Below(2) \in Seq(Value) /\ framePointer + Slots(pc) <= Len(Below(2))
    BY <2>1, TemporariesFacts
  <2>4. Below(2) \o items \in Seq(Value) /\ Len(Below(2) \o items) = Len(Below(2)) + Len(items)
    BY <2>2, <2>3, JoinType
  <2>5. framePointer + Slots(pc) + Len(items) <= Len(Below(2) \o items)
    BY <2>2, <2>3, <2>4, SlotsType, TypeFacts DEF IInv
  <2> HIDE DEF items
  <2> QED
    BY <2>1, <2>2, <2>4, <2>5, EnterClosureStep
<1>6. CASE Return
  <2>1. Last(values) \in Value
    BY <1>6, TemporariesFacts DEF Return
  <2> QED
    BY <1>6, <2>1, ReturnStep DEF Return
<1>7. CASE ReturnNull
  BY <1>7, ValueFacts, ReturnStep DEF ReturnNull
<1>8. CASE NewTuple
  <2>1. PICK n \in Nat : /\ InCode /\ HasTemporaries(n) /\ Len(objects) < MaxObjects
                         /\ values' = Append(Below(n), NewRef(1))
                         /\ objects' = Append(objects, [kind |-> "tuple", items |-> Above(n)])
                         /\ UNCHANGED <<frames, framePointer, Threads>>
    <3>1. 0..MaxArgs \subseteq Nat
      BY ConstantsAssumption
    <3>2. PICK n \in 0..MaxArgs : NewTuple!(n)
      BY <1>8 DEF NewTuple
    <3> QED
      BY <3>1, <3>2 DEF Threads
  <2>2. /\ Below(n) \in Seq(Value) /\ Above(n) \in Seq(Value) /\ NewRef(1) \in Value
        /\ Len(Below(n)) = Len(values) - n /\ framePointer + Slots(pc) <= Len(Below(n))
        /\ Slots(pc) \in Nat /\ framePointer \in Nat
    BY <2>1, TemporariesFacts, NewRefType DEF IInv
  <2> DEFINE new == [kind |-> "tuple", items |-> Above(n)]
  <2>3. new \in Object /\ Fits(new)
    BY <2>2 DEF Object, Fits
  <2> HIDE DEF new
  <2>4. objects' = Append(objects, new)
    BY <2>1 DEF new
  <2>5. /\ values' \in Seq(Value) /\ Len(values') = Len(Below(n)) + 1
        /\ Len(Below(n)) \in Nat
    BY <2>1, <2>2
  <2>6. framePointer + Slots(pc) <= Len(values')
    BY <2>2, <2>5
  <2> QED
    BY <2>1, <2>3, <2>4, <2>5, <2>6, ObjectAdded, StraightStep
<1> QED
  BY <1>1, <1>2, <1>3, <1>4, <1>5, <1>6, <1>7, <1>8 DEF OnFunctions

\* The saved window is large enough for the code that is resumed.
LEMMA CoroutineObjectFacts ==
    ASSUME IInv, InCoroutine, pc.at \in {"entry", "body"}, NEW n \in Nat, HasTemporaries(n)
    PROVE  CoroutineObject(n) \in Object /\ Fits(CoroutineObject(n)) /\ pc # InitPos
<1>1. /\ frames # <<>> /\ pc \in FunctionPos /\ pc.fx \in IsCoroutine /\ pc.fx \in Functions
      /\ Live /\ pc # InitPos
  <2>1. pc.fx \in IsCoroutine /\ frames # <<>> /\ Live /\ pc \in Position
    BY TypeFacts DEF IInv, InCoroutine, Running, Live
  <2>2. pc.fx # NoFx
    BY <2>1, ConstantsAssumption
  <2> QED
    BY <2>1, <2>2, PositionFacts, ConstantsAssumption DEF Position, InitPos
<1>2. Last(frames).context = pc.fx
  BY <1>1 DEF IInv, CodeMatchesFrames, Last
<1>3. CodeSlots(BodyPos(pc.fx)) = Slots(pc)
  <2>1. pc = EntryPos(pc.fx) \/ pc = BodyPos(pc.fx)
    BY <1>1 DEF EntryPos, BodyPos, FunctionPos
  <2> QED
    BY <1>1, <2>1, SlotsFacts DEF Slots
<1>4. Window(n) \in Seq(Value) /\ Len(Window(n)) >= Slots(pc)
  <2>1. /\ values \in Seq(Value) /\ Len(values) - n \in 0..Len(values) /\ Len(values) \in Nat
        /\ framePointer + Slots(pc) <= Len(values) - n
        /\ Slots(pc) \in Nat /\ framePointer \in Nat
    BY TemporariesFacts DEF IInv, TypeOK
  <2> QED
    BY <2>1 DEF Window
<1>5. BodyPos(pc.fx) \in FunctionPos
  BY <1>1, PositionFacts
<1>6. CoroutineObject(n) = [kind |-> "coroutine", resume |-> BodyPos(pc.fx), locals |-> Window(n),
                            context |-> pc.fx]
  BY <1>2 DEF CoroutineObject
<1>7. Slots(pc) \in Nat /\ Len(Window(n)) \in Nat
  BY <1>4, SlotsType, TypeFacts DEF IInv
<1>8. CoroutineObject(n) \in Object
  BY <1>1, <1>4, <1>5, <1>6 DEF Object
<1>9. Fits(CoroutineObject(n))
  BY <1>1, <1>3, <1>4, <1>6, <1>7 DEF Fits
<1> QED
  BY <1>1, <1>8, <1>9

LEMMA TupleFacts ==
    ASSUME NEW first \in Value, NEW second \in Value
    PROVE  TupleObject(first, second) \in Object /\ Fits(TupleObject(first, second))
<1>1. <<first, second>> \in Seq(Value)
  OBVIOUS
<1> QED
  BY <1>1 DEF TupleObject, Object, Fits

LEMMA CoroutinesSafe == ASSUME IInv, OnCoroutines PROVE IInv'
<1>0. InCoroutine /\ pc.at = "entry" => HasTemporaries(0)
  BY BaseFacts, SlotsType, TypeFacts DEF IInv, InCoroutine, Running, Live, WindowsFit, HasTemporaries
<1>1. CASE CoDump
  <2>1. /\ InCoroutine /\ pc.at = "entry" /\ Len(objects) < MaxObjects
        /\ objects' = Append(objects, CoroutineObject(0)) /\ PopFrame(<<NewRef(1)>>)
        /\ pc' = Last(frames).ret /\ UNCHANGED <<phase, natives, inNative, settled>>
    BY <1>1 DEF CoDump
  <2>2. CoroutineObject(0) \in Object /\ Fits(CoroutineObject(0)) /\ pc # InitPos
    BY <1>0, <2>1, CoroutineObjectFacts
  <2>3. NewRef(1) \in Value
    BY <2>1, NewRefType DEF IInv
  <2>4. objects' \in Seq(Object) /\ CoroutinesFit'
    BY <2>1, <2>2, ObjectAdded
  <2>5. Leaves(NewRef(1))
    BY <2>1, <2>2, <2>3, <2>4 DEF Leaves, InCoroutine
  <2> QED
    BY <2>5, LeaveStep
<1>2. CASE Yield
  <2> DEFINE coroutine == CoroutineObject(1)
             tuple == TupleObject(NewRef(1), Last(values))
  <2>1. /\ InCoroutine /\ pc.at = "body" /\ HasTemporaries(1) /\ Len(objects) + 2 <= MaxObjects
        /\ objects' = objects \o <<coroutine, tuple>> /\ PopFrame(<<NewRef(2)>>)
        /\ pc' = Last(frames).ret /\ UNCHANGED <<phase, natives, inNative, settled>>
    BY <1>2 DEF Yield
  <2>2. NewRef(1) \in Value /\ NewRef(2) \in Value /\ Last(values) \in Value
    BY <2>1, NewRefType, TemporariesFacts DEF IInv
  <2>3. /\ coroutine \in Object /\ Fits(coroutine) /\ pc # InitPos
        /\ tuple \in Object /\ Fits(tuple)
    BY <2>1, <2>2, CoroutineObjectFacts, TupleFacts
  <2> HIDE DEF coroutine, tuple
  <2>4. /\ <<coroutine, tuple>> \in Seq(Object)
        /\ \A i \in DOMAIN <<coroutine, tuple>> : Fits(<<coroutine, tuple>>[i])
    BY <2>3
  <2>5. objects' \in Seq(Object) /\ CoroutinesFit'
    BY <2>1, <2>4, ObjectsAdded
  <2>6. Leaves(NewRef(2))
    BY <2>1, <2>2, <2>3, <2>5 DEF Leaves, InCoroutine
  <2> QED
    BY <2>6, LeaveStep
<1>3. CASE CoReturn
  <2>1. /\ InCoroutine /\ pc.at = "body" /\ HasTemporaries(1) /\ Len(objects) < MaxObjects
        /\ objects' = Append(objects, TupleObject(Null, Last(values))) /\ PopFrame(<<NewRef(1)>>)
        /\ pc' = Last(frames).ret /\ UNCHANGED <<phase, natives, inNative, settled>>
    BY <1>3 DEF CoReturn
  <2>2. NewRef(1) \in Value /\ Last(values) \in Value /\ pc # InitPos
    BY <2>1, NewRefType, TemporariesFacts DEF IInv, InitPos
  <2>3. TupleObject(Null, Last(values)) \in Object /\ Fits(TupleObject(Null, Last(values)))
    BY <2>2, ValueFacts, TupleFacts
  <2>4. objects' \in Seq(Object) /\ CoroutinesFit'
    BY <2>1, <2>3, ObjectAdded
  <2>5. Leaves(NewRef(1))
    BY <2>1, <2>2, <2>4 DEF Leaves, InCoroutine
  <2> QED
    BY <2>5, LeaveStep
<1>4. CASE InvokeCoroutine
  <2>1. /\ InCode /\ HasTemporaries(1) /\ IsA(Last(values), "coroutine")
        /\ UNCHANGED <<phase, natives, inNative, settled, objects>>
    BY <1>4 DEF InvokeCoroutine
  <2>2. PICK coroutine \in Object :
            /\ coroutine.context \in Functions /\ coroutine.locals \in Seq(Value)
            /\ coroutine.resume \in FunctionPos /\ coroutine.resume.fx = coroutine.context
            /\ CodeSlots(coroutine.resume) <= Len(coroutine.locals)
            /\ RestoreFrame(Below(1), pc, coroutine.context, coroutine.locals)
            /\ pc' = coroutine.resume
    <3>1. ObjectOf(Last(values)) = objects[Last(values).ref] /\ Last(values).ref \in DOMAIN objects
          /\ objects[Last(values).ref].kind = "coroutine"
      BY <2>1 DEF IsA, ObjectOf
    <3> QED
      BY <1>4, <3>1, ObjectFacts DEF InvokeCoroutine
  <2>3. /\ Below(1) \in Seq(Value) /\ framePointer + Slots(pc) <= Len(Below(1))
        /\ Len(Below(1)) \in Nat
    BY <2>1, TemporariesFacts
  <2>4. /\ values' \in Seq(Value) /\ Len(values') = Len(Below(1)) + Len(coroutine.locals)
        /\ frames' = Append(frames, FrameOf(pc, framePointer, FALSE, coroutine.context))
        /\ framePointer' = Len(Below(1))
    BY <2>2, <2>3, JoinType DEF RestoreFrame
  <2>5. Len(Below(1)) + CodeSlots(pc') <= Len(values')
    BY <2>2, <2>3, <2>4, SlotsFacts
  <2>6. inNative' = FALSE
    BY <2>1 DEF InCode, Running, IInv, TypeOK
  <2>7. Enters(coroutine.context, pc, Len(Below(1)))
    BY <2>1, <2>2, <2>4, <2>5, <2>6, SameObjects DEF Enters
  <2>8. FromCode(pc, Len(Below(1)))
    BY <2>1, <2>3 DEF FromCode
  <2> QED
    BY <2>2, <2>3, <2>7, <2>8, EnterStep
<1> QED
  BY <1>1, <1>2, <1>3, <1>4 DEF OnCoroutines

\* A throw finds a handler or does not.
LEMMA RaiseStep ==
    ASSUME WellFormed, IInv, NEW exception \in Value, NEW ns, Remaining(ns), Raise(exception, ns)
    PROVE  IInv'
<1>1. CASE \E h \in DOMAIN frames : Unwinds(h, exception, ns)
  BY <1>1, UnwindStep
<1>2. CASE Unhandled
  BY <1>2, UnhandledStep DEF Remaining
<1>3. "escaping_throw" \notin Shapes
  BY DEF WellFormed
<1> QED
  BY <1>1, <1>2, <1>3 DEF Raise, Unwinds

LEMMA ExceptionsSafe == ASSUME WellFormed, IInv, OnExceptions PROVE IInv'
<1>1. CASE Throw
  <2>1. InCode /\ HasTemporaries(1) /\ Raise(Last(values), natives)
    BY <1>1 DEF Throw
  <2>2. Last(values) \in Value /\ Remaining(natives)
    BY <2>1, TemporariesFacts DEF Remaining, InCode
  <2> QED
    BY <2>1, <2>2, RaiseStep
<1>2. CASE Fail
  <2>1. PICK message \in Data : InCode /\ Raise(message, natives)
    BY <1>2 DEF Fail
  <2>2. message \in Value /\ Remaining(natives)
    BY <2>1, ValueFacts DEF Remaining, InCode
  <2> QED
    BY <2>1, <2>2, RaiseStep
<1>3. CASE FailNative
  <2>1. PICK message \in Data : InNative /\ Raise(message, Front(natives))
    BY <1>3 DEF FailNative
  <2>2. message \in Value /\ Remaining(Front(natives))
    BY <2>1, ValueFacts DEF Remaining
  <2> QED
    BY <2>1, <2>2, RaiseStep
<1> QED
  BY <1>1, <1>2, <1>3, TryStep DEF OnExceptions

\* The arguments a native or the host passes are the only new values.
LEMMA ArgumentsFacts ==
    ASSUME IInv, NEW n \in Nat, NEW args \in [1..n -> Plain]
    PROVE  /\ values \o args \in Seq(Value) /\ Len(values \o args) = Len(values) + n
           /\ n \in 0..Len(values \o args) /\ Len(values) \in Nat
<1>1. args \in Seq(Value) /\ Len(args) = n
  BY ValueFacts
<1>2. values \in Seq(Value) /\ Len(values) \in Nat
  BY DEF IInv, TypeOK
<1>3. values \o args \in Seq(Value) /\ Len(values \o args) = Len(values) + n
  BY <1>1, <1>2, JoinType
<1> QED
  BY <1>2, <1>3

LEMMA NativesSafe == ASSUME IInv, OnNatives PROVE IInv'
<1>1. CASE RunFunction
  <2>1. PICK id \in DOMAIN objects : RunFunction!(id)
    BY <1>1 DEF RunFunction
  <2>2. PICK f \in Functions, captured \in Seq(Value) :
            /\ InNative /\ f \notin IsVariadic /\ Len(captured) = Captures[f]
            /\ \E args \in [1..Arity[f] -> Plain] :
                   PushFrame(values \o args, ExitPos, Arity[f], f, captured)
            /\ pc' = EntryPos(f) /\ inNative' = FALSE /\ UNCHANGED <<phase, natives, settled, objects>>
    <3>1. objects[id].fx \in Functions /\ objects[id].captured \in Seq(Value)
          /\ Len(objects[id].captured) = Captures[objects[id].fx]
      BY <2>1, CallableFacts DEF ObjectOf
    <3> QED
      BY <2>1, <3>1 DEF ReturnToLoop
  <2>3. PICK args \in [1..Arity[f] -> Plain] :
            PushFrame(values \o args, ExitPos, Arity[f], f, captured)
    BY <2>2
  <2>4. /\ Arity[f] \in Nat /\ FrameSize[f] \in Nat /\ Captures[f] \in Nat
        /\ CodeSlots(pc') = Arity[f] + Captures[f] + FrameSize[f]
    BY <2>2, SlotsFacts
  <2>5. /\ values \o args \in Seq(Value) /\ Len(values \o args) = Len(values) + Arity[f]
        /\ Arity[f] \in 0..Len(values \o args) /\ Len(values) \in Nat
    BY <2>4, ArgumentsFacts
  <2>6. /\ values' \in Seq(Value)
        /\ Len(values') = Len(values \o args) + FrameSize[f] + Len(captured)
        /\ frames' = Append(frames, FrameOf(ExitPos, framePointer, FALSE, f))
        /\ framePointer' = Len(values \o args) - Arity[f]
    BY <2>3, <2>5, PushFrameFacts
  <2>7. framePointer' = Len(values) /\ Len(values) + CodeSlots(pc') <= Len(values')
    <3>1. PICK a \in Nat, c \in Nat, s \in Nat, l \in Nat :
              a = Arity[f] /\ c = Captures[f] /\ s = FrameSize[f] /\ l = Len(values)
      BY <2>4, <2>5
    <3>2. Len(captured) = c /\ Len(values \o args) = l + a /\ CodeSlots(pc') = a + c + s
      BY <2>2, <2>4, <2>5, <3>1
    <3>3. Len(values') = (l + a) + s + c /\ framePointer' = (l + a) - a
      BY <2>6, <3>1, <3>2
    <3>4. framePointer' = l /\ Len(values') = l + (a + c + s)
      BY <3>3
    <3> QED
      BY <3>1, <3>2, <3>4
  <2>8. Enters(f, ExitPos, Len(values))
    BY <2>2, <2>6, <2>7, SameObjects, PositionFacts DEF Enters
  <2>9. FromNative(ExitPos, Len(values))
    BY <2>2 DEF FromNative
  <2> QED
    BY <2>5, <2>8, <2>9, EnterStep
<1>2. CASE RunCoroutine
  <2>1. PICK id \in DOMAIN objects : RunCoroutine!(id)
    BY <1>2 DEF RunCoroutine
  <2>2. PICK f \in Functions, locals \in Seq(Value) :
            /\ InNative /\ PushFrame(values, ExitPos, 0, f, locals)
            /\ pc' \in FunctionPos /\ pc'.fx = f /\ CodeSlots(pc') <= Len(locals)
            /\ inNative' = FALSE /\ UNCHANGED <<phase, natives, settled, objects>>
    <3>1. objects[id].kind = "coroutine"
      BY <2>1 DEF IsA, ObjectOf
    <3> QED
      BY <2>1, <3>1, ObjectFacts DEF ReturnToLoop
  <2>3. /\ values \in Seq(Value) /\ 0 \in 0..Len(values) /\ Len(values) \in Nat
        /\ FrameSize[f] \in Nat /\ CodeSlots(pc') \in Nat
    BY <2>2, SlotsFacts DEF IInv, TypeOK
  <2>4. /\ values' \in Seq(Value)
        /\ Len(values') = Len(values) + FrameSize[f] + Len(locals)
        /\ frames' = Append(frames, FrameOf(ExitPos, framePointer, FALSE, f))
        /\ framePointer' = Len(values) - 0
    BY <2>2, <2>3, PushFrameFacts
  <2>5. framePointer' = Len(values) /\ Len(values) + CodeSlots(pc') <= Len(values')
    BY <2>2, <2>3, <2>4
  <2>6. Enters(f, ExitPos, Len(values))
    BY <2>2, <2>4, <2>5, SameObjects DEF Enters
  <2>7. FromNative(ExitPos, Len(values))
    BY <2>2 DEF FromNative
  <2> QED
    BY <2>3, <2>6, <2>7, EnterStep
<1> QED
  BY <1>1, <1>2, StartNativeStep, ExitStep, EndNativeStep DEF OnNatives

\* A call of a function that does not exist leaves its arguments, and nothing
\* else changes.
LEMMA HostCallUnknownStep ==
    ASSUME IInv, HostCallUnknown
    PROVE  IInv'
<1>1. PICK n \in 0..MaxArgs : HostCallUnknown!(n)
  BY DEF HostCallUnknown
<1>2. PICK args \in [1..n -> Plain] : values' = values \o args
  BY <1>1
<1>3. /\ phase = "idle" /\ ~Live /\ frames = <<>> /\ natives = <<>> /\ framePointer = 0
      /\ Len(values) = settled /\ settled' = settled + n /\ n \in Nat /\ NGlobals <= settled
      /\ UNCHANGED <<frames, framePointer, pc, phase, natives, inNative, objects>>
  <2>1. n \in Nat
    BY ConstantsAssumption
  <2> QED
    BY <1>1, <2>1 DEF IInv, HostFindsStackClean, GlobalsBelowWindows, Live
<1>4. /\ values' \in Seq(Value) /\ Len(values') = settled' /\ settled' \in Nat
      /\ NGlobals <= settled' /\ Len(values') \in Nat
  <2>1. values' \in Seq(Value) /\ Len(values') = Len(values) + n
    BY <1>2, <1>3, ArgumentsFacts
  <2>2. settled \in Nat /\ NGlobals \in Nat
    BY SlotsFacts DEF IInv, TypeOK
  <2>3. settled' \in Nat /\ NGlobals <= settled'
    BY <1>3, <2>2
  <2> QED
    BY <1>3, <2>1, <2>3
<1>5. ~AtExit /\ ~AtExit' /\ ~inNative /\ Owned' = Len(values')
  BY <1>3, <1>4 DEF IInv, NativesMatchFrames, AtExit, Owned
<1>6. Len(<<>>) = 0 /\ DOMAIN <<>> = {} /\ ~Live'
  BY <1>3 DEF Live
<1>7. TypeOK'
  BY <1>3, <1>4 DEF IInv, TypeOK
<1>8. CodeMatchesFrames' /\ NativesMatchFrames'
  BY <1>3, <1>5, <1>6 DEF CodeMatchesFrames, NativesMatchFrames
<1>9. WindowsFit'
  <2>1. Base(0)' = 0 /\ \A i, j \in 0..0 : i <= j => Base(i)' <= Base(j)'
    BY <1>3, <1>6 DEF Base
  <2>2. Len(frames') = 0 /\ DOMAIN frames' = {} /\ DOMAIN natives' = {}
    BY <1>3, <1>6
  <2> QED
    BY <1>3, <1>4, <1>5, <1>6, <2>1, <2>2 DEF WindowsFit
<1>10. GlobalsBelowWindows' /\ HostFindsStackClean' /\ CoroutinesFit'
  BY <1>3, <1>4 DEF IInv, GlobalsBelowWindows, HostFindsStackClean, CoroutinesFit
<1> QED
  BY <1>7, <1>8, <1>9, <1>10 DEF IInv

LEMMA HostSafe == ASSUME WellFormed, IInv, OnHost PROVE IInv'
<1>1. CASE HostCall
  <2>1. PICK f \in Functions, n \in 0..MaxArgs : HostCall!(f, n)
    BY <1>1 DEF HostCall
  <2>2. PICK args \in [1..n -> Plain] : PushFrame(values \o args, ExitPos, n, f, <<>>)
    BY <2>1 DEF ReturnToLoop
  <2>3. /\ phase = "idle" /\ Captures[f] = 0 /\ n >= Parameters(f) /\ pc' = EntryPos(f)
        /\ phase' = "call" /\ UNCHANGED <<natives, inNative, settled, objects>>
    BY <2>1 DEF WellFormed
  <2>4. /\ n \in Nat /\ Len(values) = settled /\ settled \in Nat /\ inNative' = FALSE
        /\ FrameSize[f] \in Nat /\ Parameters(f) = CallArity(f) /\ CallArity(f) \in Nat
        /\ CodeSlots(pc') = CallArity(f) + Captures[f] + FrameSize[f]
    <3>1. n \in Nat
      BY ConstantsAssumption
    <3>2. ~inNative
      BY <2>3 DEF IInv, HostFindsStackClean, NativesMatchFrames
    <3> QED
      BY <2>3, <3>1, <3>2, SlotsFacts
         DEF IInv, HostFindsStackClean, TypeOK, Parameters, CallArity
  <2>5. /\ values \o args \in Seq(Value) /\ Len(values \o args) = Len(values) + n
        /\ n \in 0..Len(values \o args) /\ <<>> \in Seq(Value) /\ Len(<<>>) = 0
    BY <2>4, ArgumentsFacts
  <2>6. /\ values' \in Seq(Value)
        /\ Len(values') = Len(values \o args) + FrameSize[f] + Len(<<>>)
        /\ frames' = Append(frames, FrameOf(ExitPos, framePointer, FALSE, f))
        /\ framePointer' = Len(values \o args) - n
    BY <2>2, <2>5, PushFrameFacts
  <2>7. framePointer' = settled /\ settled + CodeSlots(pc') <= Len(values')
    BY <2>3, <2>4, <2>5, <2>6
  <2>8. Enters(f, ExitPos, settled)
    BY <2>3, <2>4, <2>6, <2>7, SameObjects, PositionFacts DEF Enters
  <2>9. FromHost(ExitPos, settled)
    BY <2>3 DEF FromHost
  <2> QED
    BY <2>4, <2>8, <2>9, EnterStep
<1> QED
  BY <1>1, FinishSetupStep, HostCallUnknownStep DEF OnHost

LEMMA StutterSafe == ASSUME IInv, UNCHANGED vars PROVE IInv'
BY DEF vars, stackVars, machineVars, IInv, TypeOK, CodeMatchesFrames, NativesMatchFrames, WindowsFit,
       GlobalsBelowWindows, CoroutinesFit, HostFindsStackClean, AtExit, Live, Owned, Base, Slots

LEMMA NextSafe == ASSUME WellFormed, IInv, [Next]_vars PROVE IInv'
<1>1. CASE UNCHANGED vars
  BY <1>1, StutterSafe
<1>2. CASE Next
  BY <1>2, TemporariesSafe, GlobalsSafe, FunctionsSafe, CoroutinesSafe, ExceptionsSafe,
     NativesSafe, HostSafe DEF Next
<1> QED
  BY <1>1, <1>2

-----------------------------------------------------------------------------
(* The parts of the invariant hold together in every program the compiler  *)
(* should emit: none of them is inductive without the others.              *)
THEOREM MachineSafe ==
    ASSUME WellFormed
    PROVE  Spec => []IInv
<1>1. IInv /\ [Next]_vars => IInv'
  BY NextSafe
<1>2. Init => IInv
  BY InitSafe
<1> QED
  BY <1>1, <1>2, PTL DEF Spec

(* Every member of the machine keeps its type: no frame, object or value   *)
(* of a kind the instructions do not expect is ever made.                  *)
THEOREM TypesKept ==
    ASSUME WellFormed
    PROVE  Spec => []TypeOK
<1>1. IInv => TypeOK
  BY DEF IInv
<1> QED
  BY <1>1, MachineSafe, PTL

(* However calls, callbacks, throws and yields follow each other, no       *)
(* activation addresses a value of another one or beyond the end.          *)
THEOREM WindowsNeverOverlap ==
    ASSUME WellFormed
    PROVE  Spec => []WindowsFit
<1>1. IInv => WindowsFit
  BY DEF IInv
<1> QED
  BY <1>1, MachineSafe, PTL

(* Code never runs on the frame of another function.                       *)
THEOREM ControlComesBack ==
    ASSUME WellFormed
    PROVE  Spec => []CodeMatchesFrames
<1>1. IInv => CodeMatchesFrames
  BY DEF IInv
<1> QED
  BY <1>1, MachineSafe, PTL

(* Every run loop ends on the frames it was started on.                    *)
THEOREM LoopsNest ==
    ASSUME WellFormed
    PROVE  Spec => []NativesMatchFrames
<1>1. IInv => NativesMatchFrames
  BY DEF IInv
<1> QED
  BY <1>1, MachineSafe, PTL

(* The host can call again after every call, also one that threw or found  *)
(* no function: only the arguments of the latter are in its way, below.    *)
THEOREM StackIsClean ==
    ASSUME WellFormed
    PROVE  Spec => []HostFindsStackClean
<1>1. IInv => HostFindsStackClean
  BY DEF IInv
<1> QED
  BY <1>1, MachineSafe, PTL

(* A coroutine object can be resumed wherever it is passed.                *)
THEOREM CoroutinesResume ==
    ASSUME WellFormed
    PROVE  Spec => []CoroutinesFit
<1>1. IInv => CoroutinesFit
  BY DEF IInv
<1> QED
  BY <1>1, MachineSafe, PTL

(* Whatever a call of the host does, the globals stay at the bottom of the *)
(* stack, where the addresses in the code expect them, and its windows lie *)
(* right above them and what failed calls have left.                       *)
THEOREM GlobalsAtBottom ==
    ASSUME WellFormed
    PROVE  Spec => []GlobalsBelowWindows
<1>1. IInv => GlobalsBelowWindows
  BY DEF IInv
<1> QED
  BY <1>1, MachineSafe, PTL

(* If functions that natives call handle their own exceptions, a native    *)
(* gets its value from the function it has called.                         *)
THEOREM CallbacksReturn ==
    ASSUME WellFormed
    PROVE  Spec => []CallbackReturns
<1>1. IInv => CallbackReturns
  BY DEF IInv, NativesMatchFrames, CallbackReturns, AtExit, Last
<1> QED
  BY <1>1, MachineSafe, PTL

-----------------------------------------------------------------------------
(***************************************************************************)
(* The globals lie at the bottom of the vector that all activations and    *)
(* natives share, and GLOBAL_WRITE is the only instruction that changes    *)
(* them.  The inductive invariant of MachineSteps puts every window above  *)
(* the initialised globals, also while they are being initialised; what is *)
(* left is that each action keeps the part of the vector below a window.   *)
(***************************************************************************)

(* Programs whose initial values have no variables in blocks of their own: *)
(* those share the slots of the globals (with InitSlots > 0 the theorem    *)
(* fails, as TLC shows).                                                   *)
NoInitSlots == InitSlots = 0

-----------------------------------------------------------------------------
(* Where the globals are *)

\* Every window of a function begins above the initialised globals.
LEMMA WindowsAboveGlobals ==
    ASSUME IInv, frames # <<>>
    PROVE  /\ \A h \in 1..Len(frames) : settled <= Base(h) /\ Base(h) \in Nat /\ Base(h) <= framePointer
           /\ settled <= framePointer
<1>1. /\ Len(frames) \in Nat /\ Len(frames) > 0 /\ settled \in Nat
      /\ \A h \in 0..Len(frames) : Base(h) \in Nat /\ Base(h) <= framePointer
      /\ Base(0) = 0 /\ frames[1].prev = Base(0)
      /\ DOMAIN frames = 1..Len(frames) /\ frames[1].ret \in Position
  BY BaseFacts, TypeFacts DEF IInv, WindowsFit
<1>2. \A h \in 1..Len(frames) : Base(1) <= Base(h)
  BY <1>1 DEF IInv, WindowsFit
<1>3. settled <= Base(1)
  <2>1. CASE phase = "call"
    BY <1>1, <2>1 DEF IInv, GlobalsBelowWindows
  <2>2. CASE phase # "call"
    <3>1. frames[1].ret \notin FunctionPos /\ phase = "setup"
      BY <1>1, <2>2 DEF IInv, CodeMatchesFrames, Live
    <3>2. CASE frames[1].ret = InitPos
      <4>1. frames[1].prev + Slots(InitPos) <= Base(1)
        BY <1>1, <3>2, PositionFacts DEF IInv, WindowsFit
      <4> QED
        BY <1>1, <4>1 DEF Slots
    <3>3. CASE frames[1].ret = ExitPos
      <4>1. PICK j \in DOMAIN natives : natives[j].depth = 1 - 1
        BY <1>1, <2>2, <3>3 DEF IInv, NativesMatchFrames
      <4>2. natives[j].depth = 0 /\ natives[j].prev = InitPos
        BY <4>1 DEF IInv, NativesMatchFrames
      <4>3. Base(0) + Slots(InitPos) <= Base(0 + 1)
        BY <1>1, <4>2 DEF IInv, WindowsFit
      <4> QED
        BY <1>1, <4>3 DEF Slots
    <3> QED
      BY <1>1, <3>1, <3>2, <3>3 DEF Position
  <2> QED
    BY <2>1, <2>2
<1>4. Base(1) \in Nat /\ Base(1) <= framePointer /\ framePointer \in Nat
  BY <1>1 DEF IInv, TypeOK
<1>5. ASSUME NEW h \in 1..Len(frames)
      PROVE  settled <= Base(h) /\ Base(h) \in Nat /\ Base(h) <= framePointer
  <2>1. h \in 0..Len(frames) /\ Base(1) <= Base(h)
    BY <1>1, <1>2
  <2> QED
    BY <1>1, <1>3, <1>4, <2>1
<1> QED
  BY <1>1, <1>3, <1>4, <1>5

\* The globals end before the values that code, a native or Exit may take.
LEMMA GlobalsOwned ==
    ASSUME IInv, phase # "dead"
    PROVE  settled \in Nat /\ Owned \in Nat /\ settled <= Owned /\ Owned <= Len(values) /\ Len(values) \in Nat
<1>1. /\ Owned \in Nat /\ Owned <= Len(values) /\ framePointer <= Owned /\ Len(values) \in Nat
      /\ settled \in Nat /\ framePointer \in Nat /\ Len(natives) \in Nat
      /\ DOMAIN natives = 1..Len(natives)
      /\ Len(natives) = 0 <=> natives = <<>>
  BY BaseFacts, TypeFacts DEF IInv
<1>2. CASE frames # <<>>
  BY <1>1, <1>2, WindowsAboveGlobals
<1>3. CASE frames = <<>> /\ phase = "call"
  BY <1>1, <1>3, SlotsFacts DEF IInv, GlobalsBelowWindows, Owned
<1>4. CASE frames = <<>> /\ phase = "idle"
  BY <1>1, <1>4 DEF IInv, GlobalsBelowWindows, HostFindsStackClean, NativesMatchFrames, Live, Owned
<1>5. CASE frames = <<>> /\ phase = "setup"
  <2>1. Len(frames) = 0 /\ Base(0) = 0 /\ framePointer = 0
    BY <1>5 DEF IInv, WindowsFit, Base
  <2>2. CASE inNative \/ AtExit
    <3>1. natives # <<>> /\ natives[Len(natives)].depth = 0
      BY <1>5, <2>1, <2>2 DEF IInv, NativesMatchFrames
    <3>2. Len(natives) \in DOMAIN natives
      BY <1>1, <3>1
    <3>3. natives[Len(natives)].prev = InitPos
      BY <3>1, <3>2 DEF IInv, NativesMatchFrames
    <3>4. Base(0) + Slots(InitPos) <= Owned
      BY <2>1, <3>1, <3>2, <3>3 DEF IInv, WindowsFit
    <3> QED
      BY <1>1, <2>1, <3>4 DEF Slots
  <2>3. CASE ~inNative /\ ~AtExit
    <3>1. pc = InitPos
      BY <1>5, <2>3, TypeFacts DEF IInv, CodeMatchesFrames, Live, AtExit, Position
    <3>2. framePointer + Slots(InitPos) <= Owned
      BY <1>5, <3>1 DEF IInv, WindowsFit, Live
    <3> QED
      BY <1>1, <2>1, <3>2 DEF Slots
  <2> QED
    BY <2>2, <2>3
<1> QED
  BY <1>2, <1>3, <1>4, <1>5 DEF IInv, TypeOK

\* The running code addresses nothing below b, and what it takes lies above.
Under(b) ==
    /\ b \in Nat /\ b <= framePointer + Slots(pc)
    /\ b <= framePointer \/ Addressable(pc) = 0

LEMMA GlobalsUnder ==
    ASSUME NoInitSlots, IInv, InCode
    PROVE  Under(settled)
<1>1. Slots(pc) \in Nat /\ framePointer \in Nat /\ settled \in Nat
  BY SlotsType, TypeFacts DEF IInv
<1>2. CASE frames # <<>>
  BY <1>1, <1>2, WindowsAboveGlobals DEF Under
<1>3. CASE frames = <<>>
  <2>1. pc = InitPos
    BY <1>3, TypeFacts DEF IInv, GlobalsBelowWindows, CodeMatchesFrames, InCode, Running, Live, AtExit, Position
  <2> QED
    BY <1>1, <2>1 DEF Slots, Addressable, NoInitSlots, Under
<1> QED
  BY <1>2, <1>3

-----------------------------------------------------------------------------
(* What keeps the bottom of the vector *)

\* The first b values of a vector are those of the stack as it is now.
Keeps(b, vals) ==
    /\ b \in Nat /\ vals \in Seq(Value) /\ b <= Len(vals)
    /\ \A i \in 1..b : vals[i] = values[i]

LEMMA CutKeeps ==
    ASSUME NEW b, NEW vals, Keeps(b, vals), NEW n \in Nat, b <= n, n <= Len(vals)
    PROVE  Keeps(b, SubSeq(vals, 1, n))
<1>1. vals \in Seq(Value) /\ n \in 0..Len(vals) /\ 1..b \subseteq 1..n
  BY DEF Keeps
<1>2. /\ SubSeq(vals, 1, n) \in Seq(Value) /\ Len(SubSeq(vals, 1, n)) = n
      /\ \A i \in 1..n : SubSeq(vals, 1, n)[i] = vals[i]
  BY <1>1, CutType
<1> QED
  BY <1>1, <1>2 DEF Keeps

LEMMA JoinKeeps ==
    ASSUME NEW b, NEW vals, Keeps(b, vals), NEW more \in Seq(Value)
    PROVE  Keeps(b, vals \o more)
<1>1. /\ vals \in Seq(Value) /\ Len(vals) \in Nat /\ Len(more) \in Nat /\ b \in Nat /\ b <= Len(vals)
      /\ vals \o more \in Seq(Value) /\ Len(vals \o more) = Len(vals) + Len(more)
  BY JoinType DEF Keeps
<1>2. \A i \in 1..Len(vals) : (vals \o more)[i] = vals[i]
  BY <1>1
<1>3. 1..b \subseteq 1..Len(vals) /\ b <= Len(vals \o more)
  BY <1>1
<1> QED
  BY <1>1, <1>2, <1>3 DEF Keeps

LEMMA AppendKeeps ==
    ASSUME NEW b, NEW vals, Keeps(b, vals), NEW v \in Value
    PROVE  Keeps(b, Append(vals, v))
<1>1. <<v>> \in Seq(Value)
  OBVIOUS
<1>2. Append(vals, v) = vals \o <<v>>
  BY <1>1 DEF Keeps
<1> QED
  BY <1>1, <1>2, JoinKeeps

LEMMA StoreKeeps ==
    ASSUME NEW b, NEW vals, Keeps(b, vals), NEW i \in Nat, i > b, NEW v \in Value
    PROVE  Keeps(b, [vals EXCEPT ![i] = v])
<1>1. [vals EXCEPT ![i] = v] \in Seq(Value) /\ Len([vals EXCEPT ![i] = v]) = Len(vals)
  BY StoreType DEF Keeps
<1>2. \A k \in 1..b : k # i /\ k \in DOMAIN vals
  BY DEF Keeps
<1> QED
  BY <1>1, <1>2 DEF Keeps

LEMMA AllKeeps ==
    ASSUME TypeOK, NEW b \in Nat, b <= Len(values)
    PROVE  Keeps(b, values)
BY DEF Keeps, TypeOK

\* Temporaries are taken, others are pushed in their place.
LEMMA BelowKeeps ==
    ASSUME IInv, NEW b, Under(b), NEW n \in Nat, HasTemporaries(n)
    PROVE  Keeps(b, Below(n))
<1>1. /\ framePointer + Slots(pc) <= Len(values) - n /\ Len(values) - n \in Nat
      /\ Len(values) - n <= Len(values) /\ Slots(pc) \in Nat /\ framePointer \in Nat
      /\ Len(values) \in Nat
  BY TemporariesFacts, TypeFacts DEF IInv
<1>2. b \in Nat /\ b <= Len(values) - n /\ b <= Len(values)
  BY <1>1 DEF Under
<1> QED
  BY <1>1, <1>2, AllKeeps, CutKeeps DEF Below, IInv

LEMMA ReplaceKeeps ==
    ASSUME IInv, NEW b, Under(b), NEW n \in Nat, NEW vs \in Seq(Value), Replace(n, vs)
    PROVE  Keeps(b, values')
<1>1. HasTemporaries(n) /\ values' = Below(n) \o vs
  BY DEF Replace
<1> QED
  BY <1>1, BelowKeeps, JoinKeeps

LEMMA PushFrameKeeps ==
    ASSUME NEW b, NEW vals, Keeps(b, vals), NEW ret, NEW arity, NEW f \in Functions,
           NEW extra \in Seq(Value), PushFrame(vals, ret, arity, f, extra)
    PROVE  Keeps(b, values')
<1>1. Nulls(FrameSize[f]) \in Seq(Value)
  BY SlotsFacts, NullsType
<1>2. Keeps(b, vals \o Nulls(FrameSize[f]))
  BY <1>1, JoinKeeps
<1>3. Keeps(b, (vals \o Nulls(FrameSize[f])) \o extra)
  BY <1>2, JoinKeeps
<1> QED
  BY <1>3 DEF PushFrame

LEMMA PopFrameKeeps ==
    ASSUME IInv, NEW b \in Nat, b <= framePointer, NEW v \in Value, PopFrame(<<v>>)
    PROVE  Keeps(b, values')
<1>1. values' = SubSeq(values, 1, framePointer) \o <<v>> /\ <<v>> \in Seq(Value)
  BY DEF PopFrame
<1>2. framePointer \in Nat /\ framePointer <= Len(values) /\ b <= Len(values)
  BY BaseFacts DEF IInv
<1>3. Keeps(b, SubSeq(values, 1, framePointer))
  BY <1>2, AllKeeps, CutKeeps DEF IInv
<1> QED
  BY <1>1, <1>3, JoinKeeps

\* A throw cuts the vector where a window begins.
LEMMA UnwindKeeps ==
    ASSUME IInv, NEW h \in 1..Len(frames), NEW b \in Nat, b <= Base(h),
           NEW exception \in Value, UnwindTo(h, exception)
    PROVE  Keeps(b, values')
<1>1. h \in 0..Len(frames) /\ frames[h].context \in Functions
  BY TypeFacts DEF IInv
<1>2. Base(h) \in Nat /\ Base(h) <= Len(values) /\ b <= Len(values)
  BY <1>1, BaseFacts DEF IInv
<1> DEFINE cut == SubSeq(values, 1, Base(h))
           nulls == Nulls(FrameSize[frames[h].context])
<1>3. Keeps(b, cut)
  BY <1>2, AllKeeps, CutKeeps DEF IInv
<1>4. nulls \in Seq(Value) /\ <<exception>> \in Seq(Value)
  <2>1. FrameSize[frames[h].context] \in Nat
    BY <1>1, SlotsFacts
  <2>2. nulls \in Seq(Value)
    BY <2>1, NullsType
  <2> QED
    BY <2>2
<1>5. values' = (cut \o <<exception>>) \o nulls
  BY DEF UnwindTo
<1> HIDE DEF cut, nulls
<1>6. Keeps(b, cut \o <<exception>>)
  BY <1>3, <1>4, JoinKeeps
<1> QED
  BY <1>4, <1>5, <1>6, JoinKeeps

\* Code that stays in its activation.
OnWindow == OnTemporaries \/ GlobalRead \/ NewFx \/ NewTuple \/ Capture \/ StartNative

LEMMA WindowKeeps ==
    ASSUME IInv, NEW b, Under(b), OnWindow
    PROVE  Keeps(b, values')
<1>1. CASE PushConstant
  <2>1. PICK v \in Plain : Replace(0, <<v>>)
    BY <1>1 DEF PushConstant
  <2>2. <<v>> \in Seq(Value)
    BY ValueFacts
  <2> QED
    BY <2>1, <2>2, ReplaceKeeps
<1>2. CASE Scrap
  <2>1. <<>> \in Seq(Value)
    OBVIOUS
  <2> QED
    BY <1>2, <2>1, ReplaceKeeps DEF Scrap
<1>3. CASE Duplicate
  <2>1. Above(1) \o Above(1) \in Seq(Value)
    BY <1>3, TemporariesFacts, JoinType DEF Duplicate
  <2> QED
    BY <1>3, <2>1, ReplaceKeeps DEF Duplicate
<1>4. CASE Swap
  <2>1. Reverse(Above(2)) \in Seq(Value)
    BY <1>4, TemporariesFacts, ReverseType DEF Swap
  <2> QED
    BY <1>4, <2>1, ReplaceKeeps DEF Swap
<1>5. CASE LoadX
  <2>1. PICK i \in 1..Addressable(pc) :
            framePointer + i <= Len(values) /\ Replace(0, <<values[framePointer + i]>>)
    BY <1>5 DEF LoadX
  <2>2. framePointer + i \in 1..Len(values)
    BY <2>1, TypeFacts DEF IInv
  <2>3. <<values[framePointer + i]>> \in Seq(Value)
    BY <2>2, ElementType
  <2> QED
    BY <2>1, <2>3, ReplaceKeeps
<1>6. CASE StoreX
  <2>1. PICK i \in 1..Addressable(pc) :
            /\ HasTemporaries(1)
            /\ values' = [Below(1) EXCEPT ![framePointer + i] = Last(values)]
    BY <1>6 DEF StoreX
  <2>2. Keeps(b, Below(1)) /\ Last(values) \in Value /\ framePointer \in Nat
    BY <2>1, BelowKeeps, TemporariesFacts
  <2>3. framePointer + i \in Nat /\ framePointer + i > b
    BY <2>1, <2>2 DEF Under
  <2> QED
    BY <2>1, <2>2, <2>3, StoreKeeps
<1>7. CASE Unpack
  <2>1. IsA(Last(values), "tuple")
    BY <1>7 DEF Unpack
  <2>2. PICK n \in 0..Len(ObjectOf(Last(values)).items) :
            Replace(1, Reverse(SubSeq(ObjectOf(Last(values)).items, 1, n)))
    BY <1>7 DEF Unpack
  <2>3. ObjectOf(Last(values)).items \in Seq(Value)
    BY <2>1, ObjectFacts DEF IsA, ObjectOf
  <2>4. SubSeq(ObjectOf(Last(values)).items, 1, n) \in Seq(Value)
    BY <2>2, <2>3, CutType
  <2>5. Reverse(SubSeq(ObjectOf(Last(values)).items, 1, n)) \in Seq(Value)
    BY <2>4, ReverseType
  <2> QED
    BY <2>1, <2>2, <2>5, ReplaceKeeps
<1>8. CASE GlobalRead
  <2>1. PICK i \in 1..NGlobals : i <= Len(values) /\ Replace(0, <<values[i]>>)
    BY <1>8 DEF GlobalRead
  <2>2. i \in 1..Len(values)
    BY <2>1, SlotsFacts, TypeFacts DEF IInv
  <2>3. <<values[i]>> \in Seq(Value)
    BY <2>2, ElementType
  <2> QED
    BY <2>1, <2>3, ReplaceKeeps
<1>9. CASE NewFx
  <2>1. InCode /\ Len(objects) < MaxObjects /\ values' = Append(values, NewRef(1))
    BY <1>9 DEF NewFx
  <2>2. NewRef(1) \in Value
    BY <2>1, NewRefType DEF IInv
  <2>3. b \in Nat /\ b <= Len(values)
    BY <2>1, BaseFacts, SlotsType, TypeFacts DEF Under, IInv, WindowsFit, InCode, Running, Live
  <2> QED
    BY <2>1, <2>2, <2>3, AllKeeps, AppendKeeps DEF IInv
<1>10. CASE NewTuple
  <2>1. PICK n \in 0..MaxArgs : /\ HasTemporaries(n) /\ Len(objects) < MaxObjects
                                /\ values' = Append(Below(n), NewRef(1))
    BY <1>10 DEF NewTuple
  <2>2. n \in Nat
    BY ConstantsAssumption
  <2>3. NewRef(1) \in Value /\ Keeps(b, Below(n))
    BY <2>1, <2>2, NewRefType, BelowKeeps DEF IInv
  <2> QED
    BY <2>1, <2>3, AppendKeeps
<1>11. CASE Capture
  <2>1. HasTemporaries(2) /\ values' = Below(1)
    BY <1>11 DEF Capture
  <2>2. HasTemporaries(1)
    BY <2>1, TypeFacts, SlotsType DEF HasTemporaries, IInv
  <2> QED
    BY <2>1, <2>2, BelowKeeps
<1>12. CASE StartNative
  <2>1. PICK n \in 0..MaxArgs : HasTemporaries(n) /\ values' = Below(n)
    BY <1>12 DEF StartNative
  <2>2. n \in Nat
    BY ConstantsAssumption
  <2> QED
    BY <2>1, <2>2, BelowKeeps
<1> QED
  BY <1>1, <1>2, <1>3, <1>4, <1>5, <1>6, <1>7, <1>8, <1>9, <1>10, <1>11, <1>12 DEF OnWindow, OnTemporaries

\* The arguments of a lambda, packed or not, are pushed back above b.
LEMMA EnterClosureKeeps ==
    ASSUME IInv, NEW v, IsCallable(v), NEW b, NEW vals, Keeps(b, vals), NEW n \in Nat,
           b + n <= Len(vals), EnterClosure(v, vals, n)
    PROVE  Keeps(b, values')
<1>1. PICK f \in Functions, captured \in Seq(Value) : f = ObjectOf(v).fx /\ captured = ObjectOf(v).captured
  BY CallableFacts
<1> DEFINE surplus == n - Arity[f]
           packed == SubSeq(vals, 1, Len(vals) - surplus) \o <<NewRef(1)>>
           args == IF f \in IsVariadic THEN packed ELSE vals
<1>2. /\ n >= Arity[f]
      /\ f \in IsVariadic => Len(objects) < MaxObjects
      /\ PushFrame(args \o captured, pc, CallArity(f) + Captures[f], f, <<>>)
  BY <1>1 DEF EnterClosure
<1>3. Keeps(b, args)
  <2>1. CASE f \notin IsVariadic
    BY <2>1
  <2>2. CASE f \in IsVariadic
    <3>1. <<NewRef(1)>> \in Seq(Value)
      BY <1>2, <2>2, NewRefType DEF IInv
    <3>2. PICK len \in Nat : len = Len(vals) /\ b \in Nat
      BY DEF Keeps
    <3>3. PICK a \in Nat : a = Arity[f]
      BY SlotsFacts
    <3>4. len - (n - a) \in Nat /\ b <= len - (n - a) /\ len - (n - a) <= len
      BY <1>2, <3>2, <3>3
    <3>5. Keeps(b, SubSeq(vals, 1, Len(vals) - surplus))
      BY <3>2, <3>3, <3>4, CutKeeps
    <3> QED
      BY <2>2, <3>1, <3>5, JoinKeeps
  <2> QED
    BY <2>1, <2>2
<1> HIDE DEF args
<1>4. Keeps(b, args \o captured) /\ <<>> \in Seq(Value)
  BY <1>3, JoinKeeps
<1> QED
  BY <1>2, <1>4, PushFrameKeeps

-----------------------------------------------------------------------------
(* The globals *)

\* What the code has pushed lies above the globals, and so does everything
\* the host, a native or Exit sees.
LEMMA ValuesKeep ==
    ASSUME IInv, phase # "dead"
    PROVE  Keeps(settled, values)
BY GlobalsOwned, AllKeeps DEF IInv

LEMMA FunctionsKeep ==
    ASSUME NoInitSlots, IInv, OnFunctions
    PROVE  Keeps(settled, values')
<1>1. CASE NewFx \/ NewTuple \/ Capture
  BY <1>1, GlobalsUnder, WindowKeeps DEF OnWindow, NewFx, NewTuple, Capture
<1>2. CASE Call
  <2>1. PICK f \in Functions : InCode /\ PushFrame(values, pc, CallArity(f), f, <<>>)
    BY <1>2 DEF Call
  <2>2. Keeps(settled, values) /\ <<>> \in Seq(Value)
    BY <2>1, ValuesKeep DEF InCode, Running
  <2> QED
    BY <2>1, <2>2, PushFrameKeeps
<1>3. CASE Invoke
  <2>1. PICK n \in Nat : /\ InCode /\ HasTemporaries(n + 1) /\ IsCallable(Last(values))
                         /\ EnterClosure(Last(values), Below(1), n)
    BY <1>3, ConstantsAssumption DEF Invoke
  <2>2. HasTemporaries(1) /\ n + 1 \in Nat
    BY <2>1, TypeFacts, SlotsType DEF HasTemporaries, IInv
  <2>3. Keeps(settled, Below(1)) /\ Keeps(settled, Below(n + 1))
    BY <2>1, <2>2, GlobalsUnder, BelowKeeps
  <2>4. settled + n <= Len(Below(1))
    <3>1. /\ Len(Below(1)) = Len(values) - 1 /\ Len(Below(n + 1)) = Len(values) - (n + 1)
          /\ Len(values) \in Nat
      BY <2>1, <2>2, TemporariesFacts, TypeFacts DEF IInv
    <3>2. settled \in Nat /\ settled <= Len(Below(n + 1))
      BY <2>3 DEF Keeps
    <3> QED
      BY <3>1, <3>2
  <2> QED
    BY <2>1, <2>3, <2>4, EnterClosureKeeps
<1>4. CASE InvokeVariadic
  <2> DEFINE items == ObjectOf(Last(values)).items
  <2>1. /\ InCode /\ HasTemporaries(2) /\ IsA(Last(values), "tuple") /\ IsCallable(Above(2)[1])
        /\ EnterClosure(Above(2)[1], Below(2) \o items, Len(items))
    BY <1>4 DEF InvokeVariadic
  <2>2. items \in Seq(Value) /\ Len(items) \in Nat
    BY <2>1, ObjectFacts DEF IsA, ObjectOf
  <2>3. Keeps(settled, Below(2))
    BY <2>1, GlobalsUnder, BelowKeeps
  <2> HIDE DEF items
  <2>4. Keeps(settled, Below(2) \o items)
    BY <2>2, <2>3, JoinKeeps
  <2>5. /\ Below(2) \in Seq(Value) /\ settled \in Nat /\ settled <= Len(Below(2))
        /\ Len(Below(2) \o items) = Len(Below(2)) + Len(items)
    BY <2>2, <2>3, JoinType DEF Keeps
  <2>6. settled + Len(items) <= Len(Below(2) \o items)
    BY <2>2, <2>5
  <2> QED
    BY <2>1, <2>2, <2>4, <2>6, EnterClosureKeeps
<1>5. CASE Return \/ ReturnNull
  <2>1. PICK v \in Value : PopFrame(<<v>>)
    BY <1>5, TemporariesFacts, ValueFacts DEF Return, ReturnNull, Leave
  <2>2. settled \in Nat /\ settled <= framePointer
    BY <2>1, WindowsAboveGlobals, TypeFacts DEF PopFrame, IInv
  <2> QED
    BY <2>1, <2>2, PopFrameKeeps
<1> QED
  BY <1>1, <1>2, <1>3, <1>4, <1>5 DEF OnFunctions

LEMMA CoroutinesKeep ==
    ASSUME NoInitSlots, IInv, OnCoroutines
    PROVE  Keeps(settled, values')
<1>1. CASE CoDump \/ Yield \/ CoReturn
  <2>1. PICK v \in Value : PopFrame(<<v>>)
    <3>1. CASE CoDump
      BY <3>1, NewRefType DEF CoDump, IInv
    <3>2. CASE Yield
      BY <3>2, NewRefType DEF Yield, IInv
    <3>3. CASE CoReturn
      BY <3>3, NewRefType DEF CoReturn, IInv
    <3> QED
      BY <1>1, <3>1, <3>2, <3>3
  <2>2. settled \in Nat /\ settled <= framePointer
    BY <2>1, WindowsAboveGlobals, TypeFacts DEF PopFrame, IInv
  <2> QED
    BY <2>1, <2>2, PopFrameKeeps
<1>2. CASE InvokeCoroutine
  <2>1. InCode /\ HasTemporaries(1) /\ IsA(Last(values), "coroutine")
    BY <1>2 DEF InvokeCoroutine
  <2>2. PICK locals \in Seq(Value) : values' = Below(1) \o locals
    <3>1. ObjectOf(Last(values)) = objects[Last(values).ref] /\ Last(values).ref \in DOMAIN objects
          /\ objects[Last(values).ref].kind = "coroutine"
      BY <2>1 DEF IsA, ObjectOf
    <3> QED
      BY <1>2, <3>1, ObjectFacts DEF InvokeCoroutine, RestoreFrame
  <2> QED
    BY <2>1, <2>2, GlobalsUnder, BelowKeeps, JoinKeeps
<1> QED
  BY <1>1, <1>2 DEF OnCoroutines

LEMMA ExceptionsKeep ==
    ASSUME IInv, OnExceptions
    PROVE  Keeps(settled, values')
<1>1. CASE Try
  BY <1>1, ValuesKeep DEF Try, Running, Keeps
<1>2. CASE Throw \/ Fail \/ FailNative
  <2>1. PICK exception, ns : exception \in Value /\ Raise(exception, ns) /\ phase # "dead"
    <3>1. CASE Throw
      BY <3>1, TemporariesFacts DEF Throw, InCode, Running
    <3>2. CASE Fail
      BY <3>2, ValueFacts DEF Fail, InCode, Running
    <3>3. CASE FailNative
      BY <3>3, ValueFacts DEF FailNative, InNative
    <3> QED
      BY <1>2, <3>1, <3>2, <3>3
  <2>2. Keeps(settled, values) /\ settled \in Nat
    BY <2>1, ValuesKeep DEF Keeps
  <2>3. CASE Unhandled
    <3>1. CASE frames = <<>>
      BY <2>2, <2>3, <3>1 DEF Unhandled, UnwindAll
    <3>2. CASE frames # <<>>
      <4>1. 1 \in 1..Len(frames) /\ 1 \in 0..Len(frames)
        BY <3>2, TypeFacts DEF IInv
      <4>2. settled <= Base(1) /\ Base(1) \in Nat /\ Base(1) <= Len(values)
        BY <3>2, <4>1, WindowsAboveGlobals, BaseFacts DEF IInv
      <4>3. values' = SubSeq(values, 1, Base(1))
        BY <2>3, <3>2 DEF Unhandled, UnwindAll
      <4> QED
        BY <2>2, <4>2, <4>3, CutKeeps
    <3> QED
      BY <3>1, <3>2
  <2>4. CASE \E h \in DOMAIN frames : UnwindTo(h, exception)
    <3>1. PICK h \in 1..Len(frames) : UnwindTo(h, exception)
      BY <2>4, TypeFacts DEF IInv
    <3>2. frames # <<>>
      BY <3>1, TypeFacts DEF IInv
    <3>3. settled <= Base(h)
      BY <3>2, WindowsAboveGlobals
    <3>4. exception \in Value
      BY <2>1
    <3> QED
      BY <2>2, <3>1, <3>3, <3>4, UnwindKeeps
  <2> QED
    BY <2>1, <2>3, <2>4 DEF Raise
<1> QED
  BY <1>1, <1>2 DEF OnExceptions

LEMMA NativesKeep ==
    ASSUME NoInitSlots, IInv, OnNatives
    PROVE  Keeps(settled, values')
<1>1. CASE StartNative
  BY <1>1, GlobalsUnder, WindowKeeps DEF OnWindow, StartNative
<1>2. CASE RunFunction
  <2>1. PICK id \in DOMAIN objects : RunFunction!(id)
    BY <1>2 DEF RunFunction
  <2>2. PICK f \in Functions, captured \in Seq(Value) :
            \E args \in [1..Arity[f] -> Plain] : PushFrame(values \o args, ExitPos, Arity[f], f, captured)
    <3>1. objects[id].fx \in Functions /\ objects[id].captured \in Seq(Value)
      BY <2>1, CallableFacts DEF ObjectOf
    <3> QED
      BY <2>1, <3>1 DEF ReturnToLoop
  <2>3. PICK args \in [1..Arity[f] -> Plain] : PushFrame(values \o args, ExitPos, Arity[f], f, captured)
    BY <2>2
  <2>4. args \in Seq(Value)
    <3>1. Arity[f] \in Nat
      BY SlotsFacts
    <3> QED
      BY <3>1, ValueFacts
  <2>5. Keeps(settled, values \o args)
    BY <2>1, <2>4, ValuesKeep, JoinKeeps DEF InNative
  <2> QED
    BY <2>3, <2>5, PushFrameKeeps
<1>3. CASE RunCoroutine
  <2>1. PICK id \in DOMAIN objects : RunCoroutine!(id)
    BY <1>3 DEF RunCoroutine
  <2>2. PICK f \in Functions, locals \in Seq(Value) : PushFrame(values, ExitPos, 0, f, locals)
    <3>1. objects[id].kind = "coroutine"
      BY <2>1 DEF IsA, ObjectOf
    <3> QED
      BY <2>1, <3>1, ObjectFacts DEF ReturnToLoop
  <2>3. Keeps(settled, values)
    BY <2>1, ValuesKeep DEF InNative
  <2> QED
    BY <2>2, <2>3, PushFrameKeeps
<1>4. CASE Exit
  <2>1. AtExit /\ values' = SubSeq(values, 1, Len(values) - 1) /\ phase # "dead"
    BY <1>4 DEF Exit, AtExit, Below
  <2>2. Keeps(settled, values) /\ Len(values) - 1 \in Nat /\ settled <= Len(values) - 1
        /\ Len(values) - 1 <= Len(values)
    BY <2>1, GlobalsOwned, ValuesKeep DEF Owned
  <2> QED
    BY <2>1, <2>2, CutKeeps
<1>5. CASE EndNative
  <2>1. PICK result \in Plain : values' = Append(values, result) /\ phase # "dead"
    BY <1>5 DEF EndNative, InNative
  <2>2. result \in Value
    BY ValueFacts
  <2> QED
    BY <2>1, <2>2, ValuesKeep, AppendKeeps
<1> QED
  BY <1>1, <1>2, <1>3, <1>4, <1>5 DEF OnNatives

LEMMA HostKeeps ==
    ASSUME IInv, OnHost
    PROVE  Keeps(settled, values')
<1>1. CASE FinishSetup
  BY <1>1, ValuesKeep DEF FinishSetup, stackVars
<1>2. CASE HostCall
  <2>1. PICK f \in Functions, n \in 0..MaxArgs : HostCall!(f, n)
    BY <1>2 DEF HostCall
  <2>2. PICK args \in [1..n -> Plain] : PushFrame(values \o args, ExitPos, n, f, <<>>)
    BY <2>1 DEF ReturnToLoop
  <2>3. n \in Nat /\ phase # "dead"
    BY <2>1, ConstantsAssumption
  <2>4. args \in Seq(Value) /\ <<>> \in Seq(Value)
    BY <2>3, ValueFacts
  <2>5. Keeps(settled, values \o args)
    BY <2>3, <2>4, ValuesKeep, JoinKeeps
  <2> QED
    BY <2>2, <2>4, <2>5, PushFrameKeeps
<1>3. CASE HostCallUnknown
  <2>1. PICK n \in 0..MaxArgs : HostCallUnknown!(n)
    BY <1>3 DEF HostCallUnknown
  <2>2. PICK args \in [1..n -> Plain] : values' = values \o args
    BY <2>1
  <2>3. n \in Nat /\ phase # "dead"
    BY <2>1, ConstantsAssumption
  <2>4. args \in Seq(Value)
    BY <2>3, ValueFacts
  <2> QED
    BY <2>2, <2>3, <2>4, ValuesKeep, JoinKeeps
<1> QED
  BY <1>1, <1>2, <1>3 DEF OnHost

(* No call, callback, throw, yield or store into a local changes a global  *)
(* that has been initialised; only GLOBAL_WRITE does.                      *)
THEOREM GlobalsChangeByWriteOnly ==
    ASSUME WellFormed, NoInitSlots
    PROVE  Spec => GlobalsKept
<1> DEFINE Kept == \A i \in 1..settled : i <= Len(values') /\ values'[i] = values[i]
<1>1. ASSUME Keeps(settled, values')
      PROVE  Kept
  BY <1>1 DEF Keeps
<1>2. IInv /\ [Next]_vars => [GlobalWrite \/ Kept]_vars
  <2> SUFFICES ASSUME IInv, Next PROVE GlobalWrite \/ Kept
    OBVIOUS
  <2>1. CASE OnTemporaries
    <3>1. InCode
      BY <2>1 DEF OnTemporaries, PushConstant, Scrap, Duplicate, Swap, LoadX, StoreX, Unpack
    <3> QED
      BY <1>1, <2>1, <3>1, GlobalsUnder, WindowKeeps DEF OnWindow
  <2>2. CASE GlobalRead
    BY <1>1, <2>2, GlobalsUnder, WindowKeeps DEF OnWindow, GlobalRead, UsesGlobals
  <2>3. CASE InitGlobal
    <3>1. UNCHANGED values /\ phase # "dead"
      BY <2>3 DEF InitGlobal, stackVars
    <3> QED
      BY <1>1, <3>1, ValuesKeep
  <2> QED
    BY <1>1, <2>1, <2>2, <2>3, FunctionsKeep, CoroutinesKeep, ExceptionsKeep, NativesKeep, HostKeeps
       DEF Next, OnGlobals
<1>3. Spec => []IInv
  BY MachineSafe
<1> QED
  BY <1>2, <1>3, PTL DEF Spec, GlobalsKept
=============================================================================
