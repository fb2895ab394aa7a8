---------------------------- MODULE MachineSteps ----------------------------
(***************************************************************************)
(* The inductive invariant of the machine, and how it survives each kind   *)
(* of step: straight code, entering and leaving a function, unwinding to a *)
(* handler or to the host, starting and ending a native.  Which action is  *)
(* a step of which kind is shown in MachineProofs.                         *)
(***************************************************************************)
EXTENDS MachineInvariants, TLAPS

(* The programs the proofs are about: the functions that natives call      *)
(* handle their own exceptions, the host passes all arguments, and the     *)
(* locals of an except block fit into those of the body.                   *)
WellFormed ==
    /\ Shapes \cap {"escaping_throw", "any_argument_count"} = {}
    /\ \A f \in Functions : ExceptAlloc[f] <= FrameSize[f]

IInv ==
    /\ TypeOK /\ CodeMatchesFrames /\ NativesMatchFrames /\ WindowsFit
    /\ GlobalsBelowWindows /\ CoroutinesFit /\ HostFindsStackClean

-----------------------------------------------------------------------------
(* Facts about the constants and the operators *)

LEMMA PositionFacts ==
    /\ InitPos \in Position /\ ExitPos \in Position
    /\ InitPos # ExitPos
    /\ InitPos \notin FunctionPos /\ ExitPos \notin FunctionPos
    /\ InitPos.at = "init" /\ ExitPos.at = "exit"
    /\ \A p \in FunctionPos : p \in Position /\ p.fx \in Functions /\ p.fx # NoFx /\ p.at # "init" /\ p.at # "exit"
    /\ \A f \in Functions : /\ BodyPos(f) \in FunctionPos /\ BodyPos(f).fx = f
                            /\ EntryPos(f) \in FunctionPos /\ EntryPos(f).fx = f
                            /\ ExceptPos(f) \in FunctionPos /\ ExceptPos(f).fx = f
BY ConstantsAssumption DEF Position, InitPos, FunctionPos, BodyPos, EntryPos, ExceptPos

LEMMA SlotsFacts ==
    /\ NGlobals \in Nat /\ MaxObjects \in Nat
    /\ CodeSlots(ExitPos) = 0
    /\ \A p \in FunctionPos : CodeSlots(p) \in Nat
    /\ \A f \in Functions :
           /\ CallArity(f) \in Nat /\ Captures[f] \in Nat /\ FrameSize[f] \in Nat /\ Arity[f] \in Nat
           /\ f \notin IsVariadic => CallArity(f) = Arity[f]
           /\ CodeSlots(BodyPos(f)) = CallArity(f) + Captures[f] + FrameSize[f]
           /\ CodeSlots(EntryPos(f)) = CallArity(f) + Captures[f] + FrameSize[f]
           /\ ExceptAlloc[f] \in Nat
           /\ CodeSlots(ExceptPos(f)) = 1 + ExceptAlloc[f]
<1>1. NGlobals \in Nat /\ MaxObjects \in Nat
  BY ConstantsAssumption
<1>2. CodeSlots(ExitPos) = 0
  BY DEF CodeSlots
<1>3. \A f \in Functions :
           /\ CallArity(f) \in Nat /\ Captures[f] \in Nat /\ FrameSize[f] \in Nat /\ Arity[f] \in Nat
           /\ ExceptAlloc[f] \in Nat /\ Parameters(f) = CallArity(f)
           /\ f \notin IsVariadic => CallArity(f) = Arity[f]
  BY ConstantsAssumption DEF CallArity, Parameters
<1>4. \A p \in FunctionPos : CodeSlots(p) =
          IF p.at = "except" THEN 1 + ExceptAlloc[p.fx]
                             ELSE Parameters(p.fx) + Captures[p.fx] + FrameSize[p.fx]
  BY PositionFacts DEF CodeSlots
<1>5. \A f \in Functions : BodyPos(f).at = "body" /\ EntryPos(f).at # "except" /\ ExceptPos(f).at = "except"
  BY DEF BodyPos, EntryPos, ExceptPos
<1>6. \A p \in FunctionPos : CodeSlots(p) \in Nat
  BY <1>3, <1>4, PositionFacts
<1> QED
  BY <1>1, <1>2, <1>3, <1>4, <1>5, <1>6, PositionFacts

LEMMA SlotsType == ASSUME TypeOK PROVE \A p \in Position : Slots(p) \in Nat
BY SlotsFacts, PositionFacts DEF TypeOK, Slots, Position

LEMMA NullsType == ASSUME NEW n \in Nat PROVE Nulls(n) \in Seq(Value) /\ Len(Nulls(n)) = n
BY DEF Nulls, Value

\* Cutting a vector and joining vectors keep the type of the elements.
LEMMA CutType ==
    ASSUME NEW S, NEW s \in Seq(S), NEW n \in 0..Len(s)
    PROVE  /\ SubSeq(s, 1, n) \in Seq(S) /\ Len(SubSeq(s, 1, n)) = n
           /\ \A i \in 1..n : SubSeq(s, 1, n)[i] = s[i]
OBVIOUS

LEMMA JoinType ==
    ASSUME NEW S, NEW s \in Seq(S), NEW t \in Seq(S)
    PROVE  s \o t \in Seq(S) /\ Len(s \o t) = Len(s) + Len(t)
OBVIOUS

\* Where windows begin: within the vector, in the order of the frames.
LEMMA BaseFacts ==
    ASSUME TypeOK, WindowsFit
    PROVE  /\ Len(frames) \in Nat /\ Len(values) \in Nat /\ framePointer \in Nat
           /\ \A i \in 0..Len(frames) : Base(i) \in Nat /\ Base(i) <= framePointer
           /\ Base(Len(frames)) = framePointer
           /\ framePointer <= Owned /\ Owned <= Len(values) /\ Owned \in Nat
           /\ \A i \in 1..Len(frames) : frames[i].prev = Base(i - 1)
<1>1. \A i \in 1..Len(frames) : frames[i] \in Frame
  BY DEF TypeOK
<1>2. \A i \in 1..Len(frames) : frames[i].prev \in Nat
  BY <1>1 DEF Frame
<1>3. Len(frames) \in Nat /\ framePointer \in Nat /\ Len(values) \in Nat
  BY DEF TypeOK
<1>4. \A i \in 0..Len(frames) : Base(i) \in Nat
  BY <1>2, <1>3 DEF Base
<1>5. Owned <= Len(values) /\ Owned \in Int /\ framePointer <= Owned
  BY <1>3 DEF Owned, WindowsFit
<1>6. \A i \in 1..Len(frames) : frames[i].prev = Base(i - 1)
  BY <1>3 DEF Base
<1>7. Base(Len(frames)) = framePointer
  BY DEF Base
<1>8. \A i \in 0..Len(frames) : Base(i) <= framePointer
  BY <1>3, <1>7 DEF WindowsFit
<1> QED
  BY <1>3, <1>4, <1>5, <1>6, <1>7, <1>8

-----------------------------------------------------------------------------
(* What the steps do to the invariants, by what they do to the frames *)

Threads == <<pc, phase, natives, inNative, settled>>

\* The running code works on its temporaries, its slots and the globals.
LEMMA StraightStep ==
    ASSUME IInv, InCode,
           values' \in Seq(Value), framePointer + Slots(pc) <= Len(values'),
           objects' \in Seq(Object), CoroutinesFit',
           UNCHANGED <<frames, framePointer, Threads>>
    PROVE  IInv'
<1> USE DEF IInv, InCode, Running, Threads
<1>1. TypeOK'
  BY DEF TypeOK
<1>2. CodeMatchesFrames'
  BY DEF CodeMatchesFrames, Live
<1>3. NativesMatchFrames'
  BY DEF NativesMatchFrames, Live, AtExit
<1>4. ~AtExit /\ ~AtExit' /\ Owned' = Len(values') /\ Live
  BY BaseFacts DEF AtExit, Owned, Live, TypeOK
<1>5. \A i \in 0..Len(frames) : Base(i)' = Base(i)
  BY DEF Base
<1>6. \A j \in DOMAIN natives : natives[j].depth < Len(frames)
  BY <1>4 DEF NativesMatchFrames
<1>7. WindowsFit'
  BY <1>4, <1>5, <1>6, BaseFacts, SlotsType DEF WindowsFit, Slots, Base, TypeOK, Native
<1>8. GlobalsBelowWindows'
  BY <1>4, <1>5, PositionFacts DEF GlobalsBelowWindows, CodeMatchesFrames, TypeOK, Base
<1>9. HostFindsStackClean'
  BY <1>4 DEF HostFindsStackClean, Live
<1> QED
  BY <1>1, <1>2, <1>3, <1>7, <1>8, <1>9

\* A frame is put on top of the others.
LEMMA FramesAppend ==
    ASSUME frames \in Seq(Frame), NEW new \in Frame, frames' = Append(frames, new)
    PROVE  /\ Len(frames) \in Nat /\ Len(frames') = Len(frames) + 1
           /\ frames'[Len(frames) + 1] = new
           /\ \A i \in 1..Len(frames) : frames'[i] = frames[i]
           /\ frames' \in Seq(Frame) /\ frames' # <<>>
           /\ DOMAIN frames' = 1..(Len(frames) + 1)
OBVIOUS

LEMMA TypeFacts ==
    ASSUME TypeOK
    PROVE  /\ \A i \in 1..Len(frames) :
                  /\ frames[i] \in Frame
                  /\ frames[i].ret \in Position /\ frames[i].prev \in Nat
                  /\ frames[i].context \in Functions
           /\ \A j \in 1..Len(natives) :
                  /\ natives[j].prev \in Position /\ natives[j].prev # ExitPos
                  /\ natives[j].depth \in Nat
           /\ DOMAIN frames = 1..Len(frames) /\ DOMAIN natives = 1..Len(natives)
           /\ Len(frames) \in Nat /\ Len(natives) \in Nat /\ Len(values) \in Nat
           /\ framePointer \in Nat /\ settled \in Nat /\ pc \in Position
           /\ Len(frames) = 0 <=> frames = <<>>
           /\ Len(natives) = 0 <=> natives = <<>>
<1>1. \A i \in 1..Len(frames) : frames[i] \in Frame
  BY DEF TypeOK
<1>2. \A j \in 1..Len(natives) : natives[j] \in Native
  BY DEF TypeOK
<1>3. /\ Len(frames) = 0 <=> frames = <<>>
      /\ Len(natives) = 0 <=> natives = <<>>
  BY DEF TypeOK
<1> QED
  BY <1>1, <1>2, <1>3, SlotsFacts DEF TypeOK, Frame, Native

\* Code enters a function: a frame is put on top, b is where its window begins.
\* The code that is entered from returns later, or a run loop ends (ret).
Enters(f, ret, b) ==
    /\ frames' = Append(frames, FrameOf(ret, framePointer, FALSE, f))
    /\ framePointer' = b
    /\ pc' \in FunctionPos /\ pc'.fx = f
    /\ inNative' = FALSE /\ UNCHANGED <<natives, settled>>
    /\ values' \in Seq(Value) /\ b + CodeSlots(pc') <= Len(values')
    /\ objects' \in Seq(Object) /\ CoroutinesFit'

FromCode(ret, b) ==
    InCode /\ ret = pc /\ phase' = phase /\ framePointer + Slots(pc) <= b
FromNative(ret, b) ==
    InNative /\ ret = ExitPos /\ phase' = phase /\ b = Len(values)
FromHost(ret, b) ==
    phase = "idle" /\ ret = ExitPos /\ phase' = "call" /\ b = settled

LEMMA EnterStep ==
    ASSUME IInv, NEW f \in Functions, NEW ret, NEW b \in Nat,
           Enters(f, ret, b),
           FromCode(ret, b) \/ FromNative(ret, b) \/ FromHost(ret, b)
    PROVE  IInv'
<1> DEFINE new == FrameOf(ret, framePointer, FALSE, f)
<1>0. PICK n \in Nat : n = Len(frames)
  BY TypeFacts DEF IInv
<1>2. /\ new.ret = ret /\ new.prev = framePointer /\ new.context = f /\ new.armed = FALSE
      /\ ret \in Position => new \in Frame
  BY <1>0, TypeFacts DEF IInv, FrameOf, Frame
<1>3. \/ InCode /\ ret = pc /\ pc # ExitPos /\ ~inNative /\ Live /\ phase' = phase
      \/ InNative /\ ret = ExitPos /\ inNative /\ Live /\ phase' = phase /\ b = Len(values)
      \/ phase = "idle" /\ ret = ExitPos /\ phase' = "call" /\ ~Live
  BY DEF InCode, Running, InNative, Live, FromCode, FromNative, FromHost
<1>4. ret \in Position /\ Live' /\ ~AtExit' /\ pc' # ExitPos /\ pc' # InitPos /\ pc' \in Position
  BY <1>0, <1>3, TypeFacts, PositionFacts DEF IInv, Live, AtExit, Enters
<1>1. /\ n \in Nat /\ Len(frames') = n + 1 /\ frames'[n + 1] = new
      /\ \A i \in 1..n : frames'[i] = frames[i]
      /\ frames' \in Seq(Frame) /\ frames' # <<>> /\ DOMAIN frames' = 1..(n + 1)
  <2>1. frames \in Seq(Frame) /\ new \in Frame /\ frames' = Append(frames, new)
    BY <1>0, <1>2, <1>4 DEF IInv, TypeOK, Enters
  <2> QED
    BY <1>0, <2>1, FramesAppend
<1>5. TypeOK'
  BY <1>0, <1>1, <1>3, <1>4 DEF IInv, TypeOK, Enters
<1>6. CodeMatchesFrames'
  <2>1. \A i \in 1..n : /\ frames[i].ret \in FunctionPos => i > 1 /\ frames[i].ret.fx = frames[i - 1].context
                        /\ frames[i].ret = InitPos => i = 1 /\ phase = "setup"
    BY <1>0, TypeFacts DEF IInv, CodeMatchesFrames
  <2>2. /\ ret \in FunctionPos => n >= 1 /\ ret.fx = frames[n].context
        /\ ret = InitPos => n = 0 /\ phase = "setup"
    BY <1>0, <1>1, <1>3, PositionFacts DEF IInv, CodeMatchesFrames
  <2>3. phase = "setup" => phase' = "setup"
    BY <1>3
  <2>4. \A i \in 1..(n + 1) :
           /\ frames'[i].ret \in FunctionPos => i > 1 /\ frames'[i].ret.fx = frames'[i - 1].context
           /\ frames'[i].ret = InitPos => i = 1 /\ phase' = "setup"
    <3> HIDE DEF new
    <3> TAKE i \in 1..(n + 1)
    <3>1. CASE i <= n
      <4>1. i \in 1..n /\ (i > 1 => i - 1 \in 1..n)
        BY <3>1, <1>1
      <4> QED
        BY <4>1, <1>1, <2>1, <2>3
    <3>2. CASE i = n + 1
      <4>1. (n >= 1 => n \in 1..n) /\ i - 1 = n
        BY <3>2, <1>1
      <4> QED
        BY <4>1, <3>2, <1>1, <1>2, <2>2, <2>3
    <3> QED
      BY <1>0, <1>1, <3>1, <3>2
  <2> QED
    BY <1>0, <1>1, <1>2, <1>4, <2>4 DEF CodeMatchesFrames, Enters
<1> HIDE DEF new
<1>7. NativesMatchFrames'
  <2> DEFINE m == Len(natives)
  <2>1. /\ m \in Nat /\ natives' = natives /\ DOMAIN natives = 1..m /\ (natives # <<>> => m \in 1..m)
        /\ \A j \in 1..m : natives[j].depth \in Nat
    BY <1>0, TypeFacts DEF IInv, Enters
  <2>2. \A j \in 1..m :
            /\ natives[j].depth <= n
            /\ natives[j].depth < n => frames[natives[j].depth + 1].ret = ExitPos
            /\ natives[j].depth = n => ret = ExitPos
            /\ IF natives[j].depth = 0
               THEN natives[j].prev = InitPos /\ phase = "setup"
               ELSE natives[j].prev \in FunctionPos
                        /\ natives[j].prev.fx = frames[natives[j].depth].context
    <3>1. natives = <<>> => m = 0
      BY <2>1
    <3>2. phase = "idle" => natives = <<>>
      BY <1>0 DEF IInv, HostFindsStackClean
    <3>3. (InCode /\ pc # ExitPos /\ ~inNative) => \A j \in DOMAIN natives : natives[j].depth < n
      BY <1>0 DEF IInv, NativesMatchFrames, AtExit
    <3> QED
      BY <1>0, <1>3, <2>1, <3>1, <3>2, <3>3 DEF IInv, NativesMatchFrames
  <2>3. \A i \in 1..n : frames[i].ret = ExitPos =>
               \/ i = 1 /\ phase = "call"
               \/ \E j \in 1..m : natives[j].depth = i - 1
    BY <1>0, <1>1, <2>1, TypeFacts DEF IInv, NativesMatchFrames
  <2>4. ret = ExitPos => \/ n = 0 /\ phase' = "call"
                         \/ \E j \in 1..m : natives[j].depth = n
    <3>1. CASE InNative
      BY <1>0, <2>1, <3>1 DEF IInv, NativesMatchFrames, InNative
    <3>2. CASE phase = "idle" /\ phase' = "call"
      BY <1>0, <3>2 DEF IInv, HostFindsStackClean
    <3> QED
      BY <1>3, <3>1, <3>2
  <2>5. (phase = "setup" => phase' = "setup") /\ (phase = "call" => phase' = "call")
    BY <1>3
  <2>6. \A j \in 1..m :
           /\ natives[j].depth <= n + 1
           /\ natives[j].depth < n + 1 => frames'[natives[j].depth + 1].ret = ExitPos
           /\ IF natives[j].depth = 0
              THEN natives[j].prev = InitPos /\ phase' = "setup"
              ELSE natives[j].prev \in FunctionPos
                       /\ natives[j].prev.fx = frames'[natives[j].depth].context
    <3> TAKE j \in 1..m
    <3>1. CASE natives[j].depth < n
      <4>1. natives[j].depth + 1 \in 1..n /\ (natives[j].depth # 0 => natives[j].depth \in 1..n)
        BY <3>1, <1>1, <2>1
      <4> QED
        BY <3>1, <4>1, <1>1, <2>1, <2>2, <2>5
    <3>2. CASE natives[j].depth = n
      <4>1. n # 0 => n \in 1..n
        BY <1>0, <1>1
      <4> QED
        BY <3>2, <4>1, <1>1, <1>2, <2>1, <2>2, <2>5
    <3> QED
      BY <3>1, <3>2, <1>1, <2>1, <2>2
  <2>7. \A i \in 1..(n + 1) : frames'[i].ret = ExitPos =>
               \/ i = 1 /\ phase' = "call"
               \/ \E j \in 1..m : natives[j].depth = i - 1
    <3> TAKE i \in 1..(n + 1)
    <3>1. CASE i \in 1..n
      BY <3>1, <1>1, <2>3, <2>5
    <3>2. CASE i = n + 1
      <4>1. i - 1 = n
        BY <3>2, <1>1
      <4> QED
        BY <3>2, <4>1, <1>1, <1>2, <2>4
    <3> QED
      BY <3>1, <3>2, <1>1
  <2>8. \A j, k \in 1..m : j < k => natives[j].depth < natives[k].depth
    BY <1>0, <2>1 DEF IInv, NativesMatchFrames
  <2>9. inNative' = FALSE /\ \A j \in 1..m : natives[j].depth < n + 1
    <3>1. \A j \in 1..m : natives[j].depth \in Nat /\ natives[j].depth <= n
      BY <2>1, <2>2
    <3>2. inNative' = FALSE
      BY DEF Enters
    <3> HIDE DEF m
    <3> QED
      BY <3>1, <3>2
  <2> QED
    BY <1>0, <1>1, <1>4, <2>1, <2>6, <2>7, <2>8, <2>9 DEF NativesMatchFrames
<1>8. WindowsFit'
  <2>1. /\ Base(n)' = framePointer /\ Base(n + 1)' = b /\ framePointer' = b /\ Len(values') \in Nat
        /\ \A i \in 0..n : Base(i)' = Base(i)
    <3>1. framePointer' = b /\ Len(values') \in Nat
      BY DEF Enters
    <3>2. \A i \in 0..(n - 1) : Base(i)' = Base(i)
      <4> TAKE i \in 0..(n - 1)
      <4>1. i + 1 \in 1..n /\ i # n /\ i # n + 1
        BY <1>0, <1>1
      <4> QED
        BY <1>0, <4>1, <1>1 DEF Base
    <3>3. Base(n)' = framePointer
      <4>1. n # n + 1
        BY <1>0, <1>1
      <4> QED
        BY <4>1, <1>1, <1>2 DEF Base
    <3>4. Base(n + 1)' = b /\ Base(n) = framePointer
      BY <1>0, <1>1, <3>1 DEF Base
    <3> QED
      BY <1>0, <1>1, <3>1, <3>2, <3>3, <3>4
  <2>2. framePointer <= b /\ (Live => framePointer + Slots(pc) <= b)
    <3>1. CASE phase = "idle"
      BY <1>0, <3>1, SlotsFacts DEF IInv, HostFindsStackClean, Live
    <3>2. CASE FromCode(ret, b)
      BY <1>0, <3>2, SlotsType, TypeFacts DEF FromCode, IInv
    <3>3. CASE FromNative(ret, b)
      <4>1. framePointer <= Len(values)
        BY <1>0, BaseFacts, TypeFacts DEF IInv
      <4>2. framePointer + Slots(pc) <= Len(values)
        BY <1>0, <3>3, BaseFacts, SlotsType, TypeFacts DEF IInv, WindowsFit, FromNative, InNative, Live
      <4> QED
        BY <3>3, <4>1, <4>2 DEF FromNative
    <3> QED
      BY <3>1, <3>2, <3>3 DEF FromHost
  <2>3. \A i, j \in 0..(n + 1) : i <= j => Base(i)' <= Base(j)'
    <3>1. \A i, j \in 0..n : i <= j => Base(i) <= Base(j)
      BY <1>0 DEF IInv, WindowsFit
    <3>2. \A i \in 0..n : Base(i) \in Nat /\ Base(i) <= framePointer
      BY <1>0, BaseFacts DEF IInv
    <3>3. framePointer \in Nat
      BY <1>0, TypeFacts DEF IInv
    <3> SUFFICES ASSUME NEW i \in 0..(n + 1), NEW j \in 0..(n + 1), i <= j
                 PROVE  Base(i)' <= Base(j)'
      OBVIOUS
    <3>4. CASE j <= n
      <4>1. i \in 0..n /\ j \in 0..n
        BY <1>0, <1>1, <3>4
      <4> QED
        BY <4>1, <2>1, <3>1
    <3>5. CASE i <= n /\ j = n + 1
      <4>1. i \in 0..n
        BY <1>0, <1>1, <3>5
      <4>2. Base(i)' <= framePointer /\ Base(i)' \in Nat /\ Base(j)' = b
        BY <4>1, <3>5, <2>1, <3>2
      <4> QED
        BY <4>2, <2>2, <3>3
    <3>6. CASE i = n + 1 /\ j = n + 1
      BY <3>6, <2>1
    <3> QED
      BY <1>0, <1>1, <3>4, <3>5, <3>6
  <2>4. Base(0)' = 0
    BY <1>0, <1>1, <2>1 DEF IInv, WindowsFit
  <2>5. Owned' = Len(values')
    BY <1>4, <2>1 DEF Owned
  <2>6. settled' = settled /\ natives' = natives
    BY DEF Enters
  <2>7. \A i \in 1..(n + 1) :
           frames'[i].ret # ExitPos => frames'[i].prev + Slots(frames'[i].ret) <= Base(i)'
    <3> TAKE i \in 1..(n + 1)
    <3>1. CASE i \in 1..n
      BY <1>0, <1>1, <2>1, <3>1 DEF IInv, WindowsFit
    <3>2. CASE i = n + 1
      <4>1. frames'[i].prev = framePointer /\ frames'[i].ret = ret /\ Base(i)' = b
        BY <1>1, <1>2, <2>1, <3>2
      <4>2. ret # ExitPos => Live /\ ret = pc
        BY <1>3
      <4> QED
        BY <2>2, <4>1, <4>2
    <3> QED
      BY <3>1, <3>2
  <2>8. \A j \in 1..Len(natives) :
           Base(natives[j].depth)' + Slots(natives[j].prev)
               <= IF natives[j].depth < n + 1 THEN Base(natives[j].depth + 1)' ELSE Owned'
    <3> SUFFICES ASSUME NEW j \in 1..Len(natives), NEW d \in Nat, d = natives[j].depth
                 PROVE  Base(d)' + Slots(natives[j].prev)
                           <= IF d < n + 1 THEN Base(d + 1)' ELSE Owned'
      BY TypeFacts DEF IInv, Enters
    <3>1. d <= n /\ (d = n => InNative)
      BY <1>0, <1>3, TypeFacts DEF IInv, NativesMatchFrames, AtExit, Live
    <3>2. Base(d) + Slots(natives[j].prev) <= IF d < n THEN Base(d + 1) ELSE Owned
      BY <1>0, TypeFacts DEF IInv, WindowsFit
    <3>3. CASE d < n
      BY <2>1, <3>2, <3>3
    <3>4. CASE d = n
      <4>1. Owned <= b
        BY <1>3, <3>1, <3>4, BaseFacts DEF IInv, InNative, InCode, Running, Live
      <4>2. Base(n) = framePointer /\ Owned \in Nat /\ Slots(natives[j].prev) \in Nat
        BY <1>0, BaseFacts, SlotsType, TypeFacts DEF IInv
      <4> QED
        BY <2>1, <3>2, <3>4, <4>1, <4>2, TypeFacts DEF IInv
    <3> QED
      BY <3>1, <3>3, <3>4
  <2>9. framePointer' + Slots(pc)' <= Owned'
    BY <1>4, <2>1, <2>5 DEF Enters, Slots
  <2>10. DOMAIN natives' = 1..Len(natives)
    BY <2>6, TypeFacts DEF IInv
  <2>11. (\A i, j \in 0..Len(frames) : i <= j => Base(i) <= Base(j))'
    BY <1>1, <2>3
  <2>12. (framePointer <= Owned)'
    <3>1. b <= Len(values')
      BY <2>1, SlotsFacts DEF Enters
    <3> QED
      BY <2>1, <2>5, <3>1
  <2>13. (\A i \in DOMAIN frames :
              frames[i].ret # ExitPos => frames[i].prev + Slots(frames[i].ret) <= Base(i))'
    BY <1>1, <2>6, <2>7 DEF Slots
  <2>14. (\A j \in DOMAIN natives :
              Base(natives[j].depth) + Slots(natives[j].prev)
                  <= IF natives[j].depth < Len(frames) THEN Base(natives[j].depth + 1) ELSE Owned)'
    BY <1>1, <2>6, <2>8, <2>10 DEF Slots
  <2>15. (Live => framePointer + Slots(pc) <= Owned)'
    BY <2>9
  <2> QED
    BY <2>4, <2>11, <2>12, <2>13, <2>14, <2>15 DEF WindowsFit
<1>9. GlobalsBelowWindows'
  <2>1. phase' \in {"idle", "call"} => NGlobals <= settled'
    BY <1>3 DEF IInv, GlobalsBelowWindows, Enters
  <2>2. phase' = "call" => Base(1)' = settled'
    <3>1. CASE n = 0
      <4>1. Base(1)' = b
        <5>1. Len(frames') = 1
          BY <1>1, <3>1
        <5> QED
          BY <5>1 DEF Base, Enters
      <4>2. phase' = "call" => phase = "idle"
        <5>1. frames = <<>>
          BY <1>0, <3>1, TypeFacts DEF IInv
        <5>2. InCode => phase # "call"
          BY <5>1 DEF IInv, GlobalsBelowWindows, InCode, Running, AtExit
        <5>3. InNative => phase # "call"
          BY <1>0, <3>1, TypeFacts DEF IInv, NativesMatchFrames, InNative
        <5> QED
          BY <1>3, <5>2, <5>3
      <4> QED
        BY <1>3, <4>1, <4>2 DEF FromHost, FromCode, FromNative, InCode, InNative, Running, Enters
    <3>2. CASE n > 0
      <4>1. Base(1)' = Base(1)
        <5>1. CASE n = 1
          BY <1>0, <1>1, <1>2, <5>1 DEF Base
        <5>2. CASE n > 1
          <6>1. 2 \in 1..n /\ 1 # n /\ 1 # n + 1
            BY <5>2
          <6> QED
            BY <1>0, <1>1, <6>1 DEF Base
        <5> QED
          BY <3>2, <5>1, <5>2
      <4>2. frames # <<>> /\ phase # "idle"
        BY <1>0, <3>2 DEF IInv, HostFindsStackClean
      <4> QED
        BY <1>3, <4>1, <4>2 DEF IInv, GlobalsBelowWindows, Enters
    <3> QED
      BY <3>1, <3>2
  <2> QED
    BY <1>1, <2>1, <2>2 DEF GlobalsBelowWindows
<1>10. HostFindsStackClean'
  BY <1>4 DEF HostFindsStackClean, Live
<1> QED
  BY <1>0, <1>5, <1>6, <1>7, <1>8, <1>9, <1>10 DEF IInv, Enters

LEMMA FramesFront ==
    ASSUME frames \in Seq(Frame), frames # <<>>, frames' = Front(frames)
    PROVE  /\ Len(frames) \in Nat \ {0} /\ Len(frames') = Len(frames) - 1
           /\ \A i \in 1..(Len(frames) - 1) : frames'[i] = frames[i]
           /\ frames' \in Seq(Frame) /\ DOMAIN frames' = 1..(Len(frames) - 1)
           /\ Last(frames) = frames[Len(frames)]
           /\ Len(frames) = 1 <=> frames' = <<>>
<1>1. frames' = SubSeq(frames, 1, Len(frames) - 1) /\ Last(frames) = frames[Len(frames)]
  BY DEF Front, Last
<1>2. Len(frames) \in Nat \ {0}
  OBVIOUS
<1>3. Len(frames) - 1 \in 0..Len(frames)
  BY <1>2
<1>4. /\ frames' \in Seq(Frame) /\ Len(frames') = Len(frames) - 1
      /\ \A i \in 1..(Len(frames) - 1) : frames'[i] = frames[i]
  BY <1>1, <1>3, CutType
<1>5. DOMAIN frames' = 1..(Len(frames) - 1) /\ (Len(frames') = 0 <=> frames' = <<>>)
  BY <1>4
<1> QED
  BY <1>1, <1>2, <1>4, <1>5

\* The top frame is popped and a value is pushed for the code it returns to.
Leaves(v) ==
    /\ Running /\ pc # InitPos
    /\ v \in Value /\ PopFrame(<<v>>)
    /\ pc' = Last(frames).ret
    /\ UNCHANGED <<phase, natives, inNative, settled>>
    /\ objects' \in Seq(Object) /\ CoroutinesFit'

LEMMA LeaveStep ==
    ASSUME IInv, NEW v, Leaves(v)
    PROVE  IInv'
<1>0. PICK n \in Nat : n = Len(frames)
  BY TypeFacts DEF IInv
<1>1. /\ n \in Nat \ {0} /\ n \in 1..n /\ Len(frames') = n - 1 /\ frames' \in Seq(Frame)
      /\ \A i \in 1..(n - 1) : frames'[i] = frames[i]
      /\ DOMAIN frames' = 1..(n - 1)
      /\ frames # <<>> /\ Last(frames) = frames[n]
      /\ n = 1 <=> frames' = <<>>
  BY <1>0, FramesFront DEF IInv, TypeOK, Leaves, PopFrame
<1>2. /\ ~inNative /\ ~AtExit /\ Live /\ phase' = phase /\ inNative' = inNative /\ Live'
      /\ natives' = natives /\ settled' = settled /\ phase # "idle"
      /\ pc' = frames[n].ret /\ framePointer' = frames[n].prev
  BY <1>1 DEF Leaves, Running, AtExit, Live, PopFrame
<1>3. /\ frames[n].ret \in Position /\ frames[n].prev \in Nat /\ frames[n].prev = Base(n - 1)
      /\ Base(n - 1) <= framePointer /\ framePointer \in Nat /\ Base(n) = framePointer
      /\ framePointer <= Len(values)
  BY <1>0, <1>1, TypeFacts, BaseFacts DEF IInv
<1>4. /\ values' \in Seq(Value) /\ Len(values') = framePointer + 1
  <2>1. v \in Value /\ values' = SubSeq(values, 1, framePointer) \o <<v>> /\ framePointer \in 0..Len(values)
    BY <1>3, TypeFacts DEF Leaves, PopFrame, IInv
  <2>2. /\ SubSeq(values, 1, framePointer) \in Seq(Value)
        /\ Len(SubSeq(values, 1, framePointer)) = framePointer
    BY <2>1, CutType DEF IInv, TypeOK
  <2>3. <<v>> \in Seq(Value) /\ Len(<<v>>) = 1
    BY <2>1
  <2> QED
    BY <2>1, <2>2, <2>3, JoinType
<1>5. TypeOK'
  BY <1>1, <1>2, <1>3, <1>4 DEF IInv, TypeOK, Leaves
<1>6. CodeMatchesFrames'
  <2>1. \A i \in 1..(n - 1) :
           /\ frames'[i].ret \in FunctionPos => i > 1 /\ frames'[i].ret.fx = frames'[i - 1].context
           /\ frames'[i].ret = InitPos => i = 1 /\ phase' = "setup"
    <3> TAKE i \in 1..(n - 1)
    <3>1. i \in 1..n /\ (i > 1 => i - 1 \in 1..(n - 1))
      BY <1>1
    <3>2. /\ frames[i].ret \in FunctionPos => i > 1 /\ frames[i].ret.fx = frames[i - 1].context
          /\ frames[i].ret = InitPos => i = 1 /\ phase = "setup"
      BY <1>0, <3>1, TypeFacts DEF IInv, CodeMatchesFrames
    <3> QED
      BY <1>1, <1>2, <3>1, <3>2
  <2>2. pc' = InitPos => frames' = <<>> /\ phase' = "setup"
    BY <1>0, <1>1, <1>2, TypeFacts DEF IInv, CodeMatchesFrames
  <2>3. pc' \in FunctionPos => frames' # <<>> /\ pc'.fx = frames'[n - 1].context
    <3>1. pc' \in FunctionPos => n > 1 /\ pc'.fx = frames[n - 1].context
      BY <1>0, <1>1, <1>2, TypeFacts DEF IInv, CodeMatchesFrames
    <3>2. n > 1 => n - 1 \in 1..(n - 1)
      BY <1>1
    <3> QED
      BY <1>1, <3>1, <3>2
  <2> QED
    BY <1>1, <1>2, <2>1, <2>2, <2>3 DEF CodeMatchesFrames
<1>7. NativesMatchFrames'
  <2> DEFINE m == Len(natives)
  <2>1. /\ m \in Nat /\ DOMAIN natives = 1..m /\ (natives # <<>> => m \in 1..m)
        /\ \A j \in 1..m : natives[j].depth \in 0..(n - 1)
    <3>1. /\ m \in Nat /\ DOMAIN natives = 1..m /\ (m = 0 <=> natives = <<>>)
          /\ \A j \in 1..m : natives[j].depth \in Nat
      BY TypeFacts DEF IInv
    <3>2. \A j \in DOMAIN natives : natives[j].depth < n
      BY <1>0, <1>2 DEF IInv, NativesMatchFrames
    <3> QED
      BY <1>1, <3>1, <3>2
  <2>2. \A j \in 1..m :
            /\ frames[natives[j].depth + 1].ret = ExitPos
            /\ IF natives[j].depth = 0
               THEN natives[j].prev = InitPos /\ phase = "setup"
               ELSE natives[j].prev \in FunctionPos
                        /\ natives[j].prev.fx = frames[natives[j].depth].context
    <3> SUFFICES ASSUME NEW j \in 1..m
                 PROVE  /\ frames[natives[j].depth + 1].ret = ExitPos
                        /\ IF natives[j].depth = 0
                           THEN natives[j].prev = InitPos /\ phase = "setup"
                           ELSE natives[j].prev \in FunctionPos
                                    /\ natives[j].prev.fx = frames[natives[j].depth].context
      OBVIOUS
    <3>1. j \in DOMAIN natives /\ natives[j].depth < n
      BY <1>1, <2>1
    <3> QED
      BY <1>0, <3>1 DEF IInv, NativesMatchFrames
  <2>3. \A i \in 1..n : frames[i].ret = ExitPos =>
               \/ i = 1 /\ phase = "call"
               \/ \E j \in 1..m : natives[j].depth = i - 1
    BY <1>0, <2>1, TypeFacts DEF IInv, NativesMatchFrames
  <2>4. \A j, k \in 1..m : j < k => natives[j].depth < natives[k].depth
    BY <2>1 DEF IInv, NativesMatchFrames
  <2>5. \A j \in 1..m :
           /\ natives[j].depth <= n - 1
           /\ natives[j].depth < n - 1 => frames'[natives[j].depth + 1].ret = ExitPos
           /\ natives[j].depth # 0 => natives[j].prev.fx = frames'[natives[j].depth].context
    BY <1>1, <2>1, <2>2
  <2>6. \A i \in 1..(n - 1) : frames'[i].ret = ExitPos =>
               \/ i = 1 /\ phase' = "call"
               \/ \E j \in 1..m : natives[j].depth = i - 1
    BY <1>1, <1>2, <2>3
  <2>7. ASSUME AtExit' PROVE IF natives = <<>> THEN n = 1 /\ phase = "call" ELSE natives[m].depth = n - 1
    <3>1. \/ n = 1 /\ phase = "call"
          \/ \E j \in 1..m : natives[j].depth = n - 1
      BY <1>1, <1>2, <2>3, <2>7 DEF AtExit
    <3>2. CASE natives = <<>>
      BY <2>1, <3>1, <3>2, TypeFacts DEF IInv
    <3>3. CASE natives # <<>> /\ \E j \in 1..m : natives[j].depth = n - 1
      <4>1. PICK j \in 1..m : natives[j].depth = n - 1
        BY <3>3
      <4>2. m \in 1..m /\ (j < m => natives[j].depth < natives[m].depth)
        BY <2>1, <2>4, <3>3
      <4> QED
        BY <2>1, <3>3, <4>1, <4>2
    <3>4. CASE natives # <<>> /\ n = 1 /\ phase = "call"
      BY <2>1, <2>2, <3>4
    <3> QED
      BY <3>1, <3>2, <3>3, <3>4
  <2>8. ASSUME ~AtExit' PROVE \A j \in 1..m : natives[j].depth < n - 1
    BY <1>1, <1>2, <2>1, <2>2, <2>8 DEF AtExit
  <2> QED
    BY <1>1, <1>2, <2>1, <2>2, <2>4, <2>5, <2>6, <2>7, <2>8 DEF NativesMatchFrames
<1>8. WindowsFit'
  <2>1. \A i \in 0..(n - 1) : Base(i)' = Base(i)
    <3> TAKE i \in 0..(n - 1)
    <3>1. CASE i = n - 1
      BY <1>1, <1>2, <1>3, <3>1 DEF Base
    <3>2. CASE i < n - 1
      <4>1. i + 1 \in 1..(n - 1) /\ i # n - 1 /\ i # n
        BY <1>1, <3>2
      <4> QED
        BY <1>0, <1>1, <4>1 DEF Base
    <3> QED
      BY <3>1, <3>2
  <2>2. Owned' = IF pc' = ExitPos THEN framePointer ELSE framePointer + 1
    BY <1>3, <1>4 DEF Owned, AtExit
  <2>3. \A i, j \in 0..n : i <= j => Base(i) <= Base(j)
    BY <1>0 DEF IInv, WindowsFit
  <2>4. \A i \in 1..n : frames[i].ret # ExitPos => frames[i].prev + Slots(frames[i].ret) <= Base(i)
    BY <1>0, TypeFacts DEF IInv, WindowsFit
  <2>5. (\A i, j \in 0..Len(frames) : i <= j => Base(i) <= Base(j))'
    BY <1>1, <2>1, <2>3
  <2>6. (Base(0) = 0)'
    BY <1>1, <2>1 DEF IInv, WindowsFit
  <2>7. (framePointer <= Owned)'
    BY <1>2, <1>3, <2>2
  <2>8. (\A i \in DOMAIN frames :
              frames[i].ret # ExitPos => frames[i].prev + Slots(frames[i].ret) <= Base(i))'
    BY <1>1, <1>2, <2>1, <2>4 DEF Slots
  <2>9. (\A j \in DOMAIN natives :
              Base(natives[j].depth) + Slots(natives[j].prev)
                  <= IF natives[j].depth < Len(frames) THEN Base(natives[j].depth + 1) ELSE Owned)'
    <3> SUFFICES ASSUME NEW j \in 1..Len(natives), NEW d \in Nat, d = natives[j].depth
                 PROVE  Base(d)' + Slots(natives[j].prev)'
                           <= IF d < n - 1 THEN Base(d + 1)' ELSE Owned'
      BY <1>1, <1>2, TypeFacts DEF IInv
    <3>0. j \in DOMAIN natives /\ d < n
      BY <1>0, <1>2, TypeFacts DEF IInv, NativesMatchFrames
    <3>1. d <= n - 1 /\ frames[d + 1].ret = ExitPos
      BY <1>0, <3>0 DEF IInv, NativesMatchFrames
    <3>2. Base(d) + Slots(natives[j].prev) <= Base(d + 1)
      BY <1>0, <3>0 DEF IInv, WindowsFit
    <3>3. Base(d)' = Base(d) /\ Slots(natives[j].prev)' = Slots(natives[j].prev)
      BY <1>2, <2>1, <3>1 DEF Slots
    <3>4. CASE d < n - 1
      BY <2>1, <3>2, <3>3, <3>4
    <3>5. CASE d = n - 1
      <4>1. Owned' = framePointer /\ d + 1 = n
        BY <1>1, <1>2, <2>2, <3>1, <3>5
      <4> QED
        BY <1>3, <3>2, <3>3, <3>5, <4>1
    <3> QED
      BY <3>1, <3>4, <3>5
  <2>10. (Live => framePointer + Slots(pc) <= Owned)'
    <3>1. CASE pc' = ExitPos
      BY <1>2, <1>3, <2>2, <3>1, SlotsFacts, PositionFacts DEF Slots
    <3>2. CASE pc' # ExitPos
      <4>1. Slots(pc)' = Slots(frames[n].ret) /\ Slots(frames[n].ret) \in Nat
        BY <1>2, <1>3, SlotsType DEF Slots, IInv
      <4>2. frames[n].prev + Slots(frames[n].ret) <= framePointer
        BY <1>1, <1>2, <1>3, <2>4, <3>2
      <4> QED
        BY <1>2, <1>3, <2>2, <3>2, <4>1, <4>2
    <3> QED
      BY <3>1, <3>2
  <2> QED
    BY <2>5, <2>6, <2>7, <2>8, <2>9, <2>10 DEF WindowsFit
<1>9. GlobalsBelowWindows'
  <2>1. CASE n = 1
    <3>1. phase = "call" => framePointer = settled /\ pc' = ExitPos
      <4>1. phase = "call" => frames[n].ret # InitPos /\ frames[n].ret \notin FunctionPos
        BY <1>0, <1>1, <2>1, TypeFacts DEF IInv, CodeMatchesFrames
      <4> QED
        BY <1>1, <1>2, <1>3, <2>1, <4>1 DEF IInv, GlobalsBelowWindows, Position
    <3> QED
      BY <1>1, <1>2, <1>4, <2>1, <3>1 DEF IInv, GlobalsBelowWindows, AtExit
  <2>2. CASE n > 1
    <3>1. Base(1)' = Base(1)
      <4>1. CASE n = 2
        BY <1>0, <1>1, <1>2, <4>1 DEF Base
      <4>2. CASE n > 2
        <5>1. 2 \in 1..(n - 1) /\ 1 # n - 1 /\ 1 # n
          BY <4>2
        <5> QED
          BY <1>0, <1>1, <5>1 DEF Base
      <4> QED
        BY <2>2, <4>1, <4>2
    <3> QED
      BY <1>1, <1>2, <2>2, <3>1 DEF IInv, GlobalsBelowWindows
  <2> QED
    BY <1>1, <2>1, <2>2
<1>10. HostFindsStackClean'
  BY <1>2 DEF HostFindsStackClean
<1> QED
  BY <1>5, <1>6, <1>7, <1>8, <1>9, <1>10 DEF IInv, Leaves

\* The natives that are left are the oldest ones: all of them when compiled code
\* throws, all but the newest when the C++ code of a native throws.
Remaining(ns) ==
    \/ Running /\ ns = natives
    \/ InNative /\ ns = Front(natives)

LEMMA RemainingFacts ==
    ASSUME IInv, NEW ns, Remaining(ns)
    PROVE  /\ ns \in Seq(Native) /\ DOMAIN ns = 1..Len(ns)
           /\ \A j \in 1..Len(ns) :
                  /\ j \in 1..Len(natives) /\ ns[j] = natives[j]
                  /\ ns[j].depth \in Nat /\ ns[j].depth < Len(frames)
                  /\ ns[j].depth <= FramesBelow(ns)
           /\ \A j \in 1..Len(natives) : j \in 1..Len(ns) \/ natives[j].depth = Len(frames)
<1>1. /\ natives \in Seq(Native) /\ Len(natives) \in Nat
      /\ \A j \in 1..Len(natives) : natives[j].depth \in Nat
      /\ \A j, k \in 1..Len(natives) : j < k => natives[j].depth < natives[k].depth
  BY TypeFacts DEF IInv, TypeOK, NativesMatchFrames
<1>2. CASE Running /\ ns = natives
  <2>1. \A j \in 1..Len(natives) : natives[j].depth < Len(frames)
    BY <1>1, <1>2 DEF IInv, NativesMatchFrames, Running, AtExit
  <2>2. Len(natives) # 0 => /\ Len(natives) \in 1..Len(natives)
                            /\ FramesBelow(natives) = natives[Len(natives)].depth
    BY <1>1 DEF FramesBelow, Last
  <2>3. \A j \in 1..Len(natives) : natives[j].depth <= FramesBelow(natives)
    BY <1>1, <2>2
  <2> QED
    BY <1>1, <1>2, <2>1, <2>3
<1>3. CASE InNative /\ ns = Front(natives)
  <2>0. PICK m \in Nat : m = Len(natives)
    BY <1>1
  <2>1. /\ m \in Nat \ {0} /\ m \in 1..m /\ ns = SubSeq(natives, 1, m - 1)
        /\ natives[m].depth = Len(frames) /\ m - 1 \in 0..m
    BY <2>0, <1>1, <1>3 DEF IInv, NativesMatchFrames, InNative, Front
  <2>2. ns \in Seq(Native) /\ Len(ns) = m - 1 /\ \A j \in 1..(m - 1) : ns[j] = natives[j]
    BY <2>0, <1>1, <2>1, CutType
  <2>3. m - 1 # 0 => m - 1 \in 1..(m - 1) /\ FramesBelow(ns) = ns[m - 1].depth
    <3>1. m - 1 # 0 => m - 1 \in 1..(m - 1)
      BY <2>1
    <3>2. ns = <<>> => Len(ns) = 0
      OBVIOUS
    <3> QED
      BY <2>2, <3>1, <3>2 DEF FramesBelow, Last
  <2>4. \A j \in 1..(m - 1) : j \in 1..m /\ natives[j].depth < Len(frames)
    BY <2>0, <1>1, <2>1
  <2>5. \A j \in 1..(m - 1) : ns[j].depth <= FramesBelow(ns)
    BY <2>0, <1>1, <2>1, <2>2, <2>3
  <2>6. \A j \in 1..m : j \in 1..(m - 1) \/ j = m
    BY <2>1
  <2>7. DOMAIN ns = 1..(m - 1) /\ Len(ns) = m - 1
    BY <2>2
  <2>8. \A j \in 1..(m - 1) : ns[j].depth \in Nat /\ ns[j].depth < Len(frames)
    BY <2>0, <1>1, <2>2, <2>4
  <2> QED
    BY <2>0, <2>1, <2>2, <2>4, <2>5, <2>6, <2>7, <2>8
<1> QED
  BY <1>2, <1>3 DEF Remaining

LEMMA FramesUnwound ==
    ASSUME frames \in Seq(Frame), NEW h \in 1..Len(frames), NEW new \in Frame,
           frames' = Append(SubSeq(frames, 1, h - 1), new)
    PROVE  /\ frames' \in Seq(Frame) /\ Len(frames') = h /\ DOMAIN frames' = 1..h
           /\ \A i \in 1..(h - 1) : frames'[i] = frames[i]
           /\ frames'[h] = new /\ frames' # <<>>
<1>1. h - 1 \in 0..Len(frames)
  OBVIOUS
<1>2. /\ SubSeq(frames, 1, h - 1) \in Seq(Frame) /\ Len(SubSeq(frames, 1, h - 1)) = h - 1
      /\ \A i \in 1..(h - 1) : SubSeq(frames, 1, h - 1)[i] = frames[i]
  BY <1>1, CutType
<1> HIDE <1>1
<1> QED
  BY <1>2

\* thr0w finds a handler: it lies in a frame of the run loop that goes on.
Unwinds(h, exception, ns) ==
    /\ StopsUnwind(h) /\ h > FramesBelow(ns) /\ exception \in Value
    /\ UnwindTo(h, exception)
    /\ pc' = ExceptPos(frames[h].context)
    /\ natives' = ns /\ inNative' = FALSE /\ UNCHANGED <<phase, settled, objects>>

LEMMA UnwindStep ==
    ASSUME WellFormed, IInv, NEW h, NEW exception, NEW ns,
           Remaining(ns), Unwinds(h, exception, ns)
    PROVE  IInv'
<1>0. PICK n \in Nat : n = Len(frames)
  BY TypeFacts DEF IInv
<1> DEFINE new == FrameOf(frames[h].ret, frames[h].prev, FALSE, frames[h].context)
<1>1. /\ h \in 1..n /\ n \in Nat /\ frames[h].context \in Functions /\ frames[h].ret \in Position
      /\ frames[h].prev \in Nat /\ frames # <<>>
  BY <1>0, TypeFacts DEF IInv, Unwinds, StopsUnwind
<1>2. /\ new.ret = frames[h].ret /\ new.prev = frames[h].prev
      /\ new.context = frames[h].context /\ new \in Frame
  BY <1>1 DEF FrameOf, Frame
<1>3. /\ frames' \in Seq(Frame) /\ Len(frames') = h /\ DOMAIN frames' = 1..h
      /\ \A i \in 1..(h - 1) : frames'[i] = frames[i]
      /\ frames'[h] = new /\ frames' # <<>>
  <2>1. frames' = Append(SubSeq(frames, 1, h - 1), new) /\ frames \in Seq(Frame)
    BY DEF Unwinds, UnwindTo, IInv, TypeOK
  <2> HIDE DEF new
  <2> QED
    BY <1>0, <1>1, <1>2, <2>1, FramesUnwound
<1> HIDE DEF new
<1>4. \A i \in 1..h : /\ i \in 1..n /\ frames'[i].ret = frames[i].ret /\ frames'[i].prev = frames[i].prev
                      /\ frames'[i].context = frames[i].context
  BY <1>1, <1>2, <1>3
<1>5. /\ Live /\ phase' = phase /\ natives' = ns /\ inNative' = FALSE /\ settled' = settled
      /\ pc' = ExceptPos(frames[h].context) /\ objects' = objects
      /\ framePointer' = Base(h) /\ exception \in Value /\ h > FramesBelow(ns)
      /\ values' = SubSeq(values, 1, Base(h)) \o <<exception>> \o Nulls(FrameSize[frames[h].context])
  BY DEF Unwinds, UnwindTo, Remaining, Running, InNative, Live
<1>6. /\ pc' \in FunctionPos /\ pc' \in Position /\ pc'.fx = frames[h].context
      /\ pc' # ExitPos /\ pc' # InitPos
      /\ CodeSlots(pc') = 1 + ExceptAlloc[frames[h].context]
      /\ ExceptAlloc[frames[h].context] <= FrameSize[frames[h].context]
      /\ ExceptAlloc[frames[h].context] \in Nat /\ FrameSize[frames[h].context] \in Nat
  BY <1>1, <1>5, PositionFacts, SlotsFacts DEF WellFormed
<1>7. /\ Base(h) \in 0..Len(values) /\ values' \in Seq(Value)
      /\ Len(values') = Base(h) + 1 + FrameSize[frames[h].context]
  <2>1. Base(h) \in 0..Len(values)
    <3>1. h \in 0..n
      BY <1>1
    <3> QED
      BY <1>0, <3>1, BaseFacts DEF IInv
  <2>2. /\ SubSeq(values, 1, Base(h)) \in Seq(Value) /\ Len(SubSeq(values, 1, Base(h))) = Base(h)
    BY <2>1, CutType DEF IInv, TypeOK
  <2>3. <<exception>> \in Seq(Value) /\ Len(<<exception>>) = 1
    BY <1>5
  <2>4. /\ SubSeq(values, 1, Base(h)) \o <<exception>> \in Seq(Value)
        /\ Len(SubSeq(values, 1, Base(h)) \o <<exception>>) = Base(h) + 1
    BY <2>2, <2>3, JoinType
  <2>5. /\ Nulls(FrameSize[frames[h].context]) \in Seq(Value)
        /\ Len(Nulls(FrameSize[frames[h].context])) = FrameSize[frames[h].context]
    BY <1>6, NullsType
  <2> QED
    BY <1>5, <2>1, <2>4, <2>5, JoinType
<1>14. /\ DOMAIN ns = 1..Len(ns) /\ ns \in Seq(Native)
       /\ \A j \in 1..Len(ns) :
             /\ j \in DOMAIN natives /\ ns[j] = natives[j] /\ ns[j].depth \in Nat
             /\ ns[j].depth < n /\ ns[j].depth < h /\ ns[j].depth + 1 \in 1..h
             /\ ns[j].depth # 0 => ns[j].depth \in 1..h
  <2>1. /\ DOMAIN ns = 1..Len(ns) /\ ns \in Seq(Native)
        /\ \A j \in 1..Len(ns) :
              /\ j \in DOMAIN natives /\ ns[j] = natives[j] /\ ns[j].depth \in Nat
              /\ ns[j].depth < n /\ ns[j].depth <= FramesBelow(ns)
    <3>1. DOMAIN natives = 1..Len(natives)
      BY TypeFacts DEF IInv
    <3> QED
      BY <1>0, <3>1, RemainingFacts
  <2>2. \A j \in 1..Len(ns) :
           /\ ns[j].depth < h /\ ns[j].depth + 1 \in 1..h
           /\ ns[j].depth # 0 => ns[j].depth \in 1..h
    <3> TAKE j \in 1..Len(ns)
    <3>1. ns[j].depth \in Nat /\ ns[j].depth < n /\ ns[j].depth <= FramesBelow(ns)
      BY <2>1
    <3>2. ns[j].depth < h
      <4>1. CASE ns = <<>>
        BY <4>1
      <4>2. CASE ns # <<>>
        <5>1. FramesBelow(ns) = ns[Len(ns)].depth /\ Len(ns) \in 1..Len(ns)
          BY <4>2, <2>1 DEF FramesBelow, Last
        <5> QED
          BY <1>1, <1>5, <2>1, <3>1, <5>1
      <4> QED
        BY <4>1, <4>2
    <3> QED
      BY <1>1, <3>1, <3>2
  <2> QED
    BY <2>1, <2>2
<1>8. TypeOK'
  <2>1. ns \in Seq(Native) /\ Base(h) \in Nat
    BY <1>7, RemainingFacts, TypeFacts DEF IInv
  <2> QED
    BY <1>3, <1>5, <1>6, <1>7, <2>1 DEF IInv, TypeOK
<1>9. CodeMatchesFrames'
  <2>1. \A i \in 1..n : /\ frames[i].ret \in FunctionPos => i > 1 /\ frames[i].ret.fx = frames[i - 1].context
                        /\ frames[i].ret = InitPos => i = 1 /\ phase = "setup"
    BY <1>0, TypeFacts DEF IInv, CodeMatchesFrames
  <2>2. \A i \in 1..h :
           /\ frames'[i].ret \in FunctionPos => i > 1 /\ frames'[i].ret.fx = frames'[i - 1].context
           /\ frames'[i].ret = InitPos => i = 1 /\ phase' = "setup"
    <3> TAKE i \in 1..h
    <3>1. i > 1 => i - 1 \in 1..h
      BY <1>1
    <3> QED
      BY <1>4, <1>5, <2>1, <3>1
  <2>3. pc'.fx = frames'[h].context
    BY <1>1, <1>4, <1>6
  <2> QED
    BY <1>3, <1>5, <1>6, <2>2, <2>3 DEF CodeMatchesFrames, Live
<1>10. NativesMatchFrames'
  <2> DEFINE k == Len(ns)
  <2>1. /\ DOMAIN ns = 1..k
        /\ \A j \in 1..k : /\ ns[j] = natives[j] /\ j \in DOMAIN natives
                           /\ ns[j].depth \in 0..(h - 1) /\ ns[j].depth < n
    BY <1>1, <1>14
  <2>2. \A j \in 1..k :
            /\ frames[ns[j].depth + 1].ret = ExitPos
            /\ IF ns[j].depth = 0
               THEN ns[j].prev = InitPos /\ phase = "setup"
               ELSE ns[j].prev \in FunctionPos
                        /\ ns[j].prev.fx = frames[ns[j].depth].context
    BY <1>0, <2>1 DEF IInv, NativesMatchFrames
  <2>3. \A j \in 1..k :
            /\ ns[j].depth <= h
            /\ frames'[ns[j].depth + 1].ret = ExitPos
            /\ ns[j].depth # 0 => ns[j].prev.fx = frames'[ns[j].depth].context
    <3> TAKE j \in 1..k
    <3>1. /\ ns[j].depth + 1 \in 1..h /\ (ns[j].depth # 0 => ns[j].depth \in 1..h)
          /\ ns[j].depth \in Nat /\ ns[j].depth <= h
      BY <1>1, <1>14
    <3> QED
      BY <1>4, <2>2, <3>1
  <2>4. \A i \in 1..h : frames'[i].ret = ExitPos =>
               \/ i = 1 /\ phase' = "call"
               \/ \E j \in 1..k : ns[j].depth = i - 1
    <3> SUFFICES ASSUME NEW i \in 1..h, frames'[i].ret = ExitPos, ~(i = 1 /\ phase' = "call")
                 PROVE  \E j \in 1..k : ns[j].depth = i - 1
      OBVIOUS
    <3>1. PICK j \in 1..Len(natives) : natives[j].depth = i - 1
      BY <1>0, <1>4, <1>5, TypeFacts DEF IInv, NativesMatchFrames
    <3>2. i - 1 # n
      BY <1>1
    <3> QED
      BY <1>0, <2>1, <3>1, <3>2, RemainingFacts
  <2>5. \A i, j \in 1..k : i < j => ns[i].depth < ns[j].depth
    BY <2>1 DEF IInv, NativesMatchFrames
  <2>6. \A j \in 1..k : ns[j].depth < h
    BY <1>1, <2>1
  <2> HIDE DEF k
  <2>7. (\A j \in DOMAIN natives :
           /\ natives[j].depth <= Len(frames)
           /\ natives[j].depth < Len(frames) => frames[natives[j].depth + 1].ret = ExitPos
           /\ IF natives[j].depth = 0
              THEN natives[j].prev = InitPos /\ phase = "setup"
              ELSE natives[j].prev \in FunctionPos
                       /\ natives[j].prev.fx = frames[natives[j].depth].context)'
    BY <1>3, <1>5, <2>1, <2>2, <2>3
  <2>8. ~inNative' /\ ~AtExit' /\ Live'
    BY <1>5, <1>6 DEF Live, AtExit
  <2> QED
    BY <1>3, <1>5, <2>1, <2>4, <2>5, <2>6, <2>7, <2>8 DEF NativesMatchFrames
<1>11. WindowsFit'
  <2>1. \A i \in 0..h : Base(i)' = Base(i) /\ i \in 0..n
    <3> TAKE i \in 0..h
    <3>1. CASE i = h
      BY <1>1, <1>3, <1>5, <3>1 DEF Base
    <3>2. CASE i < h
      <4>1. i + 1 \in 1..h /\ i # h /\ i # n /\ i \in 0..n
        BY <1>1, <3>2
      <4> QED
        BY <1>0, <1>3, <1>4, <4>1 DEF Base
    <3> QED
      BY <1>1, <3>1, <3>2
  <2>2. Owned' = Len(values')
    BY <1>6, <1>7 DEF Owned, AtExit
  <2>3. (\A i, j \in 0..Len(frames) : i <= j => Base(i) <= Base(j))'
    BY <1>0, <1>3, <2>1 DEF IInv, WindowsFit
  <2>4. (Base(0) = 0)'
    BY <1>1, <2>1 DEF IInv, WindowsFit
  <2>5. Base(h) \in Nat /\ framePointer' = Base(h)
    BY <1>5, <1>7, TypeFacts DEF IInv
  <2>6. (framePointer <= Owned)'
    BY <1>6, <1>7, <2>2, <2>5
  <2>7. (\A i \in DOMAIN frames :
              frames[i].ret # ExitPos => frames[i].prev + Slots(frames[i].ret) <= Base(i))'
    <3>1. \A i \in 1..n : frames[i].ret # ExitPos => frames[i].prev + Slots(frames[i].ret) <= Base(i)
      BY <1>0, TypeFacts DEF IInv, WindowsFit
    <3>2. \A i \in 1..h : Base(i)' = Base(i)
      BY <1>1, <2>1
    <3> QED
      BY <1>3, <1>4, <1>5, <3>1, <3>2 DEF Slots
  <2>8. (\A j \in DOMAIN natives :
              Base(natives[j].depth) + Slots(natives[j].prev)
                  <= IF natives[j].depth < Len(frames) THEN Base(natives[j].depth + 1) ELSE Owned)'
    <3> SUFFICES ASSUME NEW j \in 1..Len(ns), NEW d \in Nat, d = ns[j].depth
                 PROVE  Base(d)' + (IF ns[j].prev = InitPos THEN settled' ELSE CodeSlots(ns[j].prev))
                           <= IF d < h THEN Base(d + 1)' ELSE Owned'
      BY <1>3, <1>5, RemainingFacts DEF Slots
    <3>1. j \in DOMAIN natives /\ ns[j] = natives[j] /\ d < n /\ d < h
      BY <1>14
    <3>2. Base(d) + Slots(natives[j].prev) <= Base(d + 1)
      BY <1>0, <3>1 DEF IInv, WindowsFit
    <3>3. Base(d)' = Base(d) /\ Base(d + 1)' = Base(d + 1)
      BY <1>1, <2>1, <3>1
    <3> QED
      BY <1>5, <3>1, <3>2, <3>3 DEF Slots
  <2>9. (Live => framePointer + Slots(pc) <= Owned)'
    BY <1>6, <1>7, <2>2, <2>5 DEF Slots
  <2> QED
    BY <2>3, <2>4, <2>6, <2>7, <2>8, <2>9 DEF WindowsFit
<1>12. GlobalsBelowWindows'
  <2>1. Base(1)' = Base(1)
    <3>1. CASE h = 1
      BY <1>3, <1>5, <3>1 DEF Base
    <3>2. CASE h > 1
      <4>1. 2 \in 1..h /\ 1 # h /\ 1 # n
        BY <1>1, <3>2
      <4> QED
        BY <1>0, <1>3, <1>4, <4>1 DEF Base
    <3> QED
      BY <1>1, <3>1, <3>2
  <2> QED
    BY <1>1, <1>3, <1>5, <2>1 DEF IInv, GlobalsBelowWindows
<1>13. HostFindsStackClean' /\ CoroutinesFit'
  BY <1>5 DEF HostFindsStackClean, CoroutinesFit, IInv, Live
<1> QED
  BY <1>8, <1>9, <1>10, <1>11, <1>12, <1>13 DEF IInv

\* thr0w finds no handler: the host is told, the globals are what is left.
LEMMA UnhandledStep ==
    ASSUME IInv, Running \/ InNative, Unhandled
    PROVE  IInv'
<1>1. /\ Live /\ phase' = (IF phase = "call" THEN "idle" ELSE "dead") /\ pc' = InitPos
      /\ frames' = <<>> /\ natives' = <<>> /\ inNative' = FALSE /\ settled' = settled /\ objects' = objects
      /\ framePointer' = (IF frames = <<>> THEN framePointer ELSE frames[1].prev)
      /\ values' = (IF frames = <<>> THEN values ELSE SubSeq(values, 1, Base(1)))
  BY DEF Running, InNative, Live, Unhandled, UnwindAll
<1>2. framePointer' = 0
  <2>1. Base(0) = 0 /\ (frames = <<>> => Base(0) = framePointer)
    BY DEF IInv, WindowsFit, Base
  <2>2. frames # <<>> => 1 \in 1..Len(frames) /\ frames[1].prev = Base(0)
    BY BaseFacts, TypeFacts DEF IInv
  <2> QED
    BY <1>1, <2>1, <2>2
<1>3. /\ values' \in Seq(Value)
      /\ frames # <<>> => Base(1) \in Nat /\ Len(values') = Base(1)
  <2>1. frames # <<>> => Base(1) \in 0..Len(values)
    <3>1. frames # <<>> => 1 \in 0..Len(frames)
      BY TypeFacts DEF IInv
    <3> QED
      BY <3>1, BaseFacts DEF IInv
  <2>2. values \in Seq(Value)
    BY DEF IInv, TypeOK
  <2>3. CASE frames = <<>>
    BY <1>1, <2>2, <2>3
  <2>4. CASE frames # <<>>
    BY <1>1, <2>1, <2>2, <2>4, CutType
  <2> QED
    BY <2>3, <2>4
<1>4. phase = "call" => frames # <<>> /\ Base(1) = settled /\ NGlobals <= settled
  <2>1. ~AtExit
    BY TypeFacts DEF IInv, NativesMatchFrames, Running, InNative, AtExit
  <2> QED
    BY <2>1 DEF IInv, GlobalsBelowWindows
<1>5. /\ Len(<<>>) = 0 /\ DOMAIN <<>> = {} /\ ~Live' /\ ~AtExit' /\ InitPos \in Position
      /\ <<>> \in Seq(Frame) /\ <<>> \in Seq(Native)
  BY <1>1, PositionFacts DEF Live, AtExit
<1>6. TypeOK'
  <2>1. frames' \in Seq(Frame) /\ natives' \in Seq(Native) /\ framePointer' \in Nat /\ pc' \in Position
    BY <1>1, <1>2, <1>5
  <2>2. phase' \in {"setup", "idle", "call", "dead"} /\ inNative' \in BOOLEAN
    BY <1>1
  <2> QED
    BY <1>1, <1>3, <2>1, <2>2 DEF IInv, TypeOK
<1>7. CodeMatchesFrames' /\ NativesMatchFrames'
  BY <1>1, <1>5 DEF CodeMatchesFrames, NativesMatchFrames
<1>8. WindowsFit'
  <2>1. Owned' = Len(values') /\ Len(values') \in Nat /\ Base(0)' = 0
    BY <1>1, <1>2, <1>3, <1>5 DEF Owned, Base
  <2>2. Len(frames') = 0 /\ DOMAIN frames' = {} /\ DOMAIN natives' = {}
    BY <1>1, <1>5
  <2>3. \A i, j \in 0..0 : i <= j => Base(i)' <= Base(j)'
    BY <2>1
  <2> QED
    BY <1>2, <1>5, <2>1, <2>2, <2>3 DEF WindowsFit
<1>9. GlobalsBelowWindows'
  BY <1>1, <1>4 DEF GlobalsBelowWindows
<1>10. HostFindsStackClean' /\ CoroutinesFit'
  BY <1>1, <1>2, <1>3, <1>4 DEF HostFindsStackClean, CoroutinesFit, IInv
<1> QED
  BY <1>6, <1>7, <1>8, <1>9, <1>10 DEF IInv

-----------------------------------------------------------------------------
(* The steps that do neither *)

LEMMA InitGlobalStep ==
    ASSUME IInv, InitGlobal
    PROVE  IInv'
<1>1. /\ phase = "setup" /\ Live /\ ~inNative /\ pc # ExitPos /\ frames = <<>>
      /\ settled \in Nat /\ settled + 1 \in Nat /\ settled' = settled + 1 /\ Len(values) = settled + 1
      /\ UNCHANGED <<values, frames, framePointer, pc, phase, natives, inNative, objects>>
  BY TypeFacts, SlotsFacts DEF InitGlobal, Running, Live, stackVars, IInv, TypeOK
<1>2. natives = <<>> /\ Len(frames) = 0 /\ DOMAIN frames = {} /\ DOMAIN natives = {}
  BY <1>1, TypeFacts DEF IInv, NativesMatchFrames, AtExit
<1>3. pc = InitPos
  BY <1>1, TypeFacts DEF IInv, CodeMatchesFrames, Position
<1>4. framePointer = 0 /\ ~AtExit /\ Owned = settled + 1
  BY <1>1, <1>2 DEF IInv, WindowsFit, Base, AtExit, Owned
<1>5. TypeOK'
  BY <1>1 DEF IInv, TypeOK
<1>6. CodeMatchesFrames' /\ NativesMatchFrames'
  BY <1>1 DEF IInv, CodeMatchesFrames, NativesMatchFrames, Live, AtExit
<1>7. WindowsFit'
  BY <1>1, <1>2, <1>3, <1>4, TypeFacts DEF IInv, WindowsFit, Base, Owned, AtExit, Live, Slots
<1>8. GlobalsBelowWindows' /\ HostFindsStackClean' /\ CoroutinesFit'
  BY <1>1 DEF IInv, GlobalsBelowWindows, HostFindsStackClean, CoroutinesFit
<1> QED
  BY <1>5, <1>6, <1>7, <1>8 DEF IInv

LEMMA FinishSetupStep ==
    ASSUME IInv, FinishSetup
    PROVE  IInv'
<1>1. /\ phase = "setup" /\ Live /\ ~inNative /\ pc # ExitPos /\ frames = <<>>
      /\ settled = NGlobals /\ Len(values) = NGlobals /\ phase' = "idle"
      /\ UNCHANGED <<values, frames, framePointer, pc, natives, inNative, settled, objects>>
  BY DEF FinishSetup, Running, Live, stackVars
<1>2. natives = <<>> /\ Len(frames) = 0 /\ DOMAIN frames = {} /\ DOMAIN natives = {}
  BY <1>1, TypeFacts DEF IInv, NativesMatchFrames, AtExit
<1>3. pc = InitPos /\ pc \notin FunctionPos
  BY <1>1, TypeFacts, PositionFacts DEF IInv, CodeMatchesFrames, Position
<1>4. framePointer = 0 /\ ~AtExit /\ Owned = Len(values)
  BY <1>1, <1>2 DEF IInv, WindowsFit, Base, AtExit, Owned
<1>5. TypeOK'
  BY <1>1 DEF IInv, TypeOK
<1>6. CodeMatchesFrames' /\ NativesMatchFrames'
  BY <1>1, <1>2, <1>3 DEF IInv, CodeMatchesFrames, NativesMatchFrames, Live, AtExit
<1>7. WindowsFit'
  BY <1>1, <1>2, <1>4, TypeFacts DEF IInv, WindowsFit, Base, Owned, AtExit, Live, Slots
<1>8. GlobalsBelowWindows' /\ HostFindsStackClean' /\ CoroutinesFit'
  BY <1>1, <1>2, <1>4 DEF IInv, GlobalsBelowWindows, HostFindsStackClean, CoroutinesFit
<1> QED
  BY <1>5, <1>6, <1>7, <1>8 DEF IInv

LEMMA TryStep ==
    ASSUME IInv, Try
    PROVE  IInv'
<1>0. PICK n \in Nat : n = Len(frames)
  BY TypeFacts DEF IInv
<1>1. /\ pc \in FunctionPos /\ pc.fx \in Functions /\ pc' = BodyPos(pc.fx) /\ pc' \in FunctionPos
      /\ pc'.fx = pc.fx /\ pc' \in Position /\ pc # ExitPos /\ pc' # ExitPos /\ pc' # InitPos /\ pc # InitPos
      /\ Live /\ ~inNative /\ phase # "idle"
      /\ UNCHANGED <<values, framePointer, phase, natives, inNative, settled, objects>>
      /\ frames' = [frames EXCEPT ![Len(frames)].armed = TRUE]
  BY TypeFacts, PositionFacts DEF IInv, Try, Running, Live, Position
<1>2. CodeSlots(pc') = CodeSlots(pc)
  <2>1. pc = EntryPos(pc.fx)
    BY <1>1 DEF Try, EntryPos, FunctionPos
  <2> QED
    BY <1>1, <2>1, SlotsFacts
<1>3. /\ n \in 1..n /\ frames # <<>>
      /\ frames' \in Seq(Frame) /\ Len(frames') = n /\ DOMAIN frames' = 1..n /\ frames' # <<>>
      /\ \A i \in 1..n : /\ frames'[i].ret = frames[i].ret /\ frames'[i].prev = frames[i].prev
                         /\ frames'[i].context = frames[i].context
  <2>1. n \in 1..n /\ frames \in Seq(Frame) /\ frames # <<>>
    BY <1>0, <1>1, TypeFacts DEF IInv, CodeMatchesFrames, TypeOK
  <2> DEFINE new == [frames[n] EXCEPT !.armed = TRUE]
  <2>2. /\ new \in Frame /\ new.ret = frames[n].ret /\ new.prev = frames[n].prev
        /\ new.context = frames[n].context
    <3>1. frames[n] \in Frame
      BY <1>0, <2>1
    <3> QED
      BY <3>1 DEF Frame
  <2>3. frames' = [frames EXCEPT ![n] = new]
    BY <1>0, <1>1
  <2> HIDE DEF new
  <2>4. frames' \in Seq(Frame) /\ Len(frames') = n /\ DOMAIN frames' = 1..n /\ frames' # <<>>
    BY <1>0, <2>1, <2>2, <2>3
  <2>5. \A i \in 1..n : frames'[i] = IF i = n THEN new ELSE frames[i]
    BY <1>0, <2>1, <2>3
  <2> QED
    BY <2>1, <2>2, <2>4, <2>5
<1>4. TypeOK'
  BY <1>1, <1>3 DEF IInv, TypeOK
<1>5. CodeMatchesFrames'
  <2>1. \A i \in 1..n : /\ frames[i].ret \in FunctionPos => i > 1 /\ frames[i].ret.fx = frames[i - 1].context
                        /\ frames[i].ret = InitPos => i = 1 /\ phase = "setup"
    BY <1>0, TypeFacts DEF IInv, CodeMatchesFrames
  <2>2. \A i \in 1..n : i > 1 => i - 1 \in 1..n
    OBVIOUS
  <2>3. pc'.fx = frames'[n].context
    BY <1>0, <1>1, <1>3 DEF IInv, CodeMatchesFrames
  <2> QED
    BY <1>1, <1>3, <2>1, <2>2, <2>3 DEF CodeMatchesFrames, Live
<1>6. NativesMatchFrames'
  <2>1. \A j \in DOMAIN natives : /\ natives[j].depth \in Nat /\ natives[j].depth < n
                                  /\ natives[j].depth # 0 => natives[j].depth \in 1..n
                                  /\ natives[j].depth + 1 \in 1..n
    BY <1>0, <1>1, TypeFacts DEF IInv, NativesMatchFrames, AtExit
  <2>2. (\A j \in DOMAIN natives :
           /\ natives[j].depth <= Len(frames)
           /\ natives[j].depth < Len(frames) => frames[natives[j].depth + 1].ret = ExitPos
           /\ IF natives[j].depth = 0
              THEN natives[j].prev = InitPos /\ phase = "setup"
              ELSE natives[j].prev \in FunctionPos
                       /\ natives[j].prev.fx = frames[natives[j].depth].context)'
    BY <1>0, <1>1, <1>3, <2>1 DEF IInv, NativesMatchFrames
  <2>3. \A i \in 1..n : frames[i].ret = ExitPos =>
               \/ i = 1 /\ phase = "call"
               \/ \E j \in DOMAIN natives : natives[j].depth = i - 1
    BY <1>0, TypeFacts DEF IInv, NativesMatchFrames
  <2>4. ~AtExit' /\ ~inNative' /\ Live'
    BY <1>1 DEF AtExit, Live
  <2>5. \A j, k \in DOMAIN natives : j < k => natives[j].depth < natives[k].depth
    BY DEF IInv, NativesMatchFrames
  <2> QED
    BY <1>1, <1>3, <2>1, <2>2, <2>3, <2>4, <2>5 DEF NativesMatchFrames
<1>7. WindowsFit'
  <2>1. \A i \in 0..n : Base(i)' = Base(i)
    BY <1>0, <1>1, <1>3 DEF Base
  <2>2. Owned' = Owned
    BY <1>1 DEF Owned, AtExit
  <2>3. (\A i \in DOMAIN frames :
              frames[i].ret # ExitPos => frames[i].prev + Slots(frames[i].ret) <= Base(i))'
    <3>1. \A i \in 1..n : frames[i].ret # ExitPos => frames[i].prev + Slots(frames[i].ret) <= Base(i)
      BY <1>0, TypeFacts DEF IInv, WindowsFit
    <3>2. \A i \in 1..n : Base(i)' = Base(i)
      BY <2>1
    <3> QED
      BY <1>1, <1>3, <3>1, <3>2 DEF Slots
  <2>4. (\A j \in DOMAIN natives :
              Base(natives[j].depth) + Slots(natives[j].prev)
                  <= IF natives[j].depth < Len(frames) THEN Base(natives[j].depth + 1) ELSE Owned)'
    <3> SUFFICES ASSUME NEW j \in DOMAIN natives, NEW d \in Nat, d = natives[j].depth
                 PROVE  Base(d)' + Slots(natives[j].prev)'
                           <= IF d < n THEN Base(d + 1)' ELSE Owned'
      BY <1>1, <1>3, TypeFacts DEF IInv
    <3>1. d < n /\ Base(d) + Slots(natives[j].prev) <= Base(d + 1)
      BY <1>0, <1>1, TypeFacts DEF IInv, NativesMatchFrames, WindowsFit, AtExit
    <3> QED
      BY <1>1, <2>1, <3>1 DEF Slots
  <2>5. (Live => framePointer + Slots(pc) <= Owned)'
    BY <1>1, <1>2, <2>2 DEF IInv, WindowsFit, Slots
  <2>6. (\A i, j \in 0..Len(frames) : i <= j => Base(i) <= Base(j))'
    BY <1>0, <1>3, <2>1 DEF IInv, WindowsFit
  <2>7. (Base(0) = 0 /\ framePointer <= Owned)'
    BY <1>1, <2>1, <2>2 DEF IInv, WindowsFit
  <2> QED
    BY <2>3, <2>4, <2>5, <2>6, <2>7 DEF WindowsFit
<1>8. GlobalsBelowWindows'
  <2>1. Base(1)' = Base(1)
    <3>1. n # 1 => 2 \in 1..n
      BY <1>3
    <3> QED
      BY <1>0, <1>1, <1>3, <3>1 DEF Base
  <2> QED
    BY <1>1, <1>3, <2>1 DEF IInv, GlobalsBelowWindows
<1>9. HostFindsStackClean' /\ CoroutinesFit'
  BY <1>1 DEF HostFindsStackClean, CoroutinesFit, IInv
<1> QED
  BY <1>4, <1>5, <1>6, <1>7, <1>8, <1>9 DEF IInv

\* A native starts: it is the newest, no frame has been entered from it.
LEMMA StartNativeStep ==
    ASSUME IInv, StartNative
    PROVE  IInv'
<1>0. PICK n \in Nat : n = Len(frames)
  BY TypeFacts DEF IInv
<1> DEFINE new == [prev |-> pc, depth |-> n]
           m == Len(natives)
<1>1. /\ Live /\ ~inNative /\ pc # ExitPos /\ pc \in Position /\ inNative' = TRUE /\ phase # "idle"
      /\ natives' = Append(natives, new)
      /\ UNCHANGED <<frames, framePointer, pc, phase, settled, objects>>
  BY <1>0, TypeFacts DEF IInv, StartNative, InCode, Running, Live
<1>2. values' \in Seq(Value) /\ framePointer + Slots(pc) <= Len(values') /\ Len(values') \in Nat
  <2>1. PICK k \in Nat : HasTemporaries(k) /\ values' = Below(k)
    BY ConstantsAssumption DEF StartNative
  <2>2. framePointer + Slots(pc) + k <= Len(values) /\ framePointer \in Nat /\ Slots(pc) \in Nat
    BY <2>1, TypeFacts, SlotsType DEF IInv, HasTemporaries
  <2>3. Len(values) - k \in 0..Len(values)
    BY <2>1, <2>2, TypeFacts DEF IInv
  <2>4. values' \in Seq(Value) /\ Len(values') = Len(values) - k
    BY <2>1, <2>3, CutType DEF IInv, TypeOK, Below
  <2> QED
    BY <2>1, <2>2, <2>3, <2>4, TypeFacts DEF IInv
<1>3. /\ m \in Nat /\ natives' \in Seq(Native) /\ Len(natives') = m + 1 /\ DOMAIN natives' = 1..(m + 1)
      /\ natives'[m + 1] = new /\ natives' # <<>> /\ DOMAIN natives = 1..m
      /\ \A j \in 1..m : natives'[j] = natives[j]
  <2>1. natives \in Seq(Native) /\ new \in Native
    BY <1>1 DEF IInv, TypeOK, Native
  <2> HIDE DEF new
  <2> QED
    BY <1>1, <2>1
<1>4. new.prev = pc /\ new.depth = n /\ \A j \in 1..m : natives[j].depth \in Nat /\ natives[j].depth < n
  BY <1>0, <1>1, <1>3, TypeFacts DEF IInv, NativesMatchFrames, AtExit
<1> HIDE DEF new, m
<1>5. TypeOK'
  BY <1>1, <1>2, <1>3 DEF IInv, TypeOK
<1>6. CodeMatchesFrames'
  BY <1>1 DEF IInv, CodeMatchesFrames, Live
<1>7. NativesMatchFrames'
  <2>1. \A j \in 1..m :
           /\ natives[j].depth <= n
           /\ natives[j].depth < n => frames[natives[j].depth + 1].ret = ExitPos
           /\ IF natives[j].depth = 0
              THEN natives[j].prev = InitPos /\ phase = "setup"
              ELSE natives[j].prev \in FunctionPos
                       /\ natives[j].prev.fx = frames[natives[j].depth].context
    BY <1>0, <1>3 DEF IInv, NativesMatchFrames
  <2>2. IF n = 0 THEN pc = InitPos /\ phase = "setup"
                 ELSE pc \in FunctionPos /\ pc.fx = frames[n].context
    BY <1>0, <1>1, TypeFacts DEF IInv, CodeMatchesFrames, Position
  <2>3. \A j \in 1..(m + 1) : j \in 1..m \/ j = m + 1
    BY <1>3
  <2>4. (\A j \in DOMAIN natives :
           /\ natives[j].depth <= Len(frames)
           /\ natives[j].depth < Len(frames) => frames[natives[j].depth + 1].ret = ExitPos
           /\ IF natives[j].depth = 0
              THEN natives[j].prev = InitPos /\ phase = "setup"
              ELSE natives[j].prev \in FunctionPos
                       /\ natives[j].prev.fx = frames[natives[j].depth].context)'
    BY <1>0, <1>1, <1>3, <1>4, <2>1, <2>2, <2>3
  <2>5. \A j, k \in 1..m : j < k => natives[j].depth < natives[k].depth
    BY <1>3 DEF IInv, NativesMatchFrames
  <2>6. (\A j, k \in DOMAIN natives : j < k => natives[j].depth < natives[k].depth)'
    <3> SUFFICES ASSUME NEW j \in 1..(m + 1), NEW k \in 1..(m + 1), j < k
                 PROVE  natives'[j].depth < natives'[k].depth
      BY <1>3
    <3>1. j \in 1..m
      BY <1>3
    <3> QED
      BY <1>3, <1>4, <2>3, <2>5, <3>1
  <2>7. (\A i \in DOMAIN frames :
           frames[i].ret = ExitPos =>
               \/ i = 1 /\ phase = "call"
               \/ \E j \in DOMAIN natives : natives[j].depth = i - 1)'
    <3> SUFFICES ASSUME NEW i \in DOMAIN frames, frames[i].ret = ExitPos, ~(i = 1 /\ phase = "call")
                 PROVE  \E j \in 1..(m + 1) : natives'[j].depth = i - 1
      BY <1>1, <1>3
    <3>1. PICK j \in 1..m : natives[j].depth = i - 1
      BY <1>3 DEF IInv, NativesMatchFrames
    <3> QED
      BY <1>3, <3>1
  <2>8. (/\ inNative => natives # <<>> /\ pc = natives[Len(natives)].prev
         /\ IF natives = <<>>
            THEN frames = <<>> /\ phase = "call"
            ELSE natives[Len(natives)].depth = Len(frames))'
    BY <1>0, <1>1, <1>3, <1>4
  <2>9. inNative' /\ Live'
    BY <1>1 DEF Live
  <2> QED
    BY <2>4, <2>6, <2>7, <2>8, <2>9 DEF NativesMatchFrames
<1>8. WindowsFit'
  <2>1. \A i \in 0..n : Base(i)' = Base(i)
    BY <1>0, <1>1 DEF Base
  <2>2. Owned' = Len(values') /\ framePointer' <= Owned'
    BY <1>1, <1>2, TypeFacts, SlotsType DEF Owned, AtExit, IInv
  <2>3. (\A j \in DOMAIN natives :
              Base(natives[j].depth) + Slots(natives[j].prev)
                  <= IF natives[j].depth < Len(frames) THEN Base(natives[j].depth + 1) ELSE Owned)'
    <3> SUFFICES ASSUME NEW j \in 1..(m + 1), NEW d \in Nat, d = natives'[j].depth
                 PROVE  Base(d)' + (IF natives'[j].prev = InitPos THEN settled' ELSE CodeSlots(natives'[j].prev))
                           <= IF d < n THEN Base(d + 1)' ELSE Owned'
      <4>1. \A j \in 1..(m + 1) : natives'[j].depth \in Nat
        BY <1>3, <1>4
      <4> QED
        BY <1>0, <1>1, <1>3, <4>1 DEF Slots
    <3>1. CASE j \in 1..m
      <4>1. d < n /\ natives'[j] = natives[j] /\ Base(d) + Slots(natives[j].prev) <= Base(d + 1)
        BY <1>0, <1>3, <1>4, <3>1 DEF IInv, WindowsFit
      <4> QED
        BY <1>1, <2>1, <4>1 DEF Slots
    <3>2. CASE j = m + 1
      BY <1>0, <1>1, <1>2, <1>3, <1>4, <2>1, <2>2, <3>2, BaseFacts DEF IInv, Slots
    <3> QED
      BY <1>3, <3>1, <3>2
  <2>4. (Live => framePointer + Slots(pc) <= Owned)'
    BY <1>1, <1>2, <2>2 DEF Slots
  <2>5. (\A i \in DOMAIN frames :
              frames[i].ret # ExitPos => frames[i].prev + Slots(frames[i].ret) <= Base(i))'
    BY <1>0, <1>1, <2>1, TypeFacts DEF IInv, WindowsFit, Slots
  <2>6. (\A i, j \in 0..Len(frames) : i <= j => Base(i) <= Base(j))' /\ (Base(0) = 0)'
    BY <1>0, <1>1, <2>1 DEF IInv, WindowsFit
  <2> QED
    BY <2>2, <2>3, <2>4, <2>5, <2>6 DEF WindowsFit
<1>9. GlobalsBelowWindows' /\ HostFindsStackClean' /\ CoroutinesFit'
  BY <1>1 DEF IInv, GlobalsBelowWindows, HostFindsStackClean, CoroutinesFit, Base, AtExit
<1> QED
  BY <1>5, <1>6, <1>7, <1>8, <1>9 DEF IInv

\* The C++ code of a native ends: the run loop around it goes on.
LEMMA EndNativeStep ==
    ASSUME IInv, EndNative
    PROVE  IInv'
<1>0. PICK n \in Nat : n = Len(frames)
  BY TypeFacts DEF IInv
<1>1. PICK result \in Plain : EndNative!(result)
  BY DEF EndNative
<1>2. PICK m \in Nat : m = Len(natives)
  BY TypeFacts DEF IInv
<1>3. /\ Live /\ inNative /\ inNative' = FALSE /\ values' = Append(values, result) /\ natives' = Front(natives)
      /\ UNCHANGED <<frames, framePointer, pc, phase, settled, objects>>
      /\ natives # <<>> /\ pc = natives[m].prev /\ natives[m].depth = n /\ pc # ExitPos
      /\ m \in 1..m
  BY <1>0, <1>1, <1>2, TypeFacts DEF IInv, NativesMatchFrames, InNative, Live
<1>4. /\ natives' \in Seq(Native) /\ Len(natives') = m - 1 /\ DOMAIN natives' = 1..(m - 1)
      /\ \A j \in 1..(m - 1) : natives'[j] = natives[j]
  <2>1. natives' = SubSeq(natives, 1, m - 1) /\ m - 1 \in 0..m
    BY <1>2, <1>3 DEF Front
  <2> QED
    BY <1>2, <2>1, CutType DEF IInv, TypeOK
<1>5. /\ \A j \in 1..(m - 1) : natives[j].depth \in Nat /\ natives[j].depth < n /\ j \in 1..m
      /\ DOMAIN natives = 1..m
      /\ \A j \in 1..m : j \in 1..(m - 1) \/ j = m
  <2>1. DOMAIN natives = 1..m /\ \A j \in 1..m : natives[j].depth \in Nat
    BY <1>2, TypeFacts DEF IInv
  <2>2. \A j \in 1..(m - 1) : j \in 1..m /\ j < m
    BY <1>3
  <2>3. \A j \in 1..(m - 1) : natives[j].depth < natives[m].depth
    BY <1>3, <2>1, <2>2 DEF IInv, NativesMatchFrames
  <2>4. \A j \in 1..m : j \in 1..(m - 1) \/ j = m
    BY <1>3
  <2> QED
    BY <1>3, <2>1, <2>2, <2>3, <2>4
<1>6. values' \in Seq(Value) /\ Len(values') = Len(values) + 1
  <2>1. values \in Seq(Value) /\ result \in Value
    BY DEF IInv, TypeOK, Plain, Value
  <2> QED
    BY <1>3, <2>1
<1>7. TypeOK'
  BY <1>3, <1>4, <1>6 DEF IInv, TypeOK
<1>8. CodeMatchesFrames'
  BY <1>3 DEF IInv, CodeMatchesFrames, Live
<1>9. NativesMatchFrames'
  <2>1. (\A j \in DOMAIN natives :
           /\ natives[j].depth <= Len(frames)
           /\ natives[j].depth < Len(frames) => frames[natives[j].depth + 1].ret = ExitPos
           /\ IF natives[j].depth = 0
              THEN natives[j].prev = InitPos /\ phase = "setup"
              ELSE natives[j].prev \in FunctionPos
                       /\ natives[j].prev.fx = frames[natives[j].depth].context)'
    BY <1>0, <1>3, <1>4, <1>5 DEF IInv, NativesMatchFrames
  <2>2. (\A j, k \in DOMAIN natives : j < k => natives[j].depth < natives[k].depth)'
    BY <1>4, <1>5 DEF IInv, NativesMatchFrames
  <2>3. (\A i \in DOMAIN frames :
           frames[i].ret = ExitPos =>
               \/ i = 1 /\ phase = "call"
               \/ \E j \in DOMAIN natives : natives[j].depth = i - 1)'
    <3> SUFFICES ASSUME NEW i \in 1..n, frames[i].ret = ExitPos, ~(i = 1 /\ phase = "call")
                 PROVE  \E j \in 1..(m - 1) : natives'[j].depth = i - 1
      BY <1>0, <1>3, <1>4, TypeFacts DEF IInv
    <3>1. PICK j \in 1..m : natives[j].depth = i - 1
      BY <1>0, <1>5, TypeFacts DEF IInv, NativesMatchFrames
    <3>2. i - 1 # n
      OBVIOUS
    <3> QED
      BY <1>3, <1>4, <1>5, <3>1, <3>2
  <2>4. ~inNative' /\ ~AtExit' /\ Live'
    BY <1>3 DEF AtExit, Live
  <2>5. (\A j \in DOMAIN natives : natives[j].depth < Len(frames))'
    BY <1>0, <1>3, <1>4, <1>5
  <2> QED
    BY <2>1, <2>2, <2>3, <2>4, <2>5 DEF NativesMatchFrames
<1>10. WindowsFit'
  <2>1. \A i \in 0..n : Base(i)' = Base(i)
    BY <1>0, <1>3 DEF Base
  <2>2. Owned' = Len(values) + 1 /\ Owned = Len(values) /\ Owned \in Nat
    BY <1>3, <1>6, TypeFacts DEF Owned, AtExit, IInv
  <2>3. (\A j \in DOMAIN natives :
              Base(natives[j].depth) + Slots(natives[j].prev)
                  <= IF natives[j].depth < Len(frames) THEN Base(natives[j].depth + 1) ELSE Owned)'
    <3> SUFFICES ASSUME NEW j \in 1..(m - 1), NEW d \in Nat, d = natives[j].depth
                 PROVE  Base(d)' + (IF natives'[j].prev = InitPos THEN settled' ELSE CodeSlots(natives'[j].prev))
                           <= IF d < n THEN Base(d + 1)' ELSE Owned'
      BY <1>0, <1>3, <1>4, <1>5 DEF Slots
    <3>1. d < n /\ natives'[j] = natives[j] /\ Base(d) + Slots(natives[j].prev) <= Base(d + 1)
      BY <1>0, <1>4, <1>5 DEF IInv, WindowsFit
    <3> QED
      BY <1>3, <2>1, <3>1 DEF Slots
  <2>4. (Live => framePointer + Slots(pc) <= Owned)'
    <3>1. framePointer + Slots(pc) <= Len(values) /\ Slots(pc) \in Nat /\ framePointer \in Nat
      BY <1>3, <2>2, TypeFacts, SlotsType DEF IInv, WindowsFit
    <3>2. Slots(pc)' = Slots(pc)
      BY <1>3 DEF Slots
    <3> QED
      BY <1>3, <2>2, <3>1, <3>2, TypeFacts DEF IInv
  <2>5. (\A i \in DOMAIN frames :
              frames[i].ret # ExitPos => frames[i].prev + Slots(frames[i].ret) <= Base(i))'
    BY <1>0, <1>3, <2>1, TypeFacts DEF IInv, WindowsFit, Slots
  <2>6. (\A i, j \in 0..Len(frames) : i <= j => Base(i) <= Base(j))' /\ (Base(0) = 0)'
    BY <1>0, <1>3, <2>1 DEF IInv, WindowsFit
  <2>7. (framePointer <= Owned)'
    BY <1>3, <2>2, TypeFacts DEF IInv, WindowsFit
  <2> QED
    BY <2>3, <2>4, <2>5, <2>6, <2>7 DEF WindowsFit
<1>11. GlobalsBelowWindows' /\ HostFindsStackClean' /\ CoroutinesFit'
  BY <1>3 DEF IInv, GlobalsBelowWindows, HostFindsStackClean, CoroutinesFit, Base, AtExit, Live
<1> QED
  BY <1>7, <1>8, <1>9, <1>10, <1>11 DEF IInv

\* EXIT ends a run loop: a native or the host takes the value.
LEMMA ExitStep ==
    ASSUME IInv, Exit
    PROVE  IInv'
<1>0. PICK n \in Nat : n = Len(frames)
  BY TypeFacts DEF IInv
<1>1. PICK m \in Nat : m = Len(natives)
  BY TypeFacts DEF IInv
<1>2. /\ Live /\ ~inNative /\ AtExit /\ values # <<>> /\ values' = Below(1)
      /\ UNCHANGED <<frames, framePointer, natives, settled, objects>>
      /\ phase \in {"setup", "call"}
  BY DEF Exit, Live, AtExit
<1>3. /\ values' \in Seq(Value) /\ Len(values') = Len(values) - 1 /\ Owned = Len(values')
      /\ Len(values') \in Nat
  <2>1. Len(values) - 1 \in 0..Len(values) /\ values \in Seq(Value)
    BY <1>2 DEF IInv, TypeOK
  <2>2. values' = SubSeq(values, 1, Len(values) - 1)
    BY <1>2 DEF Below
  <2>3. values' \in Seq(Value) /\ Len(values') = Len(values) - 1
    BY <2>1, <2>2, CutType
  <2> QED
    BY <1>2, <2>1, <2>3 DEF Owned
<1>4. /\ DOMAIN natives = 1..m /\ DOMAIN frames = 1..n
      /\ \A j \in 1..m : natives[j].depth \in Nat
  BY <1>0, <1>1, TypeFacts DEF IInv
<1>5. CASE natives = <<>>
  <2>1. /\ frames = <<>> /\ phase = "call" /\ Len(values') = settled /\ NGlobals <= settled
        /\ phase' = "idle" /\ pc' = InitPos /\ inNative' = FALSE /\ ~Live' /\ ~AtExit' /\ n = 0 /\ m = 0
    BY <1>0, <1>1, <1>2, <1>3, <1>5, PositionFacts, TypeFacts, SlotsFacts
       DEF Exit, Live, AtExit, IInv, NativesMatchFrames, GlobalsBelowWindows
  <2>2. framePointer = 0
    BY <1>0, <2>1 DEF IInv, WindowsFit, Base
  <2>3. TypeOK'
    BY <1>2, <1>3, <2>1, PositionFacts DEF IInv, TypeOK
  <2>4. CodeMatchesFrames' /\ NativesMatchFrames'
    BY <1>0, <1>2, <1>4, <1>5, <2>1 DEF CodeMatchesFrames, NativesMatchFrames
  <2>5. WindowsFit'
    <3>1. Owned' = Len(values') /\ Base(0)' = 0 /\ framePointer' = 0
      BY <1>0, <1>2, <1>3, <2>1, <2>2 DEF Owned, Base
    <3>2. DOMAIN frames' = {} /\ DOMAIN natives' = {} /\ Len(frames') = 0
      BY <1>0, <1>2, <1>4, <2>1
    <3>3. \A i, j \in 0..0 : i <= j => Base(i)' <= Base(j)'
      BY <3>1
    <3> QED
      BY <1>3, <2>1, <3>1, <3>2, <3>3 DEF WindowsFit
  <2>6. GlobalsBelowWindows' /\ HostFindsStackClean' /\ CoroutinesFit'
    BY <1>2, <1>3, <1>5, <2>1, <2>2 DEF IInv, GlobalsBelowWindows, HostFindsStackClean, CoroutinesFit
  <2> QED
    BY <2>3, <2>4, <2>5, <2>6 DEF IInv
<1>6. CASE natives # <<>>
  <2>1. /\ m \in 1..m /\ pc' = natives[m].prev /\ inNative' = TRUE /\ phase' = phase /\ Live'
        /\ natives[m].depth = n /\ pc' \in Position /\ pc' # ExitPos /\ ~AtExit'
    BY <1>0, <1>1, <1>2, <1>6, TypeFacts DEF IInv, NativesMatchFrames, Exit, Live, Last, AtExit
  <2>2. IF n = 0 THEN pc' = InitPos /\ phase = "setup" /\ frames = <<>>
                 ELSE pc' \in FunctionPos /\ pc'.fx = frames[n].context /\ frames # <<>>
    BY <1>0, <1>4, <2>1, TypeFacts DEF IInv, NativesMatchFrames
  <2>3. TypeOK'
    BY <1>2, <1>3, <2>1 DEF IInv, TypeOK
  <2>4. CodeMatchesFrames'
    BY <1>0, <1>2, <2>1, <2>2, PositionFacts DEF IInv, CodeMatchesFrames, Live
  <2>5. NativesMatchFrames'
    BY <1>0, <1>1, <1>2, <1>4, <1>6, <2>1 DEF IInv, NativesMatchFrames
  <2>6. WindowsFit'
    <3>1. Owned' = Owned
      BY <1>3, <2>1 DEF Owned
    <3>2. (Live => framePointer + Slots(pc) <= Owned)'
      BY <1>0, <1>2, <1>4, <2>1, <3>1, BaseFacts DEF IInv, WindowsFit, Slots
    <3> QED
      BY <1>2, <3>1, <3>2 DEF IInv, WindowsFit, Base, Slots
  <2>7. GlobalsBelowWindows' /\ HostFindsStackClean' /\ CoroutinesFit'
    BY <1>0, <1>2, <2>1, <2>2, TypeFacts
       DEF IInv, GlobalsBelowWindows, HostFindsStackClean, CoroutinesFit, Base
  <2> QED
    BY <2>3, <2>4, <2>5, <2>6, <2>7 DEF IInv
<1> QED
  BY <1>5, <1>6

LEMMA InitSafe == Init => IInv
<1> SUFFICES ASSUME Init PROVE IInv
  OBVIOUS
<1>1. /\ values = <<>> /\ frames = <<>> /\ framePointer = 0 /\ pc = InitPos /\ phase = "setup"
      /\ natives = <<>> /\ inNative = FALSE /\ settled = 0 /\ objects = <<>>
      /\ Len(<<>>) = 0 /\ DOMAIN <<>> = {}
  BY DEF Init, InitStack
<1>2. ~AtExit /\ Live /\ Owned = 0 /\ Base(0) = 0 /\ Slots(pc) = 0
  BY <1>1, PositionFacts DEF AtExit, Live, Owned, Base, Slots
<1>3. TypeOK
  <2>1. <<>> \in Seq(Value) /\ <<>> \in Seq(Frame) /\ <<>> \in Seq(Native) /\ <<>> \in Seq(Object)
    OBVIOUS
  <2> QED
    BY <1>1, <2>1, PositionFacts DEF TypeOK
<1>4. CodeMatchesFrames /\ NativesMatchFrames
  BY <1>1, <1>2, PositionFacts DEF CodeMatchesFrames, NativesMatchFrames
<1>5. WindowsFit
  <2>1. \A i, j \in 0..0 : i <= j => Base(i) <= Base(j)
    BY <1>2
  <2> QED
    BY <1>1, <1>2, <2>1 DEF WindowsFit
<1>6. GlobalsBelowWindows /\ HostFindsStackClean /\ CoroutinesFit
  BY <1>1 DEF GlobalsBelowWindows, HostFindsStackClean, CoroutinesFit
<1> QED
  BY <1>3, <1>4, <1>5, <1>6 DEF IInv
=============================================================================
