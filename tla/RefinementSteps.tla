--------------------------- MODULE RefinementSteps ---------------------------
(***************************************************************************)
(* The machine implements Activations, for every program: each step shows  *)
(* as a step of the activations or leaves them as they are.  The inductive *)
(* invariant says which part of the vector, which frame and which return   *)
(* address make up an activation; what the proof adds is that a step at    *)
(* the top of the stack leaves all activations below as they are.  Here:   *)
(* how the state shows, the steps that work in one activation, and those   *)
(* that enter one.                                                         *)
(***************************************************************************)
EXTENDS MachineRefinement, MachineProofs

(* Programs without the shapes under which TLC refutes the refinement.     *)
NoShapes == Shapes = {}

-----------------------------------------------------------------------------
(* How the state shows *)

Act == [pos : Position, vals : Seq(Value), armed : BOOLEAN, by : {"host", "code", "native"}]

\* Where the values of an activation end.
End(i) == IF i = Len(frames) THEN Owned ELSE Base(i + 1)

\* An activation goes on in its own function.
GoesOnFacts ==
    \A i \in 1..Len(frames) :
        GoesOnAt(i) \in FunctionPos /\ GoesOnAt(i).fx = frames[i].context

LEMMA GoesOnInFunction == IInv => GoesOnFacts
<1> SUFFICES ASSUME IInv, NEW i \in 1..Len(frames)
             PROVE  GoesOnAt(i) \in FunctionPos /\ GoesOnAt(i).fx = frames[i].context
  BY DEF GoesOnFacts
<1>1. /\ Len(frames) \in Nat /\ frames # <<>> /\ Live
      /\ DOMAIN frames = 1..Len(frames) /\ DOMAIN natives = 1..Len(natives) /\ Len(natives) \in Nat
  BY TypeFacts DEF IInv, CodeMatchesFrames
<1>2. ASSUME NEW j \in DOMAIN natives, natives[j].depth = i
      PROVE  natives[j].prev \in FunctionPos /\ natives[j].prev.fx = frames[i].context
  BY <1>1, <1>2 DEF IInv, NativesMatchFrames
<1>3. PICK n \in Nat : n = Len(frames) /\ i \in 1..n
  BY <1>1
<1>4. CASE i = n /\ ~AtExit
  <2>1. pc \in FunctionPos /\ pc.fx = frames[i].context
    BY <1>1, <1>3, <1>4, TypeFacts, PositionFacts DEF IInv, CodeMatchesFrames, AtExit, Position
  <2> QED
    BY <1>3, <1>4, <2>1 DEF GoesOnAt
<1>5. CASE i = n /\ AtExit
  <2>1. natives # <<>> /\ natives[Len(natives)].depth = i
    BY <1>1, <1>3, <1>5 DEF IInv, NativesMatchFrames
  <2>2. Len(natives) \in DOMAIN natives
    BY <1>1, <2>1, TypeFacts DEF IInv
  <2>3. GoesOnAt(i) = natives[Len(natives)].prev
    BY <1>3, <1>5 DEF GoesOnAt, Last
  <2> QED
    BY <1>2, <2>1, <2>2, <2>3
<1>6. CASE i # n
  <2>1. i + 1 \in 1..n /\ i + 1 # 1 /\ (i + 1) - 1 = i
    BY <1>3, <1>6
  <2>2. i + 1 \in DOMAIN frames /\ frames[i + 1].ret \in Position /\ i # Len(frames)
    BY <1>1, <1>3, <1>6, <2>1, TypeFacts DEF IInv
  <2>3. CASE frames[i + 1].ret # ExitPos
    <3>1. frames[i + 1].ret \in FunctionPos /\ frames[i + 1].ret.fx = frames[i].context
      BY <2>1, <2>2, <2>3 DEF IInv, CodeMatchesFrames, Position
    <3>2. GoesOnAt(i) = frames[i + 1].ret
      BY <2>2, <2>3 DEF GoesOnAt
    <3> QED
      BY <3>1, <3>2
  <2>4. CASE frames[i + 1].ret = ExitPos
    <3>1. NativesAt(i) # {}
      BY <2>1, <2>2, <2>4 DEF IInv, NativesMatchFrames, NativesAt
    <3>2. GoesOnAt(i) = natives[CHOOSE j \in NativesAt(i) : TRUE].prev
      BY <2>2, <2>4 DEF GoesOnAt
    <3>3. (CHOOSE j \in NativesAt(i) : TRUE) \in NativesAt(i)
      BY <3>1
    <3> QED
      BY <1>2, <3>2, <3>3 DEF NativesAt
  <2> QED
    BY <2>3, <2>4
<1> QED
  BY <1>4, <1>5, <1>6

\* The shape of the abstract state.
ActsFacts ==
    /\ Len(frames) \in Nat /\ DOMAIN frames = 1..Len(frames)
    /\ (Acts = <<>> <=> frames = <<>>) /\ (Len(frames) = 0 <=> frames = <<>>)
    /\ Acts \in Seq(Act) /\ Len(Acts) = Len(frames)
    /\ \A i \in 1..Len(frames) : Acts[i] = ActivationAt(i) /\ Acts[i] \in Act
    /\ \A i \in 0..Len(frames) :
           Base(i) \in Nat /\ End(i) \in Nat /\ Base(i) <= End(i) /\ End(i) <= Len(values)
    /\ Ground \in Seq(Value)
    /\ Ground = SubSeq(values, 1, End(0)) /\ Len(Ground) = End(0)
    /\ values \in Seq(Value) /\ Len(values) \in Nat

LEMMA ActsShape == IInv => ActsFacts
<1> SUFFICES ASSUME IInv PROVE ActsFacts
  OBVIOUS
<1>1. /\ Len(frames) \in Nat /\ DOMAIN frames = 1..Len(frames)
      /\ (Len(frames) = 0 <=> frames = <<>>)
      /\ values \in Seq(Value) /\ Len(values) \in Nat
      /\ \A i \in 1..Len(frames) : frames[i] \in Frame
  BY TypeFacts DEF IInv, TypeOK
<1>2. \A i \in 0..Len(frames) :
          Base(i) \in Nat /\ End(i) \in Nat /\ Base(i) <= End(i) /\ End(i) <= Len(values)
  <2> TAKE i \in 0..Len(frames)
  <2>1. /\ Base(i) \in Nat /\ Base(Len(frames)) = framePointer /\ framePointer <= Owned
        /\ framePointer \in Nat /\ Owned \in Nat /\ Owned <= Len(values) /\ Len(values) \in Nat
    BY BaseFacts DEF IInv
  <2>2. CASE i = Len(frames)
    BY <2>1, <2>2 DEF End
  <2>3. CASE i # Len(frames)
    <3>1. i + 1 \in 0..Len(frames) /\ i <= i + 1
      <4>1. PICK n \in Nat : n = Len(frames) /\ i \in 0..n /\ i # n
        BY <1>1, <2>3
      <4>2. i + 1 \in 0..n /\ i <= i + 1
        BY <4>1
      <4> QED
        BY <4>1, <4>2
    <3>2. Base(i) <= Base(i + 1)
      BY <3>1 DEF IInv, WindowsFit
    <3>3. Base(i + 1) \in Nat /\ Base(i + 1) <= framePointer
      BY <3>1, BaseFacts DEF IInv
    <3> QED
      BY <2>1, <2>3, <3>2, <3>3 DEF End
  <2> QED
    BY <2>2, <2>3
<1>3. \A i \in 1..Len(frames) : ActivationAt(i) \in Act
  <2> TAKE i \in 1..Len(frames)
  <2>1. GoesOnAt(i) \in Position
    BY GoesOnInFunction, PositionFacts DEF GoesOnFacts
  <2>2. EnteredBy(i) \in {"host", "code", "native"}
    BY DEF EnteredBy
  <2>3. frames[i].armed \in BOOLEAN
    BY <1>1 DEF Frame
  <2>4. SubSeq(values, Base(i) + 1, IF i = Len(frames) THEN Owned ELSE Base(i + 1)) \in Seq(Value)
    <3>1. Base(i) \in Nat /\ End(i) \in Nat /\ End(i) <= Len(values)
      BY <1>2
    <3>2. SubSeq(values, Base(i) + 1, End(i)) \in Seq(Value)
      BY <1>1, <3>1
    <3> QED
      BY <3>2 DEF End
  <2> QED
    BY <2>1, <2>2, <2>3, <2>4 DEF ActivationAt, Act
<1>4. /\ Acts \in Seq(Act) /\ Len(Acts) = Len(frames)
      /\ \A i \in 1..Len(frames) : Acts[i] = ActivationAt(i) /\ Acts[i] \in Act
  BY <1>1, <1>3 DEF Acts
<1>5. Ground \in Seq(Value) /\ Ground = SubSeq(values, 1, End(0)) /\ Len(Ground) = End(0)
  <2>1. Ground = SubSeq(values, 1, End(0))
    <3>1. frames = <<>> <=> 0 = Len(frames)
      BY <1>1
    <3>2. 0 + 1 = 1
      OBVIOUS
    <3>3. Base(0 + 1) = Base(1)
      BY <3>2, Zenon
    <3> QED
      BY <3>1, <3>3, Zenon DEF Ground, End
  <2>2. End(0) \in 0..Len(values)
    BY <1>1, <1>2
  <2> QED
    BY <1>1, <2>1, <2>2, CutType
<1>6. Acts = <<>> <=> frames = <<>>
  BY <1>1, <1>4
<1> QED
  BY <1>1, <1>2, <1>4, <1>5, <1>6 DEF ActsFacts

-----------------------------------------------------------------------------
(* What a step leaves as it is *)

LEMMA SameWindow ==
    ASSUME NEW S, NEW s \in Seq(S), NEW t \in Seq(S), NEW a \in Nat \ {0}, NEW b \in Nat,
           b <= Len(s), b <= Len(t), \A i \in a..b : s[i] = t[i]
    PROVE  SubSeq(s, a, b) = SubSeq(t, a, b)
OBVIOUS

\* Two vectors agree from a to b.
Agree(a, b) == \A i \in a..b : values'[i] = values[i]

\* The frames and the natives below the k-th frame are the same, and so is
\* where its window begins.
SameBelow(k) ==
    /\ k \in 1..Len(frames) /\ k \in 1..Len(frames')
    /\ \A i \in 1..k : frames'[i].ret = frames[i].ret /\ frames'[i].prev = frames[i].prev
    /\ \A i \in 1..(k - 1) : frames'[i].armed = frames[i].armed
    /\ Base(k)' = Base(k)
    /\ \A d \in 0..(k - 1) :
           /\ NativesAt(d)' = NativesAt(d)
           /\ \A j \in NativesAt(d) : natives'[j].prev = natives[j].prev

LEMMA BasesStay ==
    ASSUME IInv, IInv', NEW k, SameBelow(k)
    PROVE  \A i \in 0..k : Base(i)' = Base(i) /\ Base(i) \in Nat
<1> TAKE i \in 0..k
<1>1. PICK n \in Nat, m \in Nat : n = Len(frames) /\ m = Len(frames') /\ k \in 1..n /\ k \in 1..m
  <2>1. ActsFacts /\ ActsFacts'
    BY ActsShape, PTL
  <2> QED
    BY <2>1 DEF ActsFacts, SameBelow
<1>2. i \in 0..n
  BY <1>1
<1>3. Base(i) \in Nat
  BY <1>1, <1>2, BaseFacts DEF IInv
<1>4. CASE i # k
  <2>1. i # n /\ i # m /\ i + 1 \in 1..k
    BY <1>1, <1>4
  <2>2. Base(i) = frames[i + 1].prev /\ Base(i)' = frames'[i + 1].prev
    BY <1>1, <2>1 DEF Base
  <2> QED
    BY <1>3, <2>1, <2>2 DEF SameBelow
<1>5. CASE i = k
  BY <1>3, <1>5 DEF SameBelow
<1> QED
  BY <1>4, <1>5

LEMMA BelowStays ==
    ASSUME IInv, IInv', NEW k, SameBelow(k)
    PROVE  /\ Acts[k].by = Acts'[k].by
           /\ Agree(Base(1) + 1, Base(k)) => \A i \in 1..(k - 1) : Acts'[i] = Acts[i]
           /\ Agree(1, Base(1)) => Ground' = Ground
<1>1. PICK n \in Nat, m \in Nat : n = Len(frames) /\ m = Len(frames') /\ k \in 1..n /\ k \in 1..m
  <2>1. ActsFacts /\ ActsFacts'
    BY ActsShape, PTL
  <2> QED
    BY <2>1 DEF ActsFacts, SameBelow
<1>2. \A i \in 0..k : Base(i)' = Base(i) /\ Base(i) \in Nat
  BY BasesStay
<1>3. ActsFacts /\ ActsFacts'
  BY ActsShape, PTL
<1>4. \A i \in 1..k : EnteredBy(i)' = EnteredBy(i)
  <2> TAKE i \in 1..k
  <2>1. frames'[i].ret = frames[i].ret /\ i - 1 \in 0..(k - 1)
    BY <1>1 DEF SameBelow
  <2>2. NativesAt(i - 1)' = NativesAt(i - 1)
    BY <2>1 DEF SameBelow
  <2> QED
    BY <2>1, <2>2 DEF EnteredBy
<1>5. \A i \in 1..k : /\ Acts[i] = ActivationAt(i) /\ Acts'[i] = ActivationAt(i)'
                       /\ Acts[i].by = EnteredBy(i) /\ Acts'[i].by = EnteredBy(i)'
  <2> TAKE i \in 1..k
  <2>1. i \in 1..Len(frames) /\ i \in 1..Len(frames')
    BY <1>1
  <2>2. Acts[i] = ActivationAt(i) /\ Acts'[i] = ActivationAt(i)'
    BY <1>3, <2>1 DEF ActsFacts
  <2> QED
    BY <2>2 DEF ActivationAt
<1>6. ASSUME Agree(Base(1) + 1, Base(k)), NEW i \in 1..(k - 1)
      PROVE  Acts'[i] = Acts[i]
  <2>1. /\ i # n /\ i # m /\ i + 1 \in 1..k /\ i \in 0..(k - 1) /\ i \in 1..k
        /\ i \in 0..n /\ i \in 0..m
    BY <1>1
  <2>2. GoesOnAt(i)' = GoesOnAt(i)
    <3>1. frames'[i + 1].ret = frames[i + 1].ret
      BY <2>1 DEF SameBelow
    <3>2. NativesAt(i)' = NativesAt(i) /\ \A j \in NativesAt(i) : natives'[j].prev = natives[j].prev
      BY <2>1 DEF SameBelow
    <3>3. frames[i + 1].ret = ExitPos => NativesAt(i) # {}
      <4>1. i + 1 \in 1..n /\ i + 1 # 1 /\ (i + 1) - 1 = i
        BY <1>1, <2>1
      <4>2. i + 1 \in DOMAIN frames
        BY <1>1, <1>3, <4>1 DEF ActsFacts
      <4>3. frames[i + 1].ret = ExitPos => \E j \in DOMAIN natives : natives[j].depth = (i + 1) - 1
        BY <4>1, <4>2 DEF IInv, NativesMatchFrames
      <4> QED
        BY <4>1, <4>3 DEF NativesAt
    <3>4. CASE frames[i + 1].ret # ExitPos
      BY <1>1, <2>1, <3>1, <3>4 DEF GoesOnAt
    <3>5. CASE frames[i + 1].ret = ExitPos
      <4>1. (CHOOSE j \in NativesAt(i) : TRUE) \in NativesAt(i)
        BY <3>3, <3>5
      <4>2. (CHOOSE j \in NativesAt(i) : TRUE)' = CHOOSE j \in NativesAt(i) : TRUE
        BY <3>2
      <4>3. GoesOnAt(i) = natives[CHOOSE j \in NativesAt(i) : TRUE].prev
        BY <1>1, <2>1, <3>5 DEF GoesOnAt
      <4>4. GoesOnAt(i)' = natives'[(CHOOSE j \in NativesAt(i) : TRUE)'].prev
        BY <1>1, <2>1, <3>1, <3>5 DEF GoesOnAt
      <4> QED
        BY <3>2, <4>1, <4>2, <4>3, <4>4
    <3> QED
      BY <3>4, <3>5
  <2>3. /\ Base(1) <= Base(i) /\ Base(i + 1) <= Base(k) /\ End(i) = Base(i + 1) /\ End(i)' = Base(i + 1)
        /\ Base(1) \in Nat /\ Base(i) \in Nat /\ Base(i + 1) \in Nat /\ Base(k) \in Nat
    <3>1. 1 \in 0..n /\ i + 1 \in 0..n /\ k \in 0..n /\ 1 <= i /\ i + 1 <= k /\ 1 \in 0..k /\ i + 1 \in 0..k
      BY <1>1, <2>1
    <3>2. Base(1) <= Base(i) /\ Base(i + 1) <= Base(k)
      BY <1>1, <2>1, <3>1 DEF IInv, WindowsFit
    <3>3. End(i) = Base(i + 1) /\ End(i)' = Base(i + 1)'
      BY <1>1, <2>1 DEF End
    <3> QED
      BY <1>2, <2>1, <3>1, <3>2, <3>3
  <2>4. SubSeq(values', Base(i) + 1, Base(i + 1)) = SubSeq(values, Base(i) + 1, Base(i + 1))
    <3>1. /\ values \in Seq(Value) /\ values' \in Seq(Value)
          /\ Base(i + 1) <= Len(values) /\ Base(i + 1) <= Len(values')
      BY <1>1, <1>3, <2>1, <2>3 DEF ActsFacts
    <3>2. \A l \in (Base(i) + 1)..Base(i + 1) : values'[l] = values[l]
      BY <1>6, <2>3 DEF Agree
    <3>3. Base(i) + 1 \in Nat \ {0} /\ Base(i + 1) \in Nat
      BY <2>3
    <3> QED
      BY <3>1, <3>2, <3>3, SameWindow
  <2>5. ActivationAt(i)' = ActivationAt(i)
    <3>1. ActivationAt(i) = [pos |-> GoesOnAt(i), vals |-> SubSeq(values, Base(i) + 1, Base(i + 1)),
                             armed |-> frames[i].armed, by |-> EnteredBy(i)]
      BY <1>1, <2>1 DEF ActivationAt
    <3>2. ActivationAt(i)' = [pos |-> GoesOnAt(i)', vals |-> SubSeq(values', Base(i)' + 1, Base(i + 1)'),
                              armed |-> frames'[i].armed, by |-> EnteredBy(i)']
      BY <1>1, <2>1 DEF ActivationAt
    <3>3. Base(i)' = Base(i) /\ Base(i + 1)' = Base(i + 1) /\ frames'[i].armed = frames[i].armed
          /\ EnteredBy(i)' = EnteredBy(i)
      BY <1>1, <1>2, <1>4, <2>1 DEF SameBelow
    <3> QED
      BY <2>2, <2>4, <3>1, <3>2, <3>3
  <2> QED
    BY <1>5, <2>1, <2>5
<1>7. ASSUME Agree(1, Base(1))
      PROVE  Ground' = Ground
  <2>1. 1 \in 0..n /\ 1 \in 0..m /\ frames # <<>> /\ frames' # <<>> /\ 1 \in 0..k
    <3>1. 1 \in 0..n /\ 1 \in 0..m /\ n # 0 /\ m # 0 /\ 1 \in 0..k
      BY <1>1
    <3>2. (n = 0 <=> frames = <<>>) /\ (m = 0 <=> frames' = <<>>)
      BY <1>1, <1>3 DEF ActsFacts
    <3> QED
      BY <3>1, <3>2
  <2>2. Ground = SubSeq(values, 1, Base(1)) /\ Ground' = SubSeq(values', 1, Base(1)')
    BY <2>1 DEF Ground
  <2>3. /\ values \in Seq(Value) /\ values' \in Seq(Value) /\ Base(1)' = Base(1) /\ Base(1) \in Nat
        /\ Base(1) <= Len(values) /\ Base(1) <= Len(values')
    <3>1. Base(1)' = Base(1) /\ Base(1) \in Nat
      BY <1>2, <2>1
    <3>2. Base(1) <= End(1) /\ End(1) <= Len(values) /\ End(1) \in Nat /\ Len(values) \in Nat
      BY <1>1, <1>3, <2>1 DEF ActsFacts
    <3>3. Base(1)' <= End(1)' /\ End(1)' <= Len(values') /\ End(1)' \in Nat /\ Len(values') \in Nat
      BY <1>1, <1>3, <2>1 DEF ActsFacts
    <3>4. values \in Seq(Value) /\ values' \in Seq(Value)
      BY <1>3 DEF ActsFacts
    <3> QED
      BY <3>1, <3>2, <3>3, <3>4
  <2> QED
    BY <1>7, <2>2, <2>3, SameWindow DEF Agree
<1> QED
  BY <1>1, <1>4, <1>5, <1>6, <1>7

\* What the vector keeps up to a window is the same in both states.
LEMMA KeptAgrees ==
    ASSUME IInv, NEW k \in 1..Len(frames), Keeps(Base(k), values')
    PROVE  Agree(1, Base(1)) /\ Agree(Base(1) + 1, Base(k))
<1>1. Base(1) \in Nat /\ Base(k) \in Nat /\ Base(1) <= Base(k)
  <2>1. PICK n \in Nat : n = Len(frames) /\ k \in 1..n
    BY TypeFacts DEF IInv
  <2>2. 1 \in 0..n /\ k \in 0..n
    BY <2>1
  <2> QED
    BY <2>1, <2>2, BaseFacts DEF IInv, WindowsFit
<1> QED
  BY <1>1 DEF Keeps, Agree

-----------------------------------------------------------------------------
(* The objects *)

LEMMA ObjectsStay ==
    ASSUME IInv, UNCHANGED objects
    PROVE  Abstract!ObjectsGrow /\ Abstract!NoNewCoroutine
BY DEF IInv, TypeOK, Abstract!ObjectsGrow, Abstract!NoNewCoroutine

LEMMA ObjectsAppended ==
    ASSUME IInv, NEW news \in Seq(Object), objects' = objects \o news
    PROVE  /\ Abstract!ObjectsGrow
           /\ \A i \in DOMAIN objects' \ DOMAIN objects :
                  \E j \in DOMAIN news : i = Len(objects) + j /\ objects'[i] = news[j]
<1>1. PICK m \in Nat, l \in Nat : m = Len(objects) /\ l = Len(news)
  BY DEF IInv, TypeOK
<1>2. objects \in Seq(Object)
  BY DEF IInv, TypeOK
<1>3. /\ Len(objects') = m + l /\ DOMAIN objects' = 1..(m + l) /\ DOMAIN objects = 1..m
      /\ DOMAIN news = 1..l
      /\ \A i \in 1..m : objects'[i] = objects[i]
      /\ \A i \in (m + 1)..(m + l) : objects'[i] = news[i - m]
  BY <1>1, <1>2
<1>4. Abstract!ObjectsGrow
  BY <1>1, <1>3 DEF Abstract!ObjectsGrow
<1>5. ASSUME NEW i \in DOMAIN objects' \ DOMAIN objects
      PROVE  \E j \in DOMAIN news : i = Len(objects) + j /\ objects'[i] = news[j]
  <2>1. i - m \in 1..l /\ i = m + (i - m) /\ i \in (m + 1)..(m + l)
    BY <1>1, <1>3
  <2> QED
    BY <1>1, <1>3, <2>1
<1> QED
  BY <1>4, <1>5

LEMMA OneObjectAppended ==
    ASSUME IInv, NEW new \in Object, objects' = Append(objects, new)
    PROVE  /\ Abstract!ObjectsGrow
           /\ \A i \in DOMAIN objects' \ DOMAIN objects : i = Len(objects) + 1 /\ objects'[i] = new
<1>1. <<new>> \in Seq(Object) /\ DOMAIN <<new>> = {1} /\ <<new>>[1] = new
  OBVIOUS
<1>2. objects' = objects \o <<new>>
  BY DEF IInv, TypeOK
<1> QED
  BY <1>1, <1>2, ObjectsAppended

-----------------------------------------------------------------------------
(* Code works in its own activation *)

LEMMA WorkStep ==
    ASSUME IInv, IInv', Running, Control' \in {"code", "native"}, Len(frames') = Len(frames),
           frames # <<>> =>
               /\ SameBelow(Len(frames)) /\ Keeps(framePointer, values')
               /\ frames'[Len(frames)].context = frames[Len(frames)].context,
           Abstract!ObjectsGrow, Abstract!NoNewCoroutine
    PROVE  Abstract!Next
<1>1. Control = "code"
  BY DEF Control, Running, Live, AtExit
<1>2. ActsFacts /\ ActsFacts' /\ GoesOnFacts /\ GoesOnFacts'
  BY ActsShape, GoesOnInFunction, PTL
<1>3. PICK n \in Nat : n = Len(frames) /\ n = Len(Acts) /\ n = Len(Acts') /\ n = Len(frames')
  BY <1>2 DEF ActsFacts
<1>4. ASSUME Acts # <<>>
      PROVE  /\ Abstract!Front(Acts') = Abstract!Front(Acts)
             /\ Abstract!Last(Acts').by = Abstract!Last(Acts).by
             /\ Abstract!Last(Acts').pos.fx = Abstract!Last(Acts).pos.fx
             /\ Ground' = Ground
  <2>1. /\ frames # <<>> /\ n \in 1..n /\ SameBelow(n) /\ Keeps(Base(n), values')
        /\ frames'[n].context = frames[n].context
    <3>1. frames # <<>> /\ n # 0
      BY <1>2, <1>3, <1>4 DEF ActsFacts
    <3>2. n \in 1..n
      BY <3>1
    <3>3. Base(n) = framePointer
      BY <1>3 DEF Base
    <3> QED
      BY <1>3, <3>1, <3>2, <3>3
  <2>2. Agree(1, Base(1)) /\ Agree(Base(1) + 1, Base(n))
    BY <1>3, <2>1, KeptAgrees
  <2>3. Acts[n].by = Acts'[n].by /\ Ground' = Ground /\ \A i \in 1..(n - 1) : Acts'[i] = Acts[i]
    BY <2>1, <2>2, BelowStays
  <2>4. SubSeq(Acts', 1, n - 1) = SubSeq(Acts, 1, n - 1)
    <3>1. n - 1 \in Nat /\ n - 1 <= n /\ Acts \in Seq(Act) /\ Acts' \in Seq(Act)
      BY <1>2, <2>1 DEF ActsFacts
    <3> QED
      BY <1>3, <2>3, <3>1, SameWindow
  <2>5. Acts[n].pos.fx = frames[n].context /\ Acts'[n].pos.fx = frames'[n].context
    <3>1. Acts[n] = ActivationAt(n) /\ Acts'[n] = ActivationAt(n)'
      BY <1>2, <1>3, <2>1 DEF ActsFacts
    <3>2. Acts[n].pos = GoesOnAt(n) /\ Acts'[n].pos = GoesOnAt(n)'
      BY <3>1 DEF ActivationAt
    <3> QED
      BY <1>2, <1>3, <2>1, <3>2 DEF GoesOnFacts
  <2> QED
    BY <1>3, <2>1, <2>3, <2>4, <2>5 DEF Abstract!Front, Abstract!Last
<1>5. Abstract!OnlyTopChanges
  BY <1>3, <1>4 DEF Abstract!OnlyTopChanges, Abstract!Top
<1> QED
  BY <1>1, <1>5 DEF Abstract!Work, Abstract!Next

\* The stack of frames stays as it is.
LEMMA SameFrames ==
    ASSUME IInv, frames # <<>>, UNCHANGED <<frames, framePointer>>,
           \A d \in 0..(Len(frames) - 1) :
               NativesAt(d)' = NativesAt(d) /\ \A j \in NativesAt(d) : natives'[j].prev = natives[j].prev
    PROVE  SameBelow(Len(frames))
<1>1. Len(frames) \in 1..Len(frames)
  BY TypeFacts DEF IInv
<1>2. Base(Len(frames))' = Base(Len(frames))
  BY DEF Base
<1> QED
  BY <1>1, <1>2 DEF SameBelow

LEMMA SameNatives ==
    ASSUME UNCHANGED natives, NEW d
    PROVE  NativesAt(d)' = NativesAt(d) /\ \A j \in NativesAt(d) : natives'[j].prev = natives[j].prev
BY DEF NativesAt

\* All instructions of OnWindow leave the frames alone.
LEMMA WindowFacts ==
    ASSUME IInv, OnWindow
    PROVE  /\ InCode /\ UNCHANGED <<frames, framePointer, pc, phase>>
           /\ (UNCHANGED <<natives, inNative>>) \/ StartNative
           /\ UNCHANGED objects \/ NewFx \/ NewTuple \/ Capture
<1> USE DEF Replace, machineVars
<1>1. CASE OnTemporaries
  BY <1>1 DEF OnTemporaries, PushConstant, Scrap, Duplicate, Swap, LoadX, StoreX, Unpack
<1>2. CASE GlobalRead
  BY <1>2 DEF GlobalRead, UsesGlobals
<1>3. CASE NewFx
  BY <1>3 DEF NewFx
<1>4. CASE NewTuple
  BY <1>4 DEF NewTuple
<1>5. CASE Capture
  BY <1>5 DEF Capture
<1>6. CASE StartNative
  BY <1>6 DEF StartNative
<1> QED
  BY <1>1, <1>2, <1>3, <1>4, <1>5, <1>6 DEF OnWindow

LEMMA WindowObjects ==
    ASSUME IInv, OnWindow
    PROVE  Abstract!ObjectsGrow /\ Abstract!NoNewCoroutine
<1>1. CASE UNCHANGED objects
  BY <1>1, ObjectsStay
<1>2. CASE NewFx
  <2>1. PICK f \in Functions :
            objects' = Append(objects, [kind |-> "function", fx |-> f, captured |-> <<>>])
    BY <1>2 DEF NewFx
  <2> DEFINE new == [kind |-> "function", fx |-> f, captured |-> <<>>]
  <2>2. new \in Object /\ new.kind # "coroutine"
    BY DEF Object
  <2> HIDE DEF new
  <2>3. objects' = Append(objects, new)
    BY <2>1 DEF new
  <2> QED
    BY <2>2, <2>3, OneObjectAppended DEF Abstract!NoNewCoroutine
<1>3. CASE NewTuple
  <2>1. PICK n \in 0..MaxArgs :
            HasTemporaries(n) /\ objects' = Append(objects, [kind |-> "tuple", items |-> Above(n)])
    BY <1>3 DEF NewTuple
  <2> DEFINE new == [kind |-> "tuple", items |-> Above(n)]
  <2>2. Above(n) \in Seq(Value)
    BY <2>1, TemporariesFacts, ConstantsAssumption
  <2>3. new \in Object /\ new.kind # "coroutine"
    BY <2>2 DEF Object
  <2> HIDE DEF new
  <2>4. objects' = Append(objects, new)
    BY <2>1 DEF new
  <2> QED
    BY <2>3, <2>4, OneObjectAppended DEF Abstract!NoNewCoroutine
<1>4. CASE Capture
  <2> DEFINE ref == Above(2)[1].ref
  <2>1. /\ ref \in DOMAIN objects /\ objects[ref].kind = "function"
        /\ objects' = [objects EXCEPT ![ref].captured = Append(@, Last(values))]
    BY <1>4 DEF Capture, IsA, ObjectOf
  <2> HIDE DEF ref
  <2>2. objects \in Seq(Object)
    BY DEF IInv, TypeOK
  <2>3. DOMAIN objects' = DOMAIN objects /\ Len(objects') = Len(objects)
    BY <2>1, <2>2
  <2>4. \A i \in DOMAIN objects : i # ref => objects'[i] = objects[i]
    BY <2>1
  <2>5. objects'[ref].fx = objects[ref].fx
    <3>1. objects'[ref] = [objects[ref] EXCEPT !.captured = Append(@, Last(values))]
      BY <2>1
    <3>2. objects[ref] \in [kind : {"function"}, fx : Functions, captured : Seq(Value)]
      BY <2>1, <2>2 DEF Object
    <3> QED
      BY <3>1, <3>2
  <2>6. \A i \in DOMAIN objects :
            IF objects[i].kind = "function" THEN objects'[i].fx = objects[i].fx
                                            ELSE objects'[i] = objects[i]
    BY <2>1, <2>4, <2>5
  <2>7. Len(objects') >= Len(objects)
    BY <2>2, <2>3
  <2> QED
    BY <2>3, <2>6, <2>7 DEF Abstract!ObjectsGrow, Abstract!NoNewCoroutine
<1> QED
  BY <1>1, <1>2, <1>3, <1>4, WindowFacts

LEMMA WindowShows ==
    ASSUME IInv, IInv', OnWindow
    PROVE  Abstract!Next
<1>1. InCode /\ Running /\ UNCHANGED <<frames, framePointer, pc, phase>>
  BY WindowFacts DEF InCode
<1>2. Control' \in {"code", "native"}
  <2>1. Live' /\ ~AtExit'
    BY <1>1 DEF Running, Live, AtExit
  <2> QED
    BY <2>1 DEF Control
<1>3. Keeps(framePointer, values')
  <2>1. Slots(pc) \in Nat /\ framePointer \in Nat
    BY SlotsType, TypeFacts DEF IInv
  <2>2. Under(framePointer)
    BY <2>1 DEF Under
  <2> QED
    BY <2>2, WindowKeeps
<1>4. ASSUME NEW d \in 0..(Len(frames) - 1)
      PROVE  NativesAt(d)' = NativesAt(d) /\ \A j \in NativesAt(d) : natives'[j].prev = natives[j].prev
  <2>1. CASE UNCHANGED natives
    BY <2>1, SameNatives
  <2>2. CASE StartNative
    <3>1. natives' = Append(natives, [prev |-> pc, depth |-> Len(frames)]) /\ natives \in Seq(Native)
      BY <2>2 DEF StartNative, IInv, TypeOK
    <3>2. PICK m \in Nat : m = Len(natives)
      BY <3>1
    <3>3. /\ DOMAIN natives = 1..m /\ DOMAIN natives' = 1..(m + 1)
          /\ \A j \in 1..m : natives'[j] = natives[j]
          /\ natives'[m + 1].depth = Len(frames)
      BY <3>1, <3>2
    <3>4. Len(frames) # d
      <4>1. Len(frames) \in Nat
        BY TypeFacts DEF IInv
      <4> QED
        BY <4>1
    <3>5. \A j \in 1..(m + 1) : j \in 1..m \/ j = m + 1
      BY <3>2
    <3>6. \A j \in 1..m : j \in 1..(m + 1)
      BY <3>2
    <3> QED
      BY <3>3, <3>4, <3>5, <3>6 DEF NativesAt
  <2> QED
    BY <2>1, <2>2, WindowFacts
<1>5. frames # <<>> => SameBelow(Len(frames))
  BY <1>1, <1>4, SameFrames
<1> QED
  BY <1>1, <1>2, <1>3, <1>5, WindowObjects, WorkStep

LEMMA TryShows ==
    ASSUME IInv, IInv', Try
    PROVE  Abstract!Next
<1>1. /\ Running /\ pc.fx \in HasExcept /\ frames' = [frames EXCEPT ![Len(frames)].armed = TRUE]
      /\ pc' = BodyPos(pc.fx)
      /\ UNCHANGED <<values, framePointer, phase, natives, inNative, settled, objects>>
  BY DEF Try
<1>2. pc.fx \in Functions /\ pc' # ExitPos
  BY <1>1, ConstantsAssumption, PositionFacts
<1>3. PICK n \in Nat : n = Len(frames) /\ n = Len(frames') /\ DOMAIN frames = 1..n /\ frames \in Seq(Frame)
  BY <1>1, TypeFacts DEF IInv, TypeOK
<1>4. frames # <<>> => n \in 1..n
  BY <1>3, TypeFacts DEF IInv
<1>5. ASSUME frames # <<>>
      PROVE  /\ SameBelow(n) /\ Keeps(framePointer, values')
             /\ frames'[n].context = frames[n].context
  <2>1. \A i \in 1..n : i # n => frames'[i] = frames[i]
    BY <1>1, <1>3
  <2>2. frames'[n] = [frames[n] EXCEPT !.armed = TRUE] /\ frames[n] \in Frame
    <3>1. n \in DOMAIN frames /\ frames[n] \in Frame
      BY <1>3, <1>4, <1>5
    <3>2. frames' = [frames EXCEPT ![n].armed = TRUE]
      BY <1>1, <1>3
    <3> QED
      BY <3>1, <3>2
  <2>3. /\ frames'[n].ret = frames[n].ret /\ frames'[n].prev = frames[n].prev
        /\ frames'[n].context = frames[n].context
    BY <2>2 DEF Frame
  <2>4. Base(n)' = Base(n)
    BY <1>1, <1>3 DEF Base
  <2>5. SameBelow(n)
    <3>1. \A i \in 1..(n - 1) : i \in 1..n /\ i # n
      BY <1>3
    <3>2. \A d \in 0..(n - 1) :
              NativesAt(d)' = NativesAt(d) /\ \A j \in NativesAt(d) : natives'[j].prev = natives[j].prev
      BY <1>1, SameNatives
    <3> QED
      BY <1>3, <1>4, <1>5, <2>1, <2>3, <2>4, <3>1, <3>2 DEF SameBelow
  <2>6. framePointer \in Nat /\ framePointer <= Len(values)
    BY BaseFacts DEF IInv
  <2> QED
    BY <1>1, <2>3, <2>5, <2>6, AllKeeps DEF IInv, Keeps
<1>6. Control' \in {"code", "native"}
  BY <1>1, <1>2 DEF Control, Live, AtExit, Running
<1> QED
  BY <1>1, <1>3, <1>5, <1>6, ObjectsStay, WorkStep

LEMMA InitGlobalShows ==
    ASSUME IInv, IInv', InitGlobal
    PROVE  Abstract!Next
<1>1. Running /\ frames = <<>> /\ UNCHANGED <<stackVars, pc, phase, natives, inNative, objects>>
  BY DEF InitGlobal
<1>2. Control' \in {"code", "native"}
  BY <1>1 DEF Control, Live, AtExit, Running
<1> QED
  BY <1>1, <1>2, ObjectsStay, WorkStep DEF stackVars

-----------------------------------------------------------------------------
(* The top activation *)

\* The values between two places of the vector.
Part(a, b) == SubSeq(values, a + 1, b)

TopFacts ==
    frames # <<>> =>
        /\ Abstract!Last(Acts) = Acts[Len(frames)]
        /\ Abstract!Front(Acts) = SubSeq(Acts, 1, Len(frames) - 1)
        /\ Acts[Len(frames)] = [pos |-> GoesOnAt(Len(frames)), vals |-> Part(framePointer, Owned),
                               armed |-> frames[Len(frames)].armed, by |-> EnteredBy(Len(frames))]
        /\ Len(frames) \in 1..Len(frames)
        /\ framePointer \in Nat /\ Owned \in Nat /\ framePointer <= Owned /\ Owned <= Len(values)
        /\ Ground = Part(0, Base(1)) /\ Base(1) \in Nat /\ Base(1) <= framePointer

LEMMA TopShape == IInv => TopFacts
<1> SUFFICES ASSUME IInv, frames # <<>>
             PROVE  TopFacts
  BY DEF TopFacts
<1>1. ActsFacts
  BY ActsShape
<1>2. PICK n \in Nat : n = Len(frames) /\ n \in 1..n /\ n = Len(Acts) /\ n \in 0..n /\ 1 \in 0..n
  <2>1. PICK n \in Nat : n = Len(frames) /\ n = Len(Acts) /\ n # 0
    BY <1>1 DEF ActsFacts
  <2>2. n \in 1..n /\ n \in 0..n /\ 1 \in 0..n
    BY <2>1
  <2> QED
    BY <2>1, <2>2
<1>3. Acts[n] = ActivationAt(n) /\ Base(n) = framePointer
  BY <1>1, <1>2 DEF ActsFacts, Base
<1>4. Acts[n] = [pos |-> GoesOnAt(n), vals |-> SubSeq(values, Base(n) + 1, Owned),
                 armed |-> frames[n].armed, by |-> EnteredBy(n)]
  BY <1>2, <1>3 DEF ActivationAt
<1>5. /\ Base(n) \in Nat /\ Base(n) <= End(n) /\ End(n) <= Len(values) /\ End(n) \in Nat /\ End(n) = Owned
      /\ Base(1) \in Nat /\ Base(1) <= Base(n)
  <2>1. Base(1) <= Base(n) /\ Base(1) \in Nat
    BY <1>2, <1>3, BaseFacts DEF IInv
  <2> QED
    BY <1>1, <1>2, <2>1 DEF ActsFacts, End
<1>6. Ground = SubSeq(values, 0 + 1, Base(1))
  <2>1. 0 + 1 = 1
    OBVIOUS
  <2> QED
    BY <2>1, Zenon DEF Ground
<1> QED
  BY <1>2, <1>3, <1>4, <1>5, <1>6 DEF TopFacts, Part, Abstract!Last, Abstract!Front

\* A sequence that differs from another one by what it ends with.
LEMMA EndsWith ==
    ASSUME NEW S, NEW s \in Seq(S), NEW t \in Seq(S), NEW k \in Nat, k <= Len(s), Len(t) = k + 1,
           \A i \in 1..k : t[i] = s[i]
    PROVE  t = SubSeq(s, 1, k) \o <<t[k + 1]>>
OBVIOUS

LEMMA SameSequence ==
    ASSUME NEW S, NEW s \in Seq(S), NEW t \in Seq(S), Len(t) = Len(s),
           \A i \in 1..Len(s) : t[i] = s[i]
    PROVE  t = s
OBVIOUS

\* Nothing but the top activation changes.
LEMMA OnlyTop ==
    ASSUME IInv, IInv', frames # <<>>, NEW n, n = Len(frames), n = Len(frames'), SameBelow(n),
           Agree(Base(1) + 1, framePointer)
    PROVE  /\ Acts' = Abstract!Front(Acts) \o <<Acts'[n]>>
           /\ Acts'[n] = [pos |-> GoesOnAt(n)', vals |-> Part(framePointer, Owned)',
                          armed |-> frames'[n].armed, by |-> EnteredBy(n)]
           /\ Acts[n] = [pos |-> GoesOnAt(n), vals |-> Part(framePointer, Owned),
                         armed |-> frames[n].armed, by |-> EnteredBy(n)]
           /\ Abstract!Last(Acts) = Acts[n]
           /\ framePointer' = framePointer
           /\ Len(Acts) = n /\ Len(Acts') = n /\ Acts # <<>>
           /\ Agree(1, Base(1)) => Ground' = Ground
<1>1. ActsFacts /\ ActsFacts' /\ TopFacts /\ TopFacts'
  BY ActsShape, TopShape, PTL
<1>2. n \in Nat /\ n \in 1..n /\ frames' # <<>> /\ Acts # <<>>
  BY <1>1 DEF ActsFacts, TopFacts
<1>3. Base(n) = framePointer /\ Base(n)' = framePointer' /\ Base(n)' = Base(n)
  BY DEF Base, SameBelow
<1>4. /\ Acts[n].by = Acts'[n].by /\ \A i \in 1..(n - 1) : Acts'[i] = Acts[i]
      /\ Agree(1, Base(1)) => Ground' = Ground
  BY <1>3, BelowStays
<1>5. /\ Acts'[n] = [pos |-> GoesOnAt(n)', vals |-> Part(framePointer, Owned)',
                    armed |-> frames'[n].armed, by |-> EnteredBy(n)']
      /\ Acts[n] = [pos |-> GoesOnAt(n), vals |-> Part(framePointer, Owned),
                    armed |-> frames[n].armed, by |-> EnteredBy(n)]
      /\ Abstract!Last(Acts) = Acts[n] /\ Abstract!Front(Acts) = SubSeq(Acts, 1, n - 1)
  BY <1>1, <1>2 DEF TopFacts
<1>6. EnteredBy(n)' = EnteredBy(n)
  BY <1>4, <1>5
<1>7. Acts' = SubSeq(Acts, 1, n - 1) \o <<Acts'[(n - 1) + 1]>>
  <2>1. /\ Acts \in Seq(Act) /\ Acts' \in Seq(Act) /\ Len(Acts) = n /\ Len(Acts') = n
    BY <1>1 DEF ActsFacts
  <2>2. n - 1 \in Nat /\ n - 1 <= n /\ (n - 1) + 1 = n
    BY <1>2
  <2> QED
    BY <1>4, <2>1, <2>2, EndsWith
<1>8. (n - 1) + 1 = n
  BY <1>2
<1> QED
  BY <1>1, <1>2, <1>3, <1>4, <1>5, <1>6, <1>7, <1>8 DEF ActsFacts

LEMMA ExitShows ==
    ASSUME IInv, IInv', Exit
    PROVE  UNCHANGED Abstract!avars
<1>1. /\ phase \in {"setup", "call"} /\ AtExit /\ values' = SubSeq(values, 1, Len(values) - 1)
      /\ IF natives = <<>> THEN phase' = "idle" /\ pc' = InitPos /\ UNCHANGED inNative
                           ELSE UNCHANGED phase /\ pc' = Last(natives).prev /\ inNative' = TRUE
      /\ UNCHANGED <<frames, framePointer, natives, settled, objects>>
  BY DEF Exit, AtExit, Below
<1>2. natives # <<>> => Last(natives).prev # ExitPos
  <2>1. Len(natives) \in Nat /\ (natives # <<>> => Len(natives) \in 1..Len(natives))
    BY TypeFacts DEF IInv
  <2> QED
    BY <2>1, TypeFacts DEF IInv, Last
<1>3. ~AtExit'
  BY <1>1, <1>2, PositionFacts DEF AtExit
<1>4. Control' = Control
  BY <1>1, <1>3 DEF Control, Live
<1>5. /\ values \in Seq(Value) /\ Owned \in Nat /\ Owned = Len(values) - 1 /\ Owned <= Len(values)
      /\ Len(values') = Owned /\ Owned' = Owned
  <2>1. values \in Seq(Value) /\ Owned \in Nat /\ Owned = Len(values) - 1 /\ Owned <= Len(values)
    BY <1>1, BaseFacts DEF IInv, TypeOK, Owned
  <2>2. Len(values') = Owned
    BY <1>1, <2>1
  <2>3. Owned' = Len(values')
    BY <1>3, <2>1, <2>2 DEF Owned
  <2> QED
    BY <2>1, <2>2, <2>3
<1>6. Keeps(Owned, values')
  BY <1>1, <1>5, AllKeeps, CutKeeps DEF IInv
<1>7. CASE frames = <<>>
  <2>1. Acts' = Acts
    <3>1. ActsFacts /\ ActsFacts'
      BY ActsShape, PTL
    <3>2. Acts = <<>> /\ Acts' = <<>>
      BY <1>1, <1>7, <3>1 DEF ActsFacts
    <3> QED
      BY <3>2
  <2>2. Ground' = Ground
    <3>1. Ground = SubSeq(values, 1, Owned) /\ Ground' = SubSeq(values', 1, Owned)
      BY <1>1, <1>5, <1>7 DEF Ground
    <3>2. values' \in Seq(Value) /\ \A i \in 1..Owned : values'[i] = values[i]
      BY <1>6 DEF Keeps
    <3> QED
      BY <1>5, <3>1, <3>2, SameWindow
  <2> QED
    BY <1>1, <1>4, <2>1, <2>2 DEF Abstract!avars
<1>8. CASE frames # <<>>
  <2>1. ActsFacts /\ TopFacts /\ ActsFacts'
    BY ActsShape, TopShape, PTL
  <2>2. PICK n \in Nat : n = Len(frames) /\ n = Len(frames') /\ n \in 1..n
    BY <1>1, <1>8, <2>1 DEF ActsFacts, TopFacts
  <2>3. SameBelow(n)
    BY <1>1, <1>8, <2>2, SameFrames, SameNatives
  <2>4. framePointer \in Nat /\ framePointer <= Owned /\ Base(1) \in Nat /\ Base(1) <= framePointer
    BY <1>8, <2>1 DEF TopFacts
  <2>5. Agree(1, Base(1)) /\ Agree(Base(1) + 1, framePointer)
    BY <1>5, <1>6, <2>4 DEF Keeps, Agree
  <2>6. GoesOnAt(n)' = GoesOnAt(n)
    <3>1. natives # <<>>
      BY <1>1, <1>8 DEF IInv, NativesMatchFrames
    <3> QED
      BY <1>1, <1>3, <2>2, <3>1 DEF GoesOnAt
  <2>7. Part(framePointer, Owned)' = Part(framePointer, Owned)
    <3>1. values' \in Seq(Value) /\ \A i \in (framePointer + 1)..Owned : values'[i] = values[i]
      BY <1>5, <1>6, <2>4 DEF Keeps
    <3>2. framePointer + 1 \in Nat \ {0}
      BY <2>4
    <3>3. SubSeq(values', framePointer + 1, Owned) = SubSeq(values, framePointer + 1, Owned)
      BY <1>5, <3>1, <3>2, SameWindow
    <3> QED
      BY <1>1, <1>5, <3>3 DEF Part
  <2>8. Acts'[n] = Acts[n] /\ Acts' = Abstract!Front(Acts) \o <<Acts'[n]>> /\ Ground' = Ground
        /\ Len(Acts) = n
    <3>1. frames'[n].armed = frames[n].armed
      BY <1>1
    <3> QED
      BY <1>8, <2>2, <2>3, <2>5, <2>6, <2>7, <3>1, OnlyTop
  <2>9. Acts' = Acts
    <3>1. Acts = SubSeq(Acts, 1, n - 1) \o <<Acts[(n - 1) + 1]>>
      <4>1. Acts \in Seq(Act) /\ n - 1 \in Nat /\ n - 1 <= Len(Acts) /\ Len(Acts) = (n - 1) + 1
        BY <2>1, <2>2, <2>8 DEF ActsFacts
      <4> QED
        BY <4>1, EndsWith
    <3>2. (n - 1) + 1 = n /\ Abstract!Front(Acts) = SubSeq(Acts, 1, n - 1)
      BY <1>8, <2>1, <2>2 DEF TopFacts
    <3> QED
      BY <2>8, <3>1, <3>2
  <2> QED
    BY <1>1, <1>4, <2>8, <2>9 DEF Abstract!avars
<1> QED
  BY <1>7, <1>8

LEMMA FinishSetupShows ==
    ASSUME IInv, IInv', FinishSetup
    PROVE  Abstract!Next
<1>1. Running /\ frames = <<>> /\ phase' = "idle" /\ UNCHANGED <<stackVars, pc, natives, inNative, settled, objects>>
  BY DEF FinishSetup
<1>2. ActsFacts /\ ActsFacts'
  BY ActsShape, PTL
<1>3. Acts = <<>> /\ Acts' = <<>>
  BY <1>1, <1>2 DEF ActsFacts, stackVars
<1>4. Control = "code" /\ Control' = "host" /\ ~AtExit /\ ~AtExit'
  BY <1>1 DEF Control, Live, AtExit, Running
<1>5. Ground' = Ground
  BY <1>1, <1>4 DEF Ground, Owned, stackVars
<1> QED
  BY <1>1, <1>3, <1>4, <1>5 DEF Abstract!FinishSetup, Abstract!Next

\* A sequence that is one longer than another one and equal up to there.
LEMMA OneLonger ==
    ASSUME NEW S, NEW u \in Seq(S), NEW v \in Seq(S), NEW m \in Nat, Len(v) = m, Len(u) = m + 1,
           \A i \in 1..m : u[i] = v[i]
    PROVE  /\ u = Append(v, u[m + 1]) /\ u # <<>>
           /\ Abstract!Last(u) = u[m + 1] /\ Abstract!Front(u) = v
<1>1. u = SubSeq(v, 1, m) \o <<u[m + 1]>>
  BY EndsWith
<1>2. SubSeq(v, 1, m) = v
  OBVIOUS
<1>3. u = Append(v, u[m + 1])
  <2>1. u[m + 1] \in S
    OBVIOUS
  <2> QED
    BY <1>1, <1>2, <2>1
<1>4. u # <<>> /\ Abstract!Last(u) = u[m + 1]
  BY DEF Abstract!Last
<1>5. SubSeq(u, 1, m) = v
  <2>1. SubSeq(u, 1, m) \in Seq(S) /\ Len(SubSeq(u, 1, m)) = m
        /\ \A i \in 1..m : SubSeq(u, 1, m)[i] = u[i]
    OBVIOUS
  <2> QED
    BY <2>1, SameSequence
<1>6. Len(u) - 1 = m
  OBVIOUS
<1> QED
  BY <1>3, <1>4, <1>5, <1>6 DEF Abstract!Front

\* The same part of the vector after a step.
NewPart(a, b) == SubSeq(values', a + 1, b)

LEMMA PartType ==
    ASSUME NEW S, NEW s \in Seq(S), NEW a \in Nat, NEW b \in Nat, a <= b, b <= Len(s)
    PROVE  /\ SubSeq(s, a + 1, b) \in Seq(S) /\ Len(SubSeq(s, a + 1, b)) = b - a
           /\ \A i \in 1..(b - a) : SubSeq(s, a + 1, b)[i] = s[a + i]
OBVIOUS

LEMMA PartStays ==
    ASSUME values \in Seq(Value), values' \in Seq(Value), NEW a \in Nat, NEW b \in Nat,
           b <= Len(values), b <= Len(values'), Agree(a + 1, b)
    PROVE  NewPart(a, b) = Part(a, b)
<1>1. a + 1 \in Nat \ {0}
  OBVIOUS
<1> QED
  BY <1>1, SameWindow DEF NewPart, Part, Agree

\* A value is added to a part of the vector.
LEMMA PartGrows ==
    ASSUME values \in Seq(Value), values' \in Seq(Value), NEW a \in Nat, NEW b \in Nat, NEW e \in Nat,
           a <= b, e = b + 1, e <= Len(values'), b <= Len(values), Agree(a + 1, b)
    PROVE  /\ NewPart(a, e) = Append(Part(a, b), values'[e])
           /\ NewPart(a, e) # <<>>
           /\ Abstract!Last(NewPart(a, e)) = values'[e]
           /\ Abstract!Front(NewPart(a, e)) = Part(a, b)
<1> DEFINE u == NewPart(a, e)
           v == Part(a, b)
<1>1. PICK m \in Nat : m = b - a /\ b = a + m
  OBVIOUS
<1>2. v \in Seq(Value) /\ Len(v) = m /\ \A i \in 1..m : v[i] = values[a + i]
  BY <1>1, PartType DEF Part
<1>3. u \in Seq(Value) /\ Len(u) = m + 1 /\ \A i \in 1..(m + 1) : u[i] = values'[a + i]
  <2>1. e - a = m + 1 /\ a <= e
    BY <1>1
  <2> QED
    BY <2>1, PartType DEF NewPart
<1>4. u[m + 1] = values'[e]
  <2>1. a + (m + 1) = e /\ m + 1 \in 1..(m + 1)
    BY <1>1
  <2> QED
    BY <1>3, <2>1
<1>5. \A i \in 1..m : u[i] = v[i]
  <2> TAKE i \in 1..m
  <2>1. a + i \in (a + 1)..b /\ i \in 1..(m + 1)
    BY <1>1
  <2> QED
    BY <1>2, <1>3, <2>1 DEF Agree
<1> HIDE DEF u, v
<1>6. u = Append(v, u[m + 1]) /\ u # <<>> /\ Abstract!Last(u) = u[m + 1] /\ Abstract!Front(u) = v
  BY <1>1, <1>2, <1>3, <1>5, OneLonger
<1> QED
  BY <1>4, <1>6 DEF u, v

LEMMA ValuesReplaced ==
    ASSUME NEW p, NEW v, NEW a, NEW b, NEW r, r = [pos |-> p, vals |-> v, armed |-> a, by |-> b], NEW w
    PROVE  /\ [r EXCEPT !.vals = w] = [pos |-> p, vals |-> w, armed |-> a, by |-> b]
           /\ r.pos = p /\ r.vals = v /\ r.armed = a /\ r.by = b
OBVIOUS

LEMMA EndNativeShows ==
    ASSUME IInv, IInv', EndNative
    PROVE  Abstract!Next
<1>1. PICK result \in Plain :
          /\ InNative /\ values' = Append(values, result) /\ natives' = Front(natives) /\ inNative' = FALSE
          /\ UNCHANGED <<frames, framePointer, pc, phase, settled, objects>>
  BY DEF EndNative
<1>2. PICK m \in Nat :
          /\ m + 1 = Len(natives) /\ natives \in Seq(Native) /\ natives[m + 1].depth = Len(frames)
          /\ pc = natives[m + 1].prev /\ natives' = SubSeq(natives, 1, m)
  <2>1. natives # <<>> /\ natives \in Seq(Native) /\ natives[Len(natives)].depth = Len(frames)
        /\ pc = natives[Len(natives)].prev
    BY <1>1, TypeFacts DEF IInv, TypeOK, NativesMatchFrames, InNative
  <2>2. Len(natives) \in Nat /\ Len(natives) # 0
    BY <2>1, TypeFacts DEF IInv
  <2>3. Len(natives) - 1 \in Nat /\ (Len(natives) - 1) + 1 = Len(natives)
    BY <2>2
  <2> QED
    BY <1>1, <2>1, <2>3 DEF Front
<1>3. /\ DOMAIN natives = 1..(m + 1) /\ DOMAIN natives' = 1..m /\ \A j \in 1..m : natives'[j] = natives[j]
      /\ natives[m + 1] \in Native
  BY <1>2
<1>4. ~AtExit /\ ~AtExit' /\ Control = "native" /\ Control' = "code"
  <2>1. pc # ExitPos
    BY <1>2, <1>3 DEF Native
  <2> QED
    BY <1>1, <2>1 DEF Control, AtExit, Live, InNative
<1>5. result \in Value /\ values \in Seq(Value)
  BY ValueFacts DEF IInv, TypeOK
<1>6. PICK l \in Nat :
          /\ l = Len(values) /\ Len(values') = l + 1 /\ Owned = l /\ Owned' = l + 1
          /\ values' \in Seq(Value) /\ values'[l + 1] = result /\ \A i \in 1..l : values'[i] = values[i]
  BY <1>1, <1>4, <1>5 DEF Owned
<1>7. CASE frames = <<>>
  <2>1. ActsFacts /\ ActsFacts'
    BY ActsShape, PTL
  <2>2. Acts = <<>> /\ Acts' = <<>>
    BY <1>1, <1>7, <2>1 DEF ActsFacts
  <2>3. Ground = SubSeq(values, 1, l) /\ Ground' = SubSeq(values', 1, l + 1)
    BY <1>1, <1>6, <1>7 DEF Ground
  <2>4. Abstract!Front(Ground') = Ground
    <3>1. PICK e \in Nat : e = l + 1
      BY <1>6
    <3>2. Agree(0 + 1, l)
      BY <1>6 DEF Agree
    <3>3. 0 <= l /\ e <= Len(values') /\ l <= Len(values)
      BY <1>6, <3>1
    <3>4. Abstract!Front(NewPart(0, e)) = Part(0, l)
      BY <1>5, <1>6, <3>1, <3>2, <3>3, PartGrows
    <3>5. 0 + 1 = 1
      OBVIOUS
    <3> QED
      BY <2>3, <3>1, <3>4, <3>5, Zenon DEF NewPart, Part
  <2> QED
    BY <1>1, <1>4, <2>2, <2>4 DEF Abstract!EndNative, Abstract!Next
<1>8. CASE frames # <<>>
  <2>1. ActsFacts /\ TopFacts /\ ActsFacts' /\ TopFacts'
    BY ActsShape, TopShape, PTL
  <2>2. PICK n \in Nat : n = Len(frames) /\ n = Len(frames') /\ n \in 1..n
    BY <1>1, <1>8, <2>1 DEF ActsFacts, TopFacts
  <2>3. SameBelow(n)
    <3>1. ASSUME NEW d \in 0..(n - 1)
          PROVE  NativesAt(d)' = NativesAt(d) /\ \A j \in NativesAt(d) : natives'[j].prev = natives[j].prev
      <4>1. d # n
        BY <2>2
      <4>2. \A j \in 1..(m + 1) : j \in 1..m \/ j = m + 1
        OBVIOUS
      <4>3. \A j \in 1..m : j \in 1..(m + 1)
        OBVIOUS
      <4> QED
        BY <1>2, <1>3, <2>2, <4>1, <4>2, <4>3 DEF NativesAt
    <3> QED
      BY <1>1, <1>8, <2>2, <3>1, SameFrames
  <2>4. framePointer \in Nat /\ framePointer <= l /\ Base(1) \in Nat /\ Base(1) <= framePointer
    BY <1>6, <1>8, <2>1 DEF TopFacts
  <2>5. Agree(1, Base(1)) /\ Agree(Base(1) + 1, framePointer)
    BY <1>6, <2>4 DEF Agree
  <2>6. GoesOnAt(n)' = GoesOnAt(n)
    BY <1>1, <1>4, <2>2 DEF GoesOnAt
  <2>7. Part(framePointer, Owned)' = Append(Part(framePointer, Owned), result)
        /\ Abstract!Last(Part(framePointer, Owned)') = result
    <3>1. PICK e \in Nat : e = l + 1
      BY <1>6
    <3>2. Agree(framePointer + 1, l)
      BY <1>6, <2>4 DEF Agree
    <3>3. e <= Len(values') /\ l <= Len(values)
      BY <1>6, <3>1
    <3>4. NewPart(framePointer, e) = Append(Part(framePointer, l), values'[e])
          /\ Abstract!Last(NewPart(framePointer, e)) = values'[e]
      <4>1. values \in Seq(Value) /\ values' \in Seq(Value)
        BY <1>5, <1>6
      <4>2. framePointer \in Nat /\ framePointer <= l
        BY <2>4
      <4> QED
        BY <3>1, <3>2, <3>3, <4>1, <4>2, PartGrows
    <3>5. Part(framePointer, Owned)' = NewPart(framePointer, e)
      BY <1>1, <1>6, <3>1 DEF Part, NewPart
    <3> QED
      BY <1>6, <3>1, <3>4, <3>5
  <2>8. /\ Acts' = Abstract!Front(Acts) \o <<Acts'[n]>> /\ Ground' = Ground
        /\ Acts'[n] = [pos |-> GoesOnAt(n), vals |-> Part(framePointer, Owned)',
                       armed |-> frames'[n].armed, by |-> EnteredBy(n)]
        /\ Acts[n] = [pos |-> GoesOnAt(n), vals |-> Part(framePointer, Owned),
                      armed |-> frames[n].armed, by |-> EnteredBy(n)]
        /\ Abstract!Last(Acts) = Acts[n] /\ Acts # <<>>
        /\ Len(Acts') = n
    BY <1>8, <2>2, <2>3, <2>5, <2>6, OnlyTop
  <2>9. Acts'[n] = [Abstract!Top EXCEPT !.vals = Append(@, result)]
    <3>1. frames'[n].armed = frames[n].armed
      BY <1>1
    <3>2. Abstract!Top = Acts[n]
      BY <2>8 DEF Abstract!Top
    <3>3. PICK old : old = Part(framePointer, Owned)
      OBVIOUS
    <3>4. PICK new : new = Part(framePointer, Owned)' /\ new = Append(old, result)
      BY <2>7, <3>3
    <3>5. Acts[n] = [pos |-> GoesOnAt(n), vals |-> old, armed |-> frames[n].armed, by |-> EnteredBy(n)]
      BY <2>8, <3>3
    <3>6. Acts'[n] = [pos |-> GoesOnAt(n), vals |-> new, armed |-> frames[n].armed, by |-> EnteredBy(n)]
      BY <2>8, <3>1, <3>4
    <3>7. [Acts[n] EXCEPT !.vals = Append(Acts[n].vals, result)]
              = [pos |-> GoesOnAt(n), vals |-> new, armed |-> frames[n].armed, by |-> EnteredBy(n)]
      <4>1. PICK r : r = Acts[n]
        OBVIOUS
      <4>2. PICK by : by = EnteredBy(n)
        OBVIOUS
      <4>3. PICK pos : pos = GoesOnAt(n)
        OBVIOUS
      <4>4. PICK armed : armed = frames[n].armed
        OBVIOUS
      <4>5. r = [pos |-> pos, vals |-> old, armed |-> armed, by |-> by]
        BY <3>5, <4>1, <4>2, <4>3, <4>4
      <4>6. [r EXCEPT !.vals = new] = [pos |-> pos, vals |-> new, armed |-> armed, by |-> by] /\ r.vals = old
        BY <4>5, ValuesReplaced
      <4> QED
        BY <3>4, <4>1, <4>2, <4>3, <4>4, <4>6
    <3> QED
      BY <3>2, <3>6, <3>7
  <2>10. Abstract!Last(Abstract!Last(Acts').vals) = result
    BY <2>2, <2>7, <2>8 DEF Abstract!Last
  <2>11. Acts' = Abstract!Front(Acts) \o
                     <<[Abstract!Top EXCEPT !.vals = Append(@, Abstract!Last(Abstract!Last(Acts').vals))]>>
    BY <2>8, <2>9, <2>10
  <2> QED
    BY <1>1, <1>4, <2>8, <2>11 DEF Abstract!EndNative, Abstract!Next
<1> QED
  BY <1>7, <1>8

-----------------------------------------------------------------------------
(* Entering *)

\* The newest native started at its frame: it alone lies there.
LEMMA NewestNative ==
    ASSUME IInv, natives # <<>>, natives[Len(natives)].depth = Len(frames)
    PROVE  NativesAt(Len(frames)) = {Len(natives)}
<1>1. PICK m \in Nat : m = Len(natives) /\ m \in 1..m /\ DOMAIN natives = 1..m
  <2>1. PICK m \in Nat : m = Len(natives) /\ m # 0 /\ DOMAIN natives = 1..m
    BY TypeFacts DEF IInv
  <2> QED
    BY <2>1
<1>2. ASSUME NEW j \in 1..m, j # m
      PROVE  natives[j].depth # Len(frames)
  <2>1. j < m
    BY <1>1, <1>2
  <2>2. natives[j].depth < natives[m].depth
    BY <1>1, <2>1 DEF IInv, NativesMatchFrames
  <2>3. natives[j].depth \in Nat /\ natives[m].depth \in Nat
    BY <1>1, TypeFacts DEF IInv
  <2> QED
    BY <1>1, <2>2, <2>3
<1> QED
  BY <1>1, <1>2 DEF NativesAt

\* A part of the vector that ends earlier is the beginning of the longer part.
LEMMA PartPrefix ==
    ASSUME values \in Seq(Value), NEW a \in Nat, NEW b \in Nat, NEW c \in Nat,
           a <= b, b <= c, c <= Len(values)
    PROVE  Abstract!IsPrefix(Part(a, b), Part(a, c))
<1>1. PICK m \in Nat, l \in Nat : m = b - a /\ l = c - a
  BY PartType
<1>2. /\ Part(a, b) \in Seq(Value) /\ Len(Part(a, b)) = m /\ \A i \in 1..m : Part(a, b)[i] = values[a + i]
      /\ Part(a, c) \in Seq(Value) /\ Len(Part(a, c)) = l /\ \A i \in 1..l : Part(a, c)[i] = values[a + i]
  <2>1. a <= c /\ b <= Len(values)
    OBVIOUS
  <2> QED
    BY <1>1, <2>1, PartType DEF Part
<1>3. m <= l /\ \A i \in 1..m : i \in 1..l
  BY <1>1
<1>4. \A i \in 1..m : Part(a, b)[i] = Part(a, c)[i]
  BY <1>2, <1>3
<1> DEFINE u == Part(a, b)
           v == Part(a, c)
<1>5. u \in Seq(Value) /\ v \in Seq(Value) /\ Len(u) = m /\ Len(v) = l /\ \A i \in 1..m : u[i] = v[i]
  BY <1>2, <1>4
<1> HIDE DEF u, v
<1>6. SubSeq(u, 1, m) = SubSeq(v, 1, m)
  BY <1>3, <1>5, SameWindow
<1>7. Abstract!IsPrefix(u, v)
  BY <1>3, <1>5, <1>6 DEF Abstract!IsPrefix
<1> QED
  BY <1>7 DEF u, v

\* What entering a function shows of the code or native that enters it.
Entering(f, ret, b) ==
    /\ frames' = Append(frames, FrameOf(ret, framePointer, FALSE, f)) /\ framePointer' = b
    /\ pc' \in FunctionPos /\ inNative' = FALSE /\ natives' = natives
    /\ Keeps(b, values') /\ b <= Len(values)
    /\ FromCode(ret, b) \/ FromNative(ret, b) \/ FromHost(ret, b)

LEMMA EnterControl ==
    ASSUME IInv, NEW f \in Functions, NEW ret, NEW b \in Nat, Entering(f, ret, b)
    PROVE  /\ Control' = "code" /\ ~AtExit /\ ~AtExit' /\ Owned = Len(values) /\ Owned' = Len(values')
           /\ framePointer <= b /\ b <= Owned
           /\ FromCode(ret, b) => Control = "code" /\ ret # ExitPos /\ ret = pc
           /\ FromNative(ret, b) =>
                  /\ Control = "native" /\ ret = ExitPos /\ b = Owned /\ natives # <<>>
                  /\ natives[Len(natives)].depth = Len(frames) /\ pc = natives[Len(natives)].prev
           /\ FromHost(ret, b) =>
                  Control = "host" /\ ret = ExitPos /\ b = Owned /\ frames = <<>> /\ natives = <<>>
<1>1. /\ pc' # ExitPos /\ Live' /\ inNative' = FALSE
  BY PositionFacts DEF Entering, FromCode, FromNative, FromHost, InCode, InNative, Running, Live
<1>2. Control' = "code" /\ ~AtExit'
  BY <1>1 DEF Control, AtExit
<1>3. /\ Len(values) \in Nat /\ framePointer \in Nat /\ values' \in Seq(Value) /\ b <= Len(values')
      /\ framePointer <= Owned /\ Owned <= Len(values) /\ Owned \in Nat
  BY BaseFacts, TypeFacts DEF IInv, Entering, Keeps
<1>4. ~AtExit
  <2>1. CASE FromCode(ret, b)
    BY <2>1 DEF FromCode, InCode, Running, AtExit
  <2>2. CASE FromNative(ret, b)
    <3>1. natives # <<>> /\ pc = natives[Len(natives)].prev
      BY <2>2 DEF FromNative, InNative, IInv, NativesMatchFrames
    <3>2. Len(natives) \in 1..Len(natives)
      BY <3>1, TypeFacts DEF IInv
    <3> QED
      BY <3>1, <3>2, TypeFacts DEF IInv, AtExit
  <2>3. CASE FromHost(ret, b)
    BY <2>3 DEF FromHost, IInv, NativesMatchFrames, Live
  <2> QED
    BY <2>1, <2>2, <2>3 DEF Entering
<1>5. Owned = Len(values) /\ Owned' = Len(values')
  <2>1. Len(values') \in Nat
    BY <1>3
  <2> QED
    BY <1>2, <1>3, <1>4, <2>1 DEF Owned
<1>6. ASSUME FromCode(ret, b)
      PROVE  Control = "code" /\ ret # ExitPos /\ ret = pc /\ framePointer <= b /\ b <= Owned
  <2>1. Control = "code" /\ ret # ExitPos /\ ret = pc
    BY <1>6 DEF FromCode, InCode, Running, Control, Live, AtExit
  <2>2. framePointer <= b
    BY <1>3, <1>6, SlotsType, TypeFacts DEF FromCode, IInv
  <2>3. b <= Owned
    BY <1>5 DEF Entering
  <2> QED
    BY <2>1, <2>2, <2>3
<1>7. ASSUME FromNative(ret, b)
      PROVE  /\ Control = "native" /\ ret = ExitPos /\ b = Owned /\ natives # <<>>
             /\ natives[Len(natives)].depth = Len(frames) /\ pc = natives[Len(natives)].prev
             /\ framePointer <= b /\ b <= Owned
  BY <1>3, <1>4, <1>5, <1>7 DEF FromNative, InNative, Control, Live, IInv, NativesMatchFrames
<1>8. ASSUME FromHost(ret, b)
      PROVE  /\ Control = "host" /\ ret = ExitPos /\ b = Owned /\ frames = <<>> /\ natives = <<>>
             /\ framePointer <= b /\ b <= Owned
  <2>1. Len(values) = settled /\ frames = <<>> /\ natives = <<>>
    BY <1>8 DEF FromHost, IInv, HostFindsStackClean
  <2> QED
    BY <1>3, <1>5, <1>8, <2>1 DEF FromHost, Control, Live
<1> QED
  BY <1>2, <1>4, <1>5, <1>6, <1>7, <1>8 DEF Entering

LEMMA EnterShows ==
    ASSUME IInv, IInv', NEW f \in Functions, NEW ret, NEW b \in Nat, Entering(f, ret, b)
    PROVE  /\ Abstract!CallerGivesArguments
           /\ Abstract!Last(Acts') =
                  [pos |-> pc', vals |-> NewPart(b, Len(values')), armed |-> FALSE, by |-> Control]
           /\ Acts # <<>> =>
                  /\ Acts'[Len(Acts)].vals = Part(framePointer, b)
                  /\ Abstract!Top.vals = Part(framePointer, Len(values))
                  /\ framePointer \in Nat /\ framePointer <= b
           /\ Control' = "code"
<1>1. ActsFacts /\ ActsFacts' /\ TopFacts /\ TopFacts'
  BY ActsShape, TopShape, PTL
<1>2. PICK n \in Nat :
          /\ n = Len(frames) /\ Len(frames') = n + 1 /\ frames'[n + 1] = FrameOf(ret, framePointer, FALSE, f)
          /\ \A i \in 1..n : frames'[i] = frames[i]
          /\ frames' # <<>> /\ n + 1 \in 1..(n + 1) /\ n + 1 # n
          /\ Len(Acts) = n /\ Len(Acts') = n + 1 /\ Acts \in Seq(Act) /\ Acts' \in Seq(Act)
          /\ (n = 0 <=> frames = <<>>) /\ (n = 0 <=> Acts = <<>>)
  <2>1. FrameOf(ret, framePointer, FALSE, f) \in Frame
    <3>1. ret \in Position /\ framePointer \in Nat
      BY TypeFacts, PositionFacts DEF Entering, FromCode, FromNative, FromHost, IInv
    <3> QED
      BY <3>1 DEF Frame, FrameOf
  <2>2. PICK n \in Nat : n = Len(frames)
    BY <1>1 DEF ActsFacts
  <2>3. /\ Len(frames') = n + 1 /\ frames'[n + 1] = FrameOf(ret, framePointer, FALSE, f)
        /\ \A i \in 1..n : frames'[i] = frames[i]
        /\ frames' # <<>>
    BY <2>1, <2>2, FramesAppend DEF Entering, IInv, TypeOK
  <2>4. n + 1 \in 1..(n + 1) /\ n + 1 # n
    OBVIOUS
  <2> QED
    BY <1>1, <2>2, <2>3, <2>4 DEF ActsFacts
<1>3. /\ Control' = "code" /\ ~AtExit /\ ~AtExit' /\ Owned = Len(values) /\ Owned' = Len(values')
      /\ framePointer <= b /\ b <= Owned
  BY EnterControl
<1>4. /\ framePointer' = b /\ natives' = natives /\ values \in Seq(Value) /\ values' \in Seq(Value)
      /\ b <= Len(values) /\ b <= Len(values') /\ framePointer \in Nat /\ framePointer <= b
      /\ Len(values) \in Nat /\ Len(values') \in Nat
      /\ \A i \in 1..b : values'[i] = values[i]
  BY <1>3, TypeFacts DEF Entering, Keeps, IInv, TypeOK
<1>5. Acts'[n + 1] = [pos |-> pc', vals |-> NewPart(b, Len(values')), armed |-> FALSE, by |-> Control]
  <2>1. EnteredBy(n + 1)' = Control
    <3>0. frames'[n + 1].ret = ret /\ (n + 1) - 1 = n /\ NativesAt(n)' = NativesAt(n)
      BY <1>2, <1>4 DEF FrameOf, NativesAt
    <3>1. CASE FromCode(ret, b)
      BY <3>0, <3>1, EnterControl DEF EnteredBy
    <3>2. CASE FromNative(ret, b)
      <4>1. NativesAt(n) # {}
        BY <1>2, <3>2, EnterControl, NewestNative
      <4> QED
        BY <3>0, <3>2, <4>1, EnterControl DEF EnteredBy
    <3>3. CASE FromHost(ret, b)
      <4>1. natives = <<>>
        BY <3>3, EnterControl
      <4>2. NativesAt(n) = {}
        BY <4>1 DEF NativesAt
      <4> QED
        BY <3>0, <3>3, <4>2, EnterControl DEF EnteredBy
    <3> QED
      BY <3>1, <3>2, <3>3 DEF Entering
  <2>2. GoesOnAt(n + 1)' = pc'
    BY <1>2, <1>3 DEF GoesOnAt
  <2>3. /\ Acts'[n + 1] = [pos |-> GoesOnAt(n + 1)', vals |-> Part(framePointer, Owned)',
                           armed |-> frames'[n + 1].armed, by |-> EnteredBy(n + 1)']
    BY <1>1, <1>2 DEF TopFacts
  <2>4. Part(framePointer, Owned)' = NewPart(b, Len(values'))
    BY <1>3, <1>4 DEF Part, NewPart
  <2>5. frames'[n + 1].armed = FALSE
    BY <1>2 DEF FrameOf
  <2> QED
    BY <2>1, <2>2, <2>3, <2>4, <2>5
<1>6. Abstract!Last(Acts') = Acts'[n + 1]
  BY <1>2 DEF Abstract!Last
<1>7. CASE frames = <<>>
  <2>1. Acts = <<>> /\ n = 0
    BY <1>2, <1>7
  <2>2. Ground' = NewPart(0, b) /\ Ground = Part(0, Owned)
    <3>1. Ground' = SubSeq(values', 1, framePointer')
      <4>1. 1 = Len(frames') /\ frames' # <<>>
        BY <1>2, <2>1
      <4>2. Base(1)' = framePointer'
        BY <4>1 DEF Base
      <4> QED
        BY <4>1, <4>2, Zenon DEF Ground
    <3>2. Ground = SubSeq(values, 1, Owned)
      BY <1>7 DEF Ground
    <3>3. 0 + 1 = 1
      OBVIOUS
    <3> QED
      BY <1>4, <3>1, <3>2, <3>3, Zenon DEF NewPart, Part
  <2>3. NewPart(0, b) = Part(0, b)
    BY <1>4, PartStays DEF Agree
  <2>4. Abstract!IsPrefix(Ground', Ground)
    <3>1. 0 <= b
      OBVIOUS
    <3>2. Abstract!IsPrefix(Part(0, b), Part(0, Len(values)))
      BY <1>4, <3>1, PartPrefix
    <3> QED
      BY <1>3, <2>2, <2>3, <3>2
  <2>5. Control # "code" => Ground' = Ground /\ Abstract!Front(Acts') = Acts
    <3>1. Control # "code" => b = Owned
      BY EnterControl DEF Entering
    <3>2. Abstract!Front(Acts') = <<>>
      <4>1. Len(Acts') = 1 /\ Len(Acts') - 1 = 0
        BY <1>2, <2>1
      <4> QED
        BY <1>2, <4>1 DEF Abstract!Front
    <3> QED
      BY <2>1, <2>2, <2>3, <3>1, <3>2
  <2>6. Abstract!CallerGivesArguments
    BY <1>2, <1>3, <1>5, <1>6, <2>1, <2>4, <2>5 DEF Abstract!CallerGivesArguments
  <2> QED
    BY <1>3, <1>5, <1>6, <2>1, <2>6
<1>8. CASE frames # <<>>
  <2>1. n \in 1..n /\ n \in 1..(n + 1) /\ Acts # <<>> /\ n # n + 1
    BY <1>2, <1>8
  <2>2. SameBelow(n)
    <3>1. Base(n)' = framePointer /\ Base(n) = framePointer
      BY <1>2 DEF Base, FrameOf
    <3>2. \A i \in 1..n : i \in 1..(n + 1)
      OBVIOUS
    <3>3. \A i \in 1..(n - 1) : i \in 1..n
      OBVIOUS
    <3>4. \A d \in 0..(n - 1) :
              NativesAt(d)' = NativesAt(d) /\ \A j \in NativesAt(d) : natives'[j].prev = natives[j].prev
      BY <1>4, SameNatives
    <3> QED
      BY <1>2, <2>1, <3>1, <3>2, <3>3, <3>4 DEF SameBelow
  <2>3. /\ framePointer \in Nat /\ framePointer <= Owned /\ Base(1) \in Nat /\ Base(1) <= framePointer
        /\ Abstract!Last(Acts) = Acts[n] /\ Abstract!Front(Acts) = SubSeq(Acts, 1, n - 1)
        /\ Acts[n] = [pos |-> GoesOnAt(n), vals |-> Part(framePointer, Owned),
                      armed |-> frames[n].armed, by |-> EnteredBy(n)]
        /\ Base(n) = framePointer
    BY <1>1, <1>2, <1>8 DEF TopFacts, Base
  <2>4. Agree(1, Base(1)) /\ Agree(Base(1) + 1, Base(n)) /\ Agree(framePointer + 1, b)
    BY <1>4, <2>3 DEF Agree
  <2>5. Acts[n].by = Acts'[n].by /\ Ground' = Ground /\ \A i \in 1..(n - 1) : Acts'[i] = Acts[i]
    BY <2>2, <2>4, BelowStays
  <2>6. GoesOnAt(n)' = GoesOnAt(n)
    <3>0. frames'[n + 1].ret = ret /\ GoesOnAt(n) = pc
      BY <1>2, <1>3 DEF FrameOf, GoesOnAt
    <3>1. CASE FromCode(ret, b)
      BY <1>2, <2>1, <3>0, <3>1, EnterControl DEF GoesOnAt
    <3>2. CASE FromNative(ret, b)
      <4>1. NativesAt(n) = {Len(natives)} /\ pc = natives[Len(natives)].prev /\ ret = ExitPos
        BY <1>2, <3>2, EnterControl, NewestNative
      <4>2. NativesAt(n)' = {Len(natives)}
        BY <1>4, <4>1 DEF NativesAt
      <4>3. (CHOOSE j \in NativesAt(n) : TRUE)' = Len(natives)
        BY <4>2
      <4>4. GoesOnAt(n)' = natives'[(CHOOSE j \in NativesAt(n) : TRUE)'].prev
        BY <1>2, <2>1, <3>0, <4>1 DEF GoesOnAt
      <4> QED
        BY <1>4, <3>0, <4>1, <4>3, <4>4
    <3>3. CASE FromHost(ret, b)
      BY <1>8, <3>3, EnterControl
    <3> QED
      BY <3>1, <3>2, <3>3 DEF Entering
  <2>7. Acts'[n] = [pos |-> GoesOnAt(n)', vals |-> NewPart(framePointer, b),
                    armed |-> frames[n].armed, by |-> EnteredBy(n)']
    <3>1. Acts'[n] = ActivationAt(n)'
      BY <1>1, <1>2, <2>1 DEF ActsFacts
    <3>2. Base(n)' = framePointer /\ Base(n + 1)' = b
      BY <1>2, <1>4, <2>2, <2>3 DEF Base, SameBelow
    <3>3. frames'[n].armed = frames[n].armed
      BY <1>2, <2>1
    <3> QED
      BY <1>2, <2>1, <3>1, <3>2, <3>3 DEF ActivationAt, NewPart
  <2>8. NewPart(framePointer, b) = Part(framePointer, b)
    BY <1>4, <2>4, PartStays
  <2>9. PICK pos, old, new, armed, by :
            /\ Acts[n] = [pos |-> pos, vals |-> old, armed |-> armed, by |-> by]
            /\ Acts'[n] = [pos |-> pos, vals |-> new, armed |-> armed, by |-> by]
            /\ old = Part(framePointer, Owned) /\ new = Part(framePointer, b)
    <3>1. EnteredBy(n)' = EnteredBy(n)
      BY <2>3, <2>5, <2>7
    <3> QED
      BY <2>3, <2>6, <2>7, <2>8, <3>1
  <2>10. /\ Acts[n].vals = old /\ Acts'[n].vals = new /\ [Acts[n] EXCEPT !.vals = new] = Acts'[n]
    BY <2>9, ValuesReplaced
  <2>11. Abstract!IsPrefix(new, old)
    BY <1>3, <1>4, <2>9, PartPrefix
  <2>12. SubSeq(Acts', 1, n - 1) = Abstract!Front(Acts)
    <3>1. n - 1 \in Nat /\ n - 1 <= n /\ n - 1 <= n + 1
      BY <2>1
    <3> QED
      BY <1>2, <2>3, <2>5, <3>1, SameWindow
  <2>13. Control # "code" => Abstract!Front(Acts') = Acts
    <3>1. Control # "code" => b = Owned
      BY EnterControl DEF Entering
    <3>2. b = Owned => Acts'[n] = Acts[n]
      BY <2>9
    <3>3. (n + 1) - 1 = n /\ n <= n + 1
      OBVIOUS
    <3>4. SubSeq(Acts', 1, n) \in Seq(Act) /\ Len(SubSeq(Acts', 1, n)) = n
          /\ \A i \in 1..n : SubSeq(Acts', 1, n)[i] = Acts'[i]
      <4>1. n \in 0..Len(Acts')
        BY <1>2, <2>1
      <4> QED
        BY <1>2, <4>1, CutType
    <3>5. \A i \in 1..n : i \in 1..(n - 1) \/ i = n
      BY <2>1
    <3>6. b = Owned => SubSeq(Acts', 1, n) = Acts
      BY <1>2, <2>5, <3>2, <3>4, <3>5, SameSequence
    <3> QED
      BY <1>2, <3>1, <3>3, <3>6 DEF Abstract!Front
  <2>14. Abstract!Top = Acts[n]
    BY <2>3 DEF Abstract!Top
  <2>15. Abstract!CallerGivesArguments
    <3>1. /\ Abstract!IsPrefix(Acts'[n].vals, Abstract!Top.vals)
          /\ Acts'[n] = [Abstract!Top EXCEPT !.vals = Acts'[n].vals]
      BY <2>10, <2>11, <2>14
    <3>2. Abstract!Last(Acts').by = Control /\ Abstract!Last(Acts').armed = FALSE
      BY <1>5, <1>6
    <3> QED
      BY <1>2, <1>3, <2>1, <2>5, <2>12, <2>13, <3>1, <3>2 DEF Abstract!CallerGivesArguments
  <2> QED
    BY <1>2, <1>3, <1>4, <1>5, <1>6, <2>9, <2>10, <2>14, <2>15
<1> QED
  BY <1>7, <1>8

LEMMA FieldsOf ==
    ASSUME NEW p, NEW v, NEW a, NEW b, NEW r, r = [pos |-> p, vals |-> v, armed |-> a, by |-> b]
    PROVE  r.pos = p /\ r.vals = v /\ r.armed = a /\ r.by = b
OBVIOUS

LEMMA EnterFields ==
    ASSUME IInv, IInv', NEW f \in Functions, NEW ret, NEW b \in Nat, Entering(f, ret, b)
    PROVE  /\ Abstract!Last(Acts').pos = pc'
           /\ Abstract!Last(Acts').vals = NewPart(b, Len(values'))
<1>1. PICK r, pos, vals, by :
          /\ pos = pc' /\ vals = NewPart(b, Len(values')) /\ by = Control
          /\ r = Abstract!Last(Acts') /\ r = [pos |-> pos, vals |-> vals, armed |-> FALSE, by |-> by]
  BY EnterShows
<1>2. r.pos = pos /\ r.vals = vals
  BY <1>1, FieldsOf
<1> QED
  BY <1>1, <1>2

-----------------------------------------------------------------------------
(* Coroutines are resumed *)

LEMMA JoinedPart ==
    ASSUME NEW S, NEW s \in Seq(S), NEW t \in Seq(S), NEW u, u = s \o t
    PROVE  SubSeq(u, Len(s) + 1, Len(u)) = t
<1>1. PICK m \in Nat, l \in Nat : m = Len(s) /\ l = Len(t)
  OBVIOUS
<1>2. u \in Seq(S) /\ Len(u) = m + l /\ \A i \in 1..l : u[m + i] = t[i]
  BY <1>1
<1>3. /\ SubSeq(u, m + 1, m + l) \in Seq(S) /\ Len(SubSeq(u, m + 1, m + l)) = l
      /\ \A i \in 1..l : SubSeq(u, m + 1, m + l)[i] = u[m + i]
  <2>1. PICK c \in Nat : c = m + l
    OBVIOUS
  <2>2. u \in Seq(S) /\ m <= c /\ c <= Len(u) /\ c - m = l
    BY <1>2, <2>1
  <2>3. /\ SubSeq(u, m + 1, c) \in Seq(S) /\ Len(SubSeq(u, m + 1, c)) = c - m
        /\ \A i \in 1..(c - m) : SubSeq(u, m + 1, c)[i] = u[m + i]
    BY <2>2, PartType, Zenon
  <2> QED
    BY <2>1, <2>2, <2>3
<1>4. SubSeq(u, m + 1, m + l) = t
  <2>1. PICK w : w = SubSeq(u, m + 1, m + l)
    OBVIOUS
  <2>2. w \in Seq(S) /\ Len(w) = Len(t) /\ \A i \in 1..Len(t) : w[i] = t[i]
    BY <1>1, <1>2, <1>3, <2>1
  <2>3. w = t
    BY <2>2, SameSequence
  <2> QED
    BY <2>1, <2>3
<1> QED
  BY <1>1, <1>2, <1>4

LEMMA ResumeShows ==
    ASSUME IInv, IInv', NEW i \in DOMAIN objects, objects[i].kind = "coroutine",
           NEW ret, NEW vals \in Seq(Value), Entering(objects[i].context, ret, Len(vals)),
           values' = vals \o objects[i].locals, pc' = objects[i].resume, UNCHANGED objects
    PROVE  Abstract!Next
<1>1. objects[i].context \in Functions /\ objects[i].locals \in Seq(Value) /\ Len(vals) \in Nat
  BY ObjectFacts
<1>2. NewPart(Len(vals), Len(values')) = objects[i].locals
  BY <1>1, JoinedPart DEF NewPart
<1>3. /\ Abstract!CallerGivesArguments
      /\ Abstract!Last(Acts') =
             [pos |-> pc', vals |-> NewPart(Len(vals), Len(values')), armed |-> FALSE, by |-> Control]
  BY <1>1, EnterShows
<1>4. Abstract!Last(Acts').pos = objects[i].resume /\ Abstract!Last(Acts').vals = objects[i].locals
  BY <1>2, <1>3
<1>5. Abstract!Resume
  BY <1>3, <1>4 DEF Abstract!Resume
<1> QED
  BY <1>5 DEF Abstract!Next

LEMMA InvokeCoroutineShows ==
    ASSUME IInv, IInv', InvokeCoroutine
    PROVE  Abstract!Next
<1>1. /\ InCode /\ HasTemporaries(1) /\ IsA(Last(values), "coroutine")
      /\ UNCHANGED <<phase, natives, inNative, settled, objects>>
  BY DEF InvokeCoroutine
<1>2. PICK id \in DOMAIN objects :
          /\ objects[id].kind = "coroutine"
          /\ RestoreFrame(Below(1), pc, objects[id].context, objects[id].locals)
          /\ pc' = objects[id].resume
  BY <1>1 DEF InvokeCoroutine, IsA, ObjectOf
<1>3. /\ Below(1) \in Seq(Value) /\ framePointer + Slots(pc) <= Len(Below(1))
      /\ Len(Below(1)) = Len(values) - 1 /\ Len(values) \in Nat /\ Len(Below(1)) \in Nat
  BY <1>1, TemporariesFacts, TypeFacts DEF IInv
<1>4. objects[id].context \in Functions /\ objects[id].locals \in Seq(Value) /\ objects[id].resume \in FunctionPos
  BY <1>2, ObjectFacts
<1>5. Keeps(Len(Below(1)), values')
  <2>1. Keeps(Len(Below(1)), Below(1))
    <3>1. PICK b \in Nat : b = Len(Below(1)) /\ b <= Len(values) /\ b <= b /\ b = Len(values) - 1
      BY <1>3
    <3>2. Keeps(b, values)
      BY <3>1, AllKeeps DEF IInv
    <3>3. Keeps(b, SubSeq(values, 1, b))
      BY <3>1, <3>2, CutKeeps
    <3> QED
      BY <3>1, <3>3 DEF Below
  <2> QED
    BY <1>2, <1>4, <2>1, JoinKeeps DEF RestoreFrame
<1>6. Entering(objects[id].context, pc, Len(Below(1)))
  <2>1. FromCode(pc, Len(Below(1)))
    BY <1>1, <1>3 DEF FromCode
  <2>2. inNative' = FALSE
    BY <1>1 DEF InCode, Running, IInv, TypeOK
  <2>3. Len(Below(1)) <= Len(values)
    BY <1>3
  <2> QED
    BY <1>1, <1>2, <1>4, <1>5, <2>1, <2>2, <2>3 DEF Entering, RestoreFrame
<1>7. values' = Below(1) \o objects[id].locals
  BY <1>2 DEF RestoreFrame
<1> QED
  BY <1>1, <1>2, <1>3, <1>6, <1>7, ResumeShows

LEMMA RunCoroutineShows ==
    ASSUME NoShapes, IInv, IInv', RunCoroutine
    PROVE  Abstract!Next
<1>1. PICK id \in DOMAIN objects : RunCoroutine!(id)
  BY DEF RunCoroutine
<1>2. /\ InNative /\ objects[id].kind = "coroutine"
      /\ FrameSize[objects[id].context] = 0
      /\ PushFrame(values, ExitPos, 0, objects[id].context, objects[id].locals)
      /\ pc' = objects[id].resume /\ inNative' = FALSE /\ UNCHANGED <<phase, natives, settled, objects>>
  BY <1>1 DEF NoShapes, IsA, ObjectOf, ReturnToLoop
<1>3. objects[id].context \in Functions /\ objects[id].locals \in Seq(Value) /\ objects[id].resume \in FunctionPos
  BY <1>2, ObjectFacts
<1>4. values \in Seq(Value) /\ Len(values) \in Nat
  BY DEF IInv, TypeOK
<1>5. values' = values \o objects[id].locals /\ framePointer' = Len(values)
  <2>1. Nulls(0) = <<>>
    BY DEF Nulls
  <2>2. values \o Nulls(0) = values
    BY <1>4, <2>1
  <2>3. values' = (values \o Nulls(0)) \o objects[id].locals /\ framePointer' = Len(values) - 0
    BY <1>2 DEF PushFrame
  <2>4. Len(values) - 0 = Len(values)
    BY <1>4
  <2> QED
    BY <2>2, <2>3, <2>4
<1>6. Keeps(Len(values), values')
  <2>1. Len(values) <= Len(values)
    BY <1>4
  <2> QED
    BY <1>3, <1>4, <1>5, <2>1, AllKeeps, JoinKeeps DEF IInv
<1>7. Entering(objects[id].context, ExitPos, Len(values))
  BY <1>2, <1>3, <1>4, <1>5, <1>6 DEF Entering, FromNative, PushFrame
<1> QED
  BY <1>2, <1>4, <1>5, <1>7, ResumeShows

-----------------------------------------------------------------------------
(* Functions are entered *)

LEMMA PartOfPart ==
    ASSUME values \in Seq(Value), NEW a \in Nat, NEW b \in Nat, NEW c \in Nat,
           a <= b, b <= c, c <= Len(values)
    PROVE  SubSeq(Part(a, c), Len(Part(a, b)) + 1, Len(Part(a, c))) = Part(b, c)
<1>1. PICK m \in Nat, l \in Nat : m = b - a /\ l = c - b /\ c - a = m + l /\ b = a + m
  BY PartType
<1>2. /\ Len(Part(a, b)) = m
      /\ Part(a, c) \in Seq(Value) /\ Len(Part(a, c)) = m + l
      /\ \A i \in 1..(m + l) : Part(a, c)[i] = values[a + i]
      /\ Part(b, c) \in Seq(Value) /\ Len(Part(b, c)) = l /\ \A i \in 1..l : Part(b, c)[i] = values[b + i]
  <2>1. a <= c /\ b <= Len(values)
    OBVIOUS
  <2> QED
    BY <1>1, <2>1, PartType DEF Part
<1> DEFINE u == Part(a, c)
           v == Part(b, c)
<1>3. u \in Seq(Value) /\ Len(u) = m + l /\ v \in Seq(Value) /\ Len(v) = l /\ \A i \in 1..l : u[m + i] = v[i]
  <2>1. ASSUME NEW i \in 1..l
        PROVE  u[m + i] = v[i]
    <3>1. m + i \in 1..(m + l) /\ a + (m + i) = b + i
      BY <1>1
    <3> QED
      BY <1>2, <3>1
  <2> QED
    BY <1>2, <2>1
<1> HIDE DEF u, v
<1>4. PICK w : w = SubSeq(u, m + 1, m + l)
  OBVIOUS
<1>5. w \in Seq(Value) /\ Len(w) = l /\ \A i \in 1..l : w[i] = v[i]
  <2>1. m <= m + l /\ m + l <= Len(u) /\ (m + l) - m = l /\ m + l \in Nat
    BY <1>1, <1>3
  <2> QED
    BY <1>3, <1>4, <2>1, PartType
<1>6. w = v
  BY <1>3, <1>5, SameSequence
<1> QED
  BY <1>2, <1>3, <1>4, <1>6 DEF u, v

\* What code gives to the function it enters lies above the new window's begin.
LEMMA GivenFacts ==
    ASSUME IInv, IInv', NEW f \in Functions, NEW ret, NEW b \in Nat, Entering(f, ret, b), Acts # <<>>
    PROVE  /\ Part(b, Len(values)) \in Abstract!Given
           /\ \A i \in DOMAIN objects :
                  /\ objects[i].kind = "tuple" /\ Part(b, Len(values)) # <<>>
                  /\ Abstract!Last(Part(b, Len(values))) = [ref |-> i]
                  => objects[i].items \in Abstract!Given
<1>1. /\ Acts'[Len(Acts)].vals = Part(framePointer, b)
      /\ Abstract!Top.vals = Part(framePointer, Len(values))
      /\ framePointer \in Nat /\ framePointer <= b
  BY EnterShows
<1>2. values \in Seq(Value) /\ Len(values) \in Nat /\ b <= Len(values)
  BY DEF IInv, TypeOK, Entering
<1>3. SubSeq(Abstract!Top.vals, Len(Acts'[Len(Acts)].vals) + 1, Len(Abstract!Top.vals)) = Part(b, Len(values))
  <2>1. Len(values) <= Len(values)
    BY <1>2
  <2> QED
    BY <1>1, <1>2, <2>1, PartOfPart
<1> QED
  BY <1>3 DEF Abstract!Given

LEMMA EnterNewShows ==
    ASSUME IInv, IInv', NEW f \in Functions, NEW ret, NEW b \in Nat, Entering(f, ret, b), pc' = EntryPos(f),
           Abstract!ObjectsGrow, Abstract!NoNewCoroutine,
           NEW params \in Seq(Value), NEW captured \in Seq(Value), Len(params) = CallArity(f),
           NewPart(b, Len(values')) = params \o (captured \o Nulls(FrameSize[f])),
           \/ Captures[f] = 0 /\ captured = <<>>
           \/ \E i \in DOMAIN objects :
                  objects[i].kind = "function" /\ objects[i].fx = f /\ objects[i].captured = captured,
           Control = "code" /\ Acts # <<>> =>
               \E given \in Abstract!Given :
                   /\ given \in Seq(Value) /\ Arity[f] <= Len(given)
                   /\ \A i \in 1..Arity[f] : given[i] = params[i]
    PROVE  Abstract!Next
<1>1. /\ Abstract!CallerGivesArguments
      /\ Abstract!Last(Acts') =
             [pos |-> pc', vals |-> NewPart(b, Len(values')), armed |-> FALSE, by |-> Control]
  BY EnterShows
<1>2. PICK nulls \in Seq(Value) : nulls = Nulls(FrameSize[f]) /\ nulls = Abstract!Nulls(FrameSize[f])
  <2>1. FrameSize[f] \in Nat
    BY SlotsFacts
  <2> QED
    BY <2>1, NullsType DEF Nulls, Abstract!Nulls
<1>3. PICK new \in Seq(Value) :
          /\ new = NewPart(b, Len(values')) /\ new = params \o (captured \o nulls)
          /\ Abstract!Last(Acts').vals = new /\ Abstract!Last(Acts').pos = EntryPos(f)
  <2>1. captured \o nulls \in Seq(Value)
    BY <1>2, JoinType
  <2>2. params \o (captured \o nulls) \in Seq(Value)
    BY <2>1, JoinType
  <2>3. Abstract!Last(Acts').vals = NewPart(b, Len(values')) /\ Abstract!Last(Acts').pos = EntryPos(f)
    BY EnterFields
  <2>4. NewPart(b, Len(values')) = params \o (captured \o nulls)
    BY <1>2
  <2> QED
    BY <2>2, <2>3, <2>4
<1>4. SubSeq(new, Parameters(f) + 1, Len(new)) = captured \o nulls
  <2>1. Parameters(f) = Len(params)
    BY DEF Parameters, CallArity
  <2>2. PICK rest \in Seq(Value) : rest = captured \o nulls
    BY <1>2, JoinType
  <2>3. new = params \o rest
    BY <1>3, <2>2
  <2>4. SubSeq(new, Len(params) + 1, Len(new)) = rest
    BY <2>3, JoinedPart
  <2> QED
    BY <2>1, <2>2, <2>4
<1>5. Control = "code" /\ Acts # <<>> =>
          \E given \in Abstract!Given :
              Arity[f] <= Len(given) /\ SubSeq(given, 1, Arity[f]) = SubSeq(new, 1, Arity[f])
  <2> SUFFICES ASSUME Control = "code", Acts # <<>>
               PROVE  \E given \in Abstract!Given :
                          Arity[f] <= Len(given) /\ SubSeq(given, 1, Arity[f]) = SubSeq(new, 1, Arity[f])
    OBVIOUS
  <2>1. PICK given \in Abstract!Given :
            given \in Seq(Value) /\ Arity[f] <= Len(given) /\ \A i \in 1..Arity[f] : given[i] = params[i]
    OBVIOUS
  <2>2. PICK a \in Nat : a = Arity[f] /\ a <= Len(params) /\ a <= Len(new)
    <3>1. Arity[f] \in Nat /\ Arity[f] <= CallArity(f) /\ CallArity(f) \in Nat
      BY SlotsFacts DEF CallArity
    <3>2. Len(new) = Len(params) + Len(captured \o nulls) /\ Len(captured \o nulls) \in Nat
      <4>1. captured \o nulls \in Seq(Value)
        BY <1>2, JoinType
      <4> QED
        BY <1>3, <4>1, JoinType
    <3> QED
      BY <3>1, <3>2
  <2>3. \A i \in 1..a : given[i] = new[i]
    <3>1. PICK more \in Seq(Value) : more = captured \o nulls
      BY <1>2, JoinType
    <3>2. \A i \in 1..a : i \in 1..Len(params)
      BY <2>2
    <3>3. \A i \in 1..Len(params) : new[i] = params[i]
      BY <1>3, <3>1
    <3> QED
      BY <2>1, <2>2, <3>2, <3>3
  <2>4. SubSeq(given, 1, a) = SubSeq(new, 1, a)
    BY <2>1, <2>2, <2>3, SameWindow
  <2> QED
    BY <2>1, <2>2, <2>4
<1>6. \/ Captures[f] = 0 /\ captured \o nulls = Abstract!Nulls(FrameSize[f])
      \/ \E i \in DOMAIN objects :
             /\ objects[i].kind = "function" /\ objects[i].fx = f
             /\ captured \o nulls = objects[i].captured \o Abstract!Nulls(FrameSize[f])
  <2>1. CASE Captures[f] = 0 /\ captured = <<>>
    <3>1. <<>> \o nulls = nulls
      OBVIOUS
    <3> QED
      BY <1>2, <2>1, <3>1
  <2>2. CASE \E i \in DOMAIN objects :
                 objects[i].kind = "function" /\ objects[i].fx = f /\ objects[i].captured = captured
    BY <1>2, <2>2
  <2> QED
    BY <2>1, <2>2
<1>7. Abstract!Enter
  <2>1. /\ Abstract!Last(Acts').pos = EntryPos(f) /\ Abstract!Last(Acts').vals = new
        /\ SubSeq(Abstract!Last(Acts').vals, Parameters(f) + 1, Len(Abstract!Last(Acts').vals)) = captured \o nulls
    BY <1>3, <1>4
  <2>2. Control = "code" /\ Acts # <<>> =>
            \E given \in Abstract!Given :
                Arity[f] <= Len(given)
                /\ SubSeq(given, 1, Arity[f]) = SubSeq(Abstract!Last(Acts').vals, 1, Arity[f])
    BY <1>5, <2>1
  <2> QED
    BY <1>1, <1>6, <2>1, <2>2 DEF Abstract!Enter
<1> QED
  BY <1>7 DEF Abstract!Next

LEMMA JoinElements ==
    \A s, t \in Seq(Value) :
        /\ s \o t \in Seq(Value) /\ Len(s \o t) = Len(s) + Len(t)
        /\ \A i \in 1..Len(s) : (s \o t)[i] = s[i]
        /\ \A i \in 1..Len(t) : (s \o t)[Len(s) + i] = t[i]
OBVIOUS

LEMMA Halves ==
    ASSUME NEW s \in Seq(Value), NEW b \in 0..Len(s)
    PROVE  /\ s = SubSeq(s, 1, b) \o SubSeq(s, b + 1, Len(s))
           /\ SubSeq(s, 1, b) \in Seq(Value) /\ Len(SubSeq(s, 1, b)) = b
           /\ SubSeq(s, b + 1, Len(s)) \in Seq(Value) /\ Len(SubSeq(s, b + 1, Len(s))) = Len(s) - b
           /\ \A i \in 1..(Len(s) - b) : SubSeq(s, b + 1, Len(s))[i] = s[b + i]
<1>1. PICK l \in Nat : l = Len(s) /\ b \in 0..l
  OBVIOUS
<1>2. PICK m \in Nat : m = l - b /\ l = b + m /\ b <= l /\ b \in Nat /\ Len(s) - b = m
  <2>1. l - b \in Nat /\ l = b + (l - b) /\ b <= l /\ b \in Nat /\ Len(s) - b = l - b
    BY <1>1
  <2> QED
    BY <2>1
<1>3. PICK u : u = SubSeq(s, 1, b)
  OBVIOUS
<1>4. PICK v : v = SubSeq(s, b + 1, l)
  OBVIOUS
<1>5. u \in Seq(Value) /\ Len(u) = b /\ \A i \in 1..b : u[i] = s[i]
  BY <1>3, CutType
<1>6. v \in Seq(Value) /\ Len(v) = m /\ \A i \in 1..m : v[i] = s[b + i]
  BY <1>1, <1>2, <1>4, PartType
<1>7. u \o v = s
  <2>1. PICK w : w = u \o v
    OBVIOUS
  <2>2. /\ w \in Seq(Value) /\ Len(w) = l
        /\ \A i \in 1..b : w[i] = u[i]
        /\ \A i \in 1..m : w[b + i] = v[i]
    <3> u \in Seq(Value) /\ v \in Seq(Value)
      BY <1>5, <1>6
    <3>1. /\ w \in Seq(Value) /\ Len(w) = Len(u) + Len(v) /\ \A i \in 1..Len(u) : w[i] = u[i]
          /\ \A i \in 1..Len(v) : w[Len(u) + i] = v[i]
      BY <2>1, JoinElements
    <3> QED
      BY <1>2, <1>5, <1>6, <3>1
  <2>3. ASSUME NEW i \in 1..l
        PROVE  w[i] = s[i]
    <3>1. CASE i <= b
      <4>1. i \in 1..b
        BY <1>2, <3>1
      <4> QED
        BY <1>5, <2>2, <4>1
    <3>2. CASE ~(i <= b)
      <4>1. PICK j \in 1..m : i = b + j
        <5>1. i - b \in 1..m /\ i = b + (i - b)
          BY <1>2, <3>2
        <5> QED
          BY <5>1
      <4> QED
        BY <1>6, <2>2, <4>1
    <3> QED
      BY <3>1, <3>2
  <2>4. w = s
    BY <1>1, <2>2, <2>3, SameSequence
  <2> QED
    BY <2>1, <2>4
<1> QED
  BY <1>1, <1>2, <1>3, <1>4, <1>5, <1>6, <1>7

\* The provers see through concatenation and SubSeq; folded, these are functions
\* they know a few laws of.
Joined(s, t) == s \o t
Rest(s, n) == SubSeq(s, n + 1, Len(s))

LEMMA JoinedType == \A s, t \in Seq(Value) : Joined(s, t) \in Seq(Value)
BY JoinType DEF Joined

LEMMA JoinAssociates == \A s, t, u \in Seq(Value) : (s \o t) \o u = s \o (t \o u)
OBVIOUS

LEMMA JoinedAssociates ==
    \A s, t, u \in Seq(Value) : Joined(Joined(s, t), u) = Joined(s, Joined(t, u))
BY JoinAssociates DEF Joined

LEMMA JoinedRest ==
    \A s, t \in Seq(Value) : Rest(Joined(s, t), Len(s)) = t
BY JoinedPart DEF Joined, Rest

\* The window of a frame: the parameters, the nulls and what is pushed behind.
LEMMA PushedWindow ==
    \A s, t, u, v \in Seq(Value) :
        Rest(Joined(Joined(Joined(s, t), u), v), Len(s)) = Joined(t, Joined(u, v))
<1> TAKE s, t, u, v \in Seq(Value)
<1>1. Joined(s, t) \in Seq(Value) /\ Joined(u, v) \in Seq(Value)
  BY JoinedType
<1>2. Joined(t, Joined(u, v)) \in Seq(Value)
  BY <1>1, JoinedType
<1>3. Joined(Joined(Joined(s, t), u), v) = Joined(Joined(s, t), Joined(u, v))
  BY <1>1, JoinedAssociates
<1>4. Joined(Joined(s, t), Joined(u, v)) = Joined(s, Joined(t, Joined(u, v)))
  BY <1>1, JoinedAssociates
<1>5. Joined(s, Joined(t, Joined(u, v))) \in Seq(Value)
  BY <1>2, JoinedType
<1> QED
  BY <1>2, <1>3, <1>4, <1>5, JoinedRest

LEMMA CallShows ==
    ASSUME IInv, IInv', Call
    PROVE  Abstract!Next
<1>1. PICK f \in Functions : Call!(f)
  BY DEF Call
<1>2. /\ InCode /\ Captures[f] = 0 /\ HasTemporaries(CallArity(f)) /\ pc' = EntryPos(f)
      /\ PushFrame(values, pc, CallArity(f), f, <<>>)
      /\ UNCHANGED <<phase, natives, inNative, settled, objects>>
  BY <1>1
<1>3. /\ CallArity(f) \in Nat /\ values \in Seq(Value) /\ <<>> \in Seq(Value) /\ Len(values) \in Nat
      /\ framePointer + Slots(pc) <= Len(values) - CallArity(f) /\ CallArity(f) <= Len(values)
  <2>1. CallArity(f) \in Nat /\ values \in Seq(Value) /\ <<>> \in Seq(Value) /\ Len(values) \in Nat
    BY SlotsFacts DEF IInv, TypeOK
  <2>2. framePointer + Slots(pc) <= Len(values) - CallArity(f) /\ Len(values) - CallArity(f) \in Nat
    BY <1>2, <2>1, TemporariesFacts
  <2> QED
    BY <2>1, <2>2
<1>4. PICK b \in Nat : b = Len(values) - CallArity(f) /\ b \in 0..Len(values) /\ Len(values) - b = CallArity(f)
                       /\ b <= Len(values) /\ framePointer + Slots(pc) <= b
  BY <1>3
<1>5. PICK head \in Seq(Value), params \in Seq(Value) :
          /\ values = head \o params /\ Len(head) = b /\ Len(params) = CallArity(f)
          /\ params = Part(b, Len(values))
  <2>1. values \in Seq(Value) /\ b \in 0..Len(values)
    BY <1>3, <1>4
  <2>2. /\ values = SubSeq(values, 1, b) \o SubSeq(values, b + 1, Len(values))
        /\ SubSeq(values, 1, b) \in Seq(Value) /\ Len(SubSeq(values, 1, b)) = b
        /\ SubSeq(values, b + 1, Len(values)) \in Seq(Value)
        /\ Len(SubSeq(values, b + 1, Len(values))) = Len(values) - b
    BY <2>1, Halves
  <2> QED
    BY <1>4, <2>2 DEF Part
<1>6. /\ framePointer' = b /\ frames' = Append(frames, FrameOf(pc, framePointer, FALSE, f))
      /\ NewPart(b, Len(values')) = params \o (Nulls(FrameSize[f]) \o <<>>)
  <2>1. PICK nulls \in Seq(Value), none \in Seq(Value) : nulls = Nulls(FrameSize[f]) /\ none = <<>>
    BY <1>3, SlotsFacts, NullsType
  <2>2. values' = ((head \o params) \o nulls) \o none
    BY <1>2, <1>5, <2>1 DEF PushFrame
  <2>3. values' = Joined(Joined(Joined(head, params), nulls), none)
    BY <2>2 DEF Joined
  <2>4. Rest(values', Len(head)) = Joined(params, Joined(nulls, none))
    <3>1. Rest(Joined(Joined(Joined(head, params), nulls), none), Len(head)) = Joined(params, Joined(nulls, none))
      BY PushedWindow
    <3> QED
      BY <2>3, <3>1
  <2> QED
    BY <1>2, <1>4, <1>5, <2>1, <2>4 DEF PushFrame, NewPart, Joined, Rest
<1>7. Nulls(FrameSize[f]) \o <<>> = <<>> \o Nulls(FrameSize[f])
  <2>1. PICK nulls \in Seq(Value) : nulls = Nulls(FrameSize[f])
    BY SlotsFacts, NullsType
  <2>2. nulls \o <<>> = nulls /\ <<>> \o nulls = nulls
    OBVIOUS
  <2> QED
    BY <2>1, <2>2
<1>8. Keeps(b, values')
  <2>1. Keeps(b, values)
    BY <1>4, AllKeeps DEF IInv
  <2> QED
    BY <1>2, <1>3, <2>1, PushFrameKeeps
<1>9. Entering(f, pc, b)
  <2>1. FromCode(pc, b)
    BY <1>2, <1>4 DEF FromCode
  <2>2. inNative' = FALSE
    BY <1>2 DEF InCode, Running, IInv, TypeOK
  <2> QED
    BY <1>2, <1>4, <1>6, <1>8, <2>1, <2>2, PositionFacts DEF Entering
<1>10. Acts # <<>> =>
           \E given \in Abstract!Given :
               given \in Seq(Value) /\ Arity[f] <= Len(given) /\ \A i \in 1..Arity[f] : given[i] = params[i]
  <2>1. Acts # <<>> => params \in Abstract!Given
    BY <1>5, <1>9, GivenFacts
  <2>2. Arity[f] <= Len(params)
    BY <1>5, SlotsFacts DEF CallArity
  <2> QED
    BY <2>1, <2>2
<1> QED
  <2>1. Abstract!ObjectsGrow /\ Abstract!NoNewCoroutine
    BY <1>2, ObjectsStay
  <2>2. NewPart(b, Len(values')) = params \o (<<>> \o Nulls(FrameSize[f]))
    BY <1>6, <1>7
  <2> QED
    BY <1>2, <1>3, <1>5, <1>9, <1>10, <2>1, <2>2, EnterNewShows

-----------------------------------------------------------------------------
(* Function pointers are invoked *)

\* The arguments as they lie on the stack when the frame is made: the values
\* below them and as many as the arity says are those of the caller.
ClosureArguments(v, vals, n, b, f, captured, args) ==
    /\ f = ObjectOf(v).fx /\ captured = ObjectOf(v).captured /\ Len(captured) = Captures[f]
    /\ Len(args) = b + CallArity(f) /\ Arity[f] <= n
    /\ \A i \in 1..(b + Arity[f]) : args[i] = vals[i]
    /\ PushFrame(args \o captured, pc, CallArity(f) + Captures[f], f, <<>>)
    /\ Abstract!ObjectsGrow /\ Abstract!NoNewCoroutine
    /\ pc' = EntryPos(f) /\ UNCHANGED <<phase, natives, inNative, settled>>

LEMMA PackedElements ==
    ASSUME NEW S, NEW s \in Seq(S), NEW k \in 0..Len(s), NEW e \in S
    PROVE  /\ SubSeq(s, 1, k) \o <<e>> \in Seq(S) /\ Len(SubSeq(s, 1, k) \o <<e>>) = k + 1
           /\ \A i \in 1..k : (SubSeq(s, 1, k) \o <<e>>)[i] = s[i]
OBVIOUS

LEMMA ClosureTakes ==
    ASSUME IInv, NEW v, IsCallable(v), NEW vals \in Seq(Value), NEW n \in Nat, NEW b \in Nat,
           Len(vals) = b + n, EnterClosure(v, vals, n)
    PROVE  \E f \in Functions, captured \in Seq(Value), args \in Seq(Value) :
               ClosureArguments(v, vals, n, b, f, captured, args)
<1>1. PICK f \in Functions, captured \in Seq(Value) :
          f = ObjectOf(v).fx /\ captured = ObjectOf(v).captured /\ Len(captured) = Captures[f]
  BY CallableFacts
<1>2. PICK a \in Nat : a = Arity[f] /\ CallArity(f) \in Nat
                       /\ (f \notin IsVariadic => CallArity(f) = a) /\ (f \in IsVariadic => CallArity(f) = a + 1)
  BY SlotsFacts DEF CallArity
<1> DEFINE args == IF f \in IsVariadic THEN SubSeq(vals, 1, Len(vals) - (n - a)) \o <<NewRef(1)>> ELSE vals
           tuple == [kind |-> "tuple", items |-> SubSeq(vals, Len(vals) - (n - a) + 1, Len(vals))]
<1>3. /\ n >= a
      /\ f \notin IsVariadic => n = a /\ UNCHANGED objects
      /\ f \in IsVariadic => Len(objects) < MaxObjects /\ objects' = Append(objects, tuple)
      /\ PushFrame(args \o captured, pc, CallArity(f) + Captures[f], f, <<>>)
      /\ pc' = EntryPos(f)
      /\ UNCHANGED <<phase, natives, inNative, settled>>
  BY <1>1, <1>2 DEF EnterClosure
<1>4. n - a \in 0..Len(vals) /\ Len(vals) - (n - a) = b + a /\ b + a \in 0..Len(vals)
  <2>1. PICK l \in Nat : l = Len(vals) /\ l = b + n
    OBVIOUS
  <2>2. n - a \in 0..l /\ l - (n - a) = b + a /\ b + a \in 0..l
    BY <1>3, <2>1
  <2> QED
    BY <2>1, <2>2
<1>5. args \in Seq(Value) /\ Len(args) = b + CallArity(f) /\ \A i \in 1..(b + a) : args[i] = vals[i]
  <2>1. CASE f \notin IsVariadic
    BY <1>2, <1>3, <2>1
  <2>2. CASE f \in IsVariadic
    <3>1. NewRef(1) \in Value
      BY <1>3, <2>2, NewRefType DEF IInv
    <3>2. PICK k \in 0..Len(vals) : k = b + a /\ k = Len(vals) - (n - a) /\ k + 1 = b + CallArity(f)
      <4>1. b + a + 1 = b + CallArity(f)
        BY <1>2, <2>2
      <4> QED
        BY <1>4, <4>1
    <3>3. args = SubSeq(vals, 1, k) \o <<NewRef(1)>>
      BY <2>2, <3>2
    <3> HIDE DEF args
    <3>4. args \in Seq(Value) /\ Len(args) = k + 1 /\ \A i \in 1..k : args[i] = vals[i]
      BY <3>1, <3>3, PackedElements
    <3> QED
      BY <3>2, <3>4
  <2> QED
    BY <2>1, <2>2
<1>6. Abstract!ObjectsGrow /\ Abstract!NoNewCoroutine
  <2>1. CASE f \notin IsVariadic
    BY <1>3, <2>1, ObjectsStay
  <2>2. CASE f \in IsVariadic
    <3>1. SubSeq(vals, Len(vals) - (n - a) + 1, Len(vals)) \in Seq(Value)
      BY <1>4, TakeType
    <3>2. tuple \in Object /\ tuple.kind = "tuple"
      BY <3>1 DEF Object
    <3> HIDE DEF tuple
    <3>3. objects' = Append(objects, tuple)
      BY <1>3, <2>2
    <3>4. /\ Abstract!ObjectsGrow
          /\ \A i \in DOMAIN objects' \ DOMAIN objects : objects'[i] = tuple
      BY <3>2, <3>3, OneObjectAppended
    <3> QED
      BY <3>2, <3>4 DEF Abstract!NoNewCoroutine
  <2> QED
    BY <2>1, <2>2
<1> HIDE DEF args, tuple
<1>7. ClosureArguments(v, vals, n, b, f, captured, args)
  BY <1>1, <1>2, <1>3, <1>5, <1>6 DEF ClosureArguments
<1> QED
  BY <1>1, <1>5, <1>7

\* The window of a frame whose captures are parameters.
LEMMA FrameWindow ==
    ASSUME NEW args \in Seq(Value), NEW captured \in Seq(Value), NEW f \in Functions,
           NEW arity, NEW ret, PushFrame(args \o captured, ret, arity, f, <<>>), NEW b \in 0..Len(args)
    PROVE  NewPart(b, Len(values')) = SubSeq(args, b + 1, Len(args)) \o (captured \o Nulls(FrameSize[f]))
<1>1. PICK head \in Seq(Value), params \in Seq(Value) :
          args = head \o params /\ Len(head) = b /\ params = SubSeq(args, b + 1, Len(args))
  BY Halves
<1>2. PICK nulls \in Seq(Value) : nulls = Nulls(FrameSize[f])
  BY SlotsFacts, NullsType
<1>3. PICK all \in Seq(Value) : all = (args \o captured) \o nulls
  <2>1. args \o captured \in Seq(Value)
    BY JoinType
  <2> QED
    BY <2>1, JoinType
<1>4. values' = all
  <2>1. values' = all \o <<>>
    BY <1>2, <1>3 DEF PushFrame
  <2>2. all \o <<>> = all
    OBVIOUS
  <2> QED
    BY <2>1, <2>2
<1>5. values' = Joined(Joined(Joined(head, params), captured), nulls)
  BY <1>1, <1>3, <1>4 DEF Joined
<1>6. Rest(Joined(Joined(Joined(head, params), captured), nulls), Len(head)) = Joined(params, Joined(captured, nulls))
  BY PushedWindow
<1>7. Rest(values', b) = params \o (captured \o nulls)
  BY <1>1, <1>5, <1>6 DEF Joined
<1> QED
  BY <1>1, <1>2, <1>7 DEF Rest, NewPart

LEMMA UpperPart ==
    ASSUME values \in Seq(Value), NEW b \in Nat, NEW m \in Nat, Len(values) = b + m
    PROVE  /\ Part(b, Len(values)) \in Seq(Value) /\ Len(Part(b, Len(values))) = m
           /\ \A i \in 1..m : Part(b, Len(values))[i] = values[b + i]
<1>1. (b + m) - b = m /\ b <= b + m
  OBVIOUS
<1> QED
  BY <1>1, PartType DEF Part

LEMMA AmongFirst ==
    ASSUME NEW a \in Nat, NEW c \in Nat, NEW n \in Nat, NEW b \in Nat, a <= c, a <= n, NEW i \in 1..a
    PROVE  i \in 1..c /\ i \in 1..n /\ b + i \in 1..(b + a)
OBVIOUS

LEMMA ClosureShows ==
    ASSUME IInv, IInv', InCode, NEW v, IsCallable(v), NEW vals \in Seq(Value), NEW n \in Nat, NEW b \in Nat,
           Len(vals) = b + n, EnterClosure(v, vals, n),
           framePointer + Slots(pc) <= b, b <= Len(values), Keeps(b, values'),
           NEW given \in Seq(Value), n <= Len(given), \A i \in 1..n : given[i] = vals[b + i],
           \A f \in Functions : Entering(f, pc, b) /\ Acts # <<>> => given \in Abstract!Given
    PROVE  Abstract!Next
<1>1. PICK f \in Functions, captured \in Seq(Value), args \in Seq(Value) :
          ClosureArguments(v, vals, n, b, f, captured, args)
  BY ClosureTakes
<1>2. /\ f = ObjectOf(v).fx /\ captured = ObjectOf(v).captured /\ Len(captured) = Captures[f]
      /\ Len(args) = b + CallArity(f) /\ Arity[f] <= n
      /\ \A i \in 1..(b + Arity[f]) : args[i] = vals[i]
      /\ PushFrame(args \o captured, pc, CallArity(f) + Captures[f], f, <<>>)
      /\ Abstract!ObjectsGrow /\ Abstract!NoNewCoroutine
      /\ pc' = EntryPos(f) /\ UNCHANGED <<phase, natives, inNative, settled>>
  BY <1>1 DEF ClosureArguments
<1>3. PICK c \in Nat, a \in Nat, k \in Nat :
          /\ c = CallArity(f) /\ a = Arity[f] /\ k = Captures[f] /\ a <= c /\ a <= n
  <2>1. CallArity(f) \in Nat /\ Captures[f] \in Nat /\ Arity[f] \in Nat
    BY SlotsFacts
  <2>2. Arity[f] <= CallArity(f)
    BY <2>1 DEF CallArity
  <2> QED
    BY <1>2, <2>1, <2>2
<1>4. PICK params \in Seq(Value) :
          /\ params = SubSeq(args, b + 1, Len(args)) /\ Len(params) = c
          /\ \A i \in 1..c : params[i] = args[b + i]
  <2>1. b \in 0..Len(args) /\ Len(args) - b = c
    BY <1>2, <1>3
  <2> QED
    BY <2>1, Halves
<1>5. NewPart(b, Len(values')) = params \o (captured \o Nulls(FrameSize[f]))
  <2>1. b \in 0..Len(args)
    BY <1>2, <1>3
  <2> QED
    BY <1>2, <1>4, <2>1, FrameWindow
<1>6. Entering(f, pc, b)
  <2>1. FromCode(pc, b)
    BY <1>2 DEF FromCode
  <2>2. inNative' = FALSE
    BY <1>2 DEF InCode, Running, IInv, TypeOK
  <2>3. framePointer' = b /\ frames' = Append(frames, FrameOf(pc, framePointer, FALSE, f))
    <3>1. Len(args \o captured) = Len(args) + Len(captured)
      BY JoinType
    <3>2. (b + c + k) - (c + k) = b
      OBVIOUS
    <3> QED
      BY <1>2, <1>3, <3>1, <3>2 DEF PushFrame
  <2> QED
    BY <1>2, <2>1, <2>2, <2>3, PositionFacts DEF Entering
<1>7. \E i \in DOMAIN objects :
          objects[i].kind = "function" /\ objects[i].fx = f /\ objects[i].captured = captured
  BY <1>2 DEF IsCallable, IsA, ObjectOf
<1>8. \A i \in 1..a : given[i] = params[i]
  <2> TAKE i \in 1..a
  <2>1. i \in 1..c /\ i \in 1..n /\ b + i \in 1..(b + a)
    BY <1>3, AmongFirst
  <2> QED
    BY <1>2, <1>3, <1>4, <2>1
<1>9. Control = "code" /\ Acts # <<>> =>
          \E g \in Abstract!Given :
              g \in Seq(Value) /\ Arity[f] <= Len(g) /\ \A i \in 1..Arity[f] : g[i] = params[i]
  <2>1. a <= Len(given)
    BY <1>3
  <2> QED
    BY <1>3, <1>6, <1>8, <2>1
<1>10. Abstract!ObjectsGrow /\ Abstract!NoNewCoroutine /\ pc' = EntryPos(f) /\ Len(params) = CallArity(f)
  BY <1>2, <1>3, <1>4
<1> QED
  BY <1>5, <1>6, <1>7, <1>9, <1>10, EnterNewShows

LEMMA InvokeShows ==
    ASSUME IInv, IInv', Invoke
    PROVE  Abstract!Next
<1>1. PICK n \in Nat : /\ InCode /\ HasTemporaries(n + 1) /\ IsCallable(Last(values))
                       /\ EnterClosure(Last(values), Below(1), n)
  BY ConstantsAssumption DEF Invoke
<1>2. /\ n + 1 \in Nat /\ Len(values) \in Nat /\ values \in Seq(Value)
      /\ framePointer + Slots(pc) <= Len(values) - (n + 1) /\ Len(values) - (n + 1) \in Nat
      /\ Len(Below(n + 1)) = Len(values) - (n + 1)
  BY <1>1, TemporariesFacts, TypeFacts DEF IInv, TypeOK
<1>3. PICK b \in Nat : /\ b = Len(values) - (n + 1) /\ b + n = Len(values) - 1 /\ b <= Len(values)
                       /\ Len(values) = b + n + 1 /\ Len(values) - b = n + 1 /\ b <= Len(values) - 1
                       /\ framePointer + Slots(pc) <= b /\ Len(values) - 1 \in 0..Len(values)
  BY <1>2
<1>4. /\ Below(1) \in Seq(Value) /\ Len(Below(1)) = b + n
      /\ \A i \in 1..(b + n) : Below(1)[i] = values[i]
  BY <1>2, <1>3, CutType DEF Below
<1>5. Keeps(b, values')
  <2>1. Keeps(b, Below(1))
    <3>1. Keeps(b, values)
      BY <1>2, <1>3, AllKeeps DEF IInv
    <3>2. Keeps(b, SubSeq(values, 1, Len(values) - 1))
      BY <1>3, <3>1, CutKeeps
    <3> QED
      BY <3>2 DEF Below
  <2>2. b + n <= Len(Below(1))
    BY <1>4
  <2> QED
    BY <1>1, <2>1, <2>2, EnterClosureKeeps
<1>6. PICK given \in Seq(Value) :
          /\ given = Part(b, Len(values)) /\ Len(given) = n + 1
          /\ \A i \in 1..(n + 1) : given[i] = values[b + i]
  <2>1. PICK m \in Nat : m = n + 1 /\ Len(values) = b + m
    BY <1>2, <1>3
  <2> QED
    BY <1>2, <2>1, UpperPart
<1>7. n <= Len(given) /\ \A i \in 1..n : given[i] = Below(1)[b + i]
  <2>1. n <= n + 1 /\ \A i \in 1..n : i \in 1..(n + 1) /\ b + i \in 1..(b + n)
    OBVIOUS
  <2> QED
    BY <1>4, <1>6, <2>1
<1>8. \A f \in Functions : Entering(f, pc, b) /\ Acts # <<>> => given \in Abstract!Given
  BY <1>6, GivenFacts
<1>9. PICK vals \in Seq(Value) : vals = Below(1)
  BY <1>4
<1>10. PICK v : v = Last(values)
  OBVIOUS
<1>11. /\ InCode /\ IsCallable(v) /\ Len(vals) = b + n /\ EnterClosure(v, vals, n)
       /\ framePointer + Slots(pc) <= b /\ b <= Len(values)
       /\ \A i \in 1..n : given[i] = vals[b + i]
  BY <1>1, <1>3, <1>4, <1>7, <1>9, <1>10
<1> QED
  BY <1>5, <1>7, <1>8, <1>11, ClosureShows

LEMMA InvokeVariadicShows ==
    ASSUME IInv, IInv', InvokeVariadic
    PROVE  Abstract!Next
<1> DEFINE top == Last(values)
           items == ObjectOf(top).items
<1>1. /\ InCode /\ HasTemporaries(2) /\ IsA(top, "tuple") /\ IsCallable(Above(2)[1])
      /\ EnterClosure(Above(2)[1], Below(2) \o items, Len(items))
  BY DEF InvokeVariadic
<1>2. PICK id \in DOMAIN objects : top = [ref |-> id] /\ objects[id].kind = "tuple" /\ items = objects[id].items
  BY <1>1 DEF IsA, ObjectOf, Reference
<1>3. items \in Seq(Value) /\ Len(items) \in Nat
  BY <1>2, ObjectFacts
<1>4. /\ framePointer + Slots(pc) <= Len(values) - 2 /\ Len(values) - 2 \in Nat /\ Len(values) \in Nat
      /\ Len(Below(2)) = Len(values) - 2 /\ Below(2) \in Seq(Value) /\ values \in Seq(Value)
  BY <1>1, TemporariesFacts, TypeFacts DEF IInv, TypeOK
<1>5. PICK b \in Nat : /\ b = Len(values) - 2 /\ b <= Len(values) /\ Len(values) - b = 2 /\ b + 2 = Len(values)
                       /\ framePointer + Slots(pc) <= b /\ b = Len(Below(2)) /\ b \in 0..Len(values)
  BY <1>4
<1> HIDE DEF items
<1>6. PICK vals \in Seq(Value) :
          /\ vals = Below(2) \o items /\ Len(vals) = b + Len(items)
          /\ \A i \in 1..Len(items) : vals[b + i] = items[i]
  <2>1. PICK lower \in Seq(Value) : lower = Below(2) /\ Len(lower) = b
    BY <1>4, <1>5
  <2>2. /\ lower \o items \in Seq(Value) /\ Len(lower \o items) = Len(lower) + Len(items)
        /\ \A i \in 1..Len(items) : (lower \o items)[Len(lower) + i] = items[i]
    BY <1>3, JoinElements
  <2> QED
    BY <2>1, <2>2
<1>7. Keeps(b, values')
  <2>1. Keeps(b, values)
    BY <1>4, <1>5, AllKeeps DEF IInv
  <2>2. Keeps(b, Below(2))
    BY <1>4, <1>5, <2>1, CutKeeps DEF Below
  <2>3. Keeps(b, vals)
    BY <1>3, <1>6, <2>2, JoinKeeps
  <2>4. b + Len(items) <= Len(vals)
    BY <1>3, <1>6
  <2> QED
    BY <1>1, <1>3, <1>6, <2>3, <2>4, EnterClosureKeeps
<1>8. ASSUME NEW f \in Functions, Entering(f, pc, b), Acts # <<>>
      PROVE  items \in Abstract!Given
  <2>1. PICK part \in Seq(Value) : part = Part(b, Len(values)) /\ Len(part) = 2 /\ part[2] = values[b + 2]
    <3>1. Len(values) = b + 2 /\ 2 \in Nat /\ 2 \in 1..2
      BY <1>4, <1>5
    <3> QED
      BY <1>4, <3>1, UpperPart
  <2>2. part # <<>> /\ Abstract!Last(part) = [ref |-> id]
    BY <1>2, <1>5, <2>1 DEF Last, Abstract!Last
  <2> QED
    BY <1>2, <1>8, <2>1, <2>2, GivenFacts
<1>9. PICK n \in Nat : n = Len(items)
  BY <1>3
<1>10. PICK v : v = Above(2)[1]
  OBVIOUS
<1>11. /\ InCode /\ IsCallable(v) /\ Len(vals) = b + n /\ EnterClosure(v, vals, n)
       /\ framePointer + Slots(pc) <= b /\ b <= Len(values)
       /\ n <= Len(items) /\ \A i \in 1..n : items[i] = vals[b + i]
  BY <1>1, <1>3, <1>5, <1>6, <1>9, <1>10
<1> QED
  BY <1>3, <1>7, <1>8, <1>11, ClosureShows

-----------------------------------------------------------------------------
(* Natives and the host enter functions *)

\* The host and natives push arguments of their own above all values.
LEMMA OutsideEnters ==
    ASSUME IInv, NEW f \in Functions, NEW n \in Nat, NEW args \in [1..n -> Plain], NEW captured \in Seq(Value),
           PushFrame(values \o args, ExitPos, n, f, captured), pc' = EntryPos(f),
           inNative' = FALSE, natives' = natives, NEW b, b = Len(values),
           FromNative(ExitPos, b) \/ FromHost(ExitPos, b)
    PROVE  Entering(f, ExitPos, b)
<1>1. /\ b \in Nat /\ b <= Len(values) /\ args \in Seq(Value) /\ Len(values \o args) = b + n
  BY ArgumentsFacts, ValueFacts
<1>2. framePointer' = b /\ frames' = Append(frames, FrameOf(ExitPos, framePointer, FALSE, f))
  <2>1. framePointer' = (b + n) - n /\ frames' = Append(frames, FrameOf(ExitPos, framePointer, FALSE, f))
    BY <1>1 DEF PushFrame
  <2> QED
    BY <1>1, <2>1
<1>3. Keeps(b, values')
  <2>1. Keeps(b, values)
    BY <1>1, AllKeeps DEF IInv
  <2>2. Keeps(b, values \o args)
    BY <1>1, <2>1, JoinKeeps
  <2> QED
    BY <2>2, PushFrameKeeps
<1> QED
  BY <1>1, <1>2, <1>3, PositionFacts DEF Entering

\* The captures are pushed behind the locals: with no locals, or no captures,
\* that is where the lambda looks for them.
LEMMA CallbackWindow ==
    ASSUME values \in Seq(Value), NEW args \in Seq(Value), NEW captured \in Seq(Value), NEW f \in Functions,
           NEW arity, PushFrame(values \o args, ExitPos, arity, f, captured),
           captured = <<>> \/ FrameSize[f] = 0
    PROVE  NewPart(Len(values), Len(values')) = args \o (captured \o Nulls(FrameSize[f]))
<1>1. PICK nulls \in Seq(Value) : nulls = Nulls(FrameSize[f]) /\ (FrameSize[f] = 0 => nulls = <<>>)
  <2>1. FrameSize[f] = 0 => Nulls(FrameSize[f]) = <<>>
    BY DEF Nulls
  <2> QED
    BY <2>1, SlotsFacts, NullsType
<1>2. values' = Joined(Joined(Joined(values, args), nulls), captured)
  BY <1>1 DEF PushFrame, Joined
<1>3. Rest(Joined(Joined(Joined(values, args), nulls), captured), Len(values)) = Joined(args, Joined(nulls, captured))
  BY PushedWindow
<1>4. Joined(nulls, captured) = Joined(captured, nulls)
  <2>1. captured = <<>> \/ nulls = <<>>
    BY <1>1
  <2>2. nulls \o <<>> = nulls /\ <<>> \o nulls = nulls /\ captured \o <<>> = captured /\ <<>> \o captured = captured
    OBVIOUS
  <2> QED
    BY <2>1, <2>2 DEF Joined
<1>5. Rest(values', Len(values)) = args \o (captured \o nulls)
  BY <1>2, <1>3, <1>4 DEF Joined
<1> QED
  BY <1>1, <1>5 DEF Rest, NewPart

LEMMA RunFunctionShows ==
    ASSUME NoShapes, IInv, IInv', RunFunction
    PROVE  Abstract!Next
<1>1. PICK id \in DOMAIN objects : RunFunction!(id)
  BY DEF RunFunction
<1>2. PICK f \in Functions, captured \in Seq(Value) :
          /\ objects[id].kind = "function" /\ objects[id].fx = f /\ objects[id].captured = captured
          /\ Len(captured) = Captures[f]
  BY <1>1, CallableFacts DEF ObjectOf, IsCallable, IsA
<1>3. /\ objects[id].kind = "function" /\ objects[id].fx = f /\ objects[id].captured = captured
      /\ InNative /\ f \notin IsVariadic /\ Len(captured) = Captures[f]
      /\ Captures[f] = 0 \/ FrameSize[f] = 0
      /\ \E args \in [1..Arity[f] -> Plain] :
             PushFrame(values \o args, ExitPos, Arity[f], f, captured)
      /\ pc' = EntryPos(f) /\ inNative' = FALSE /\ UNCHANGED <<phase, natives, settled, objects>>
  <2>1. Captures[f] = 0 \/ FrameSize[f] = 0
    BY <1>1, <1>2 DEF NoShapes
  <2>2. /\ InNative /\ f \notin IsVariadic
        /\ \E args \in [1..Arity[f] -> Plain] :
               PushFrame(values \o args, ExitPos, Arity[f], f, captured)
        /\ pc' = EntryPos(f) /\ inNative' = FALSE /\ UNCHANGED <<phase, natives, settled, objects>>
    BY <1>1, <1>2 DEF ReturnToLoop
  <2> QED
    BY <1>2, <2>1, <2>2
<1>4. PICK n \in Nat : n = Arity[f] /\ n = CallArity(f)
  BY <1>3, SlotsFacts
<1>5. PICK args \in [1..n -> Plain] : PushFrame(values \o args, ExitPos, n, f, captured)
  BY <1>3, <1>4
<1>6. args \in Seq(Value) /\ Len(args) = n
  BY ValueFacts
<1>7. PICK b \in Nat : b = Len(values) /\ values \in Seq(Value)
  BY DEF IInv, TypeOK
<1>8. FromNative(ExitPos, b)
  BY <1>3, <1>7 DEF FromNative
<1>9. Entering(f, ExitPos, b)
  BY <1>3, <1>5, <1>7, <1>8, OutsideEnters
<1>10. NewPart(b, Len(values')) = args \o (captured \o Nulls(FrameSize[f]))
  <2>1. captured = <<>> \/ FrameSize[f] = 0
    BY <1>3
  <2> QED
    BY <1>5, <1>6, <1>7, <2>1, CallbackWindow
<1>11. Control = "native"
  BY <1>8, <1>9, EnterControl
<1>12. Abstract!ObjectsGrow /\ Abstract!NoNewCoroutine
  BY <1>3, ObjectsStay
<1> QED
  BY <1>3, <1>4, <1>6, <1>9, <1>10, <1>11, <1>12, EnterNewShows

LEMMA HostCallShows ==
    ASSUME NoShapes, IInv, IInv', HostCall
    PROVE  Abstract!Next
<1>1. PICK f \in Functions, n \in 0..MaxArgs : HostCall!(f, n) /\ n \in Nat
  <2>1. PICK f \in Functions, n \in 0..MaxArgs : HostCall!(f, n)
    BY DEF HostCall
  <2>2. n \in Nat
    BY ConstantsAssumption
  <2> QED
    BY <2>1, <2>2
<1>2. PICK args \in [1..n -> Plain] : PushFrame(values \o args, ExitPos, n, f, <<>>)
  BY <1>1 DEF ReturnToLoop
<1>3. /\ phase = "idle" /\ Captures[f] = 0 /\ pc' = EntryPos(f)
      /\ phase' = "call" /\ UNCHANGED <<natives, inNative, settled, objects>>
  BY <1>1
<1>4. PICK b \in Nat : b = Len(values) /\ b = settled /\ inNative' = FALSE
  <2>1. ~inNative
    BY <1>3 DEF IInv, HostFindsStackClean, NativesMatchFrames
  <2> QED
    BY <1>3, <2>1 DEF IInv, HostFindsStackClean, TypeOK
<1>5. FromHost(ExitPos, b)
  BY <1>3, <1>4 DEF FromHost
<1>6. PICK none \in Seq(Value) : none = <<>>
  <2>1. <<>> \in Seq(Value)
    OBVIOUS
  <2> QED
    BY <2>1
<1>7. Entering(f, ExitPos, b)
  <2>1. PushFrame(values \o args, ExitPos, n, f, none) /\ pc' = EntryPos(f) /\ natives' = natives
    BY <1>2, <1>3, <1>6
  <2> QED
    BY <1>1, <1>4, <1>5, <2>1, OutsideEnters
<1>8. Control = "host"
  BY <1>5, <1>7, EnterControl
<1>9. Abstract!CallerGivesArguments /\ Abstract!ObjectsGrow /\ Abstract!NoNewCoroutine
  BY <1>3, <1>7, EnterShows, ObjectsStay
<1>10. Abstract!Last(Acts').pos = EntryPos(f)
  BY <1>3, <1>7, EnterFields
<1> QED
  BY <1>3, <1>8, <1>9, <1>10 DEF Abstract!Next, Abstract!Enter

\* A sequence begins another one that is made from it by adding values.
LEMMA JoinPrefix ==
    ASSUME NEW S, NEW s \in Seq(S), NEW t \in Seq(S)
    PROVE  Abstract!IsPrefix(s, s \o t)
<1>1. PICK u \in Seq(S) : u = s \o t /\ Len(u) = Len(s) + Len(t)
  <2>1. s \o t \in Seq(S) /\ Len(s \o t) = Len(s) + Len(t)
    OBVIOUS
  <2> QED
    BY <2>1
<1>2. Len(s) \in Nat /\ Len(t) \in Nat /\ \A i \in 1..Len(s) : u[i] = s[i]
  <2>1. \A i \in 1..Len(s) : (s \o t)[i] = s[i]
    OBVIOUS
  <2> QED
    BY <1>1, <2>1
<1>3. Len(s) <= Len(u)
  BY <1>1, <1>2
<1>4. SubSeq(s, 1, Len(s)) = SubSeq(u, 1, Len(s))
  <2>1. PICK m \in Nat : m = Len(s) /\ m <= Len(u)
    BY <1>2, <1>3
  <2>2. PICK v \in Seq(S) : v = SubSeq(u, 1, m) /\ Len(v) = m /\ \A i \in 1..m : v[i] = u[i]
    <3>1. m \in 0..Len(u)
      BY <2>1
    <3> QED
      BY <3>1, CutType
  <2>3. v = s
    BY <1>2, <2>1, <2>2, SameSequence
  <2>4. SubSeq(s, 1, Len(s)) = s
    OBVIOUS
  <2> QED
    BY <2>1, <2>2, <2>3, <2>4
<1> QED
  BY <1>1, <1>3, <1>4 DEF Abstract!IsPrefix

\* The arguments of a call that comes to nothing go to the ground.
LEMMA HostCallUnknownShows ==
    ASSUME IInv, IInv', HostCallUnknown
    PROVE  Abstract!Next
<1>1. PICK n \in 0..MaxArgs : HostCallUnknown!(n) /\ n \in Nat
  <2>1. PICK n \in 0..MaxArgs : HostCallUnknown!(n)
    BY DEF HostCallUnknown
  <2>2. n \in Nat
    BY ConstantsAssumption
  <2> QED
    BY <2>1, <2>2
<1>2. PICK args \in [1..n -> Plain] : values' = values \o args
  BY <1>1
<1>3. /\ phase = "idle" /\ frames = <<>> /\ frames' = <<>>
      /\ UNCHANGED <<frames, framePointer, pc, phase, natives, inNative, objects>>
  BY <1>1 DEF IInv, HostFindsStackClean
<1>4. Control = "host" /\ Control' = "host" /\ ~AtExit /\ ~AtExit'
  BY <1>3 DEF Control, Live, AtExit, IInv, NativesMatchFrames
<1>5. Acts = <<>> /\ Acts' = <<>>
  <2>1. ActsFacts /\ ActsFacts'
    BY ActsShape, PTL
  <2> QED
    BY <1>3, <2>1 DEF ActsFacts
<1>6. Ground = values /\ Ground' = values \o args /\ values \in Seq(Value) /\ args \in Seq(Value)
  <2>1. values \in Seq(Value) /\ values' \in Seq(Value) /\ args \in Seq(Value)
    BY <1>1, ValueFacts DEF IInv, TypeOK
  <2>2. Ground = SubSeq(values, 1, Len(values)) /\ Ground' = SubSeq(values', 1, Len(values'))
    <3>1. Len(values) \in Nat /\ Len(values') \in Nat
      BY <2>1
    <3> QED
      BY <1>3, <1>4, <3>1 DEF Ground, Owned
  <2>3. SubSeq(values, 1, Len(values)) = values /\ SubSeq(values', 1, Len(values')) = values'
    BY <2>1
  <2> QED
    BY <1>2, <2>1, <2>2, <2>3
<1>7. Abstract!IsPrefix(Ground, Ground')
  BY <1>6, JoinPrefix
<1> QED
  BY <1>3, <1>4, <1>5, <1>7 DEF Abstract!Next, Abstract!Refuse
=============================================================================
