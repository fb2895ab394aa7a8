-------------------------- MODULE RefinementProofs --------------------------
(***************************************************************************)
(* The machine implements Activations: leaving an activation, throwing and *)
(* writing a global, and the theorem.                                      *)
(***************************************************************************)
EXTENDS RefinementSteps

-----------------------------------------------------------------------------
(* Leaving *)

\* What leaving the n-th frame with the value v changes.
Leaving(n, v) ==
    /\ n \in Nat /\ n \in 1..n /\ n = Len(frames) /\ Len(frames') = n - 1 /\ n - 1 \in Nat
    /\ \A i \in 1..(n - 1) : frames'[i] = frames[i]
    /\ natives' = natives /\ pc' = frames[n].ret /\ Base(n) = framePointer
    /\ framePointer' = frames[n].prev /\ frames[n].prev = Base(n - 1)
    /\ framePointer \in Nat /\ framePointer <= Len(values)
    /\ values \in Seq(Value) /\ values' \in Seq(Value) /\ Len(values') = framePointer + 1
    /\ \A i \in 1..framePointer : values'[i] = values[i]
    /\ values'[framePointer + 1] = v
    /\ Control = "code" /\ GoesOnAt(n) = pc /\ Owned = Len(values) /\ ~inNative' /\ Live'

LEMMA LeavingFacts ==
    ASSUME IInv, NEW v, Leaves(v)
    PROVE  \E n \in Nat : Leaving(n, v)
<1>1. /\ Running /\ pc # InitPos /\ v \in Value /\ frames # <<>>
      /\ values' = SubSeq(values, 1, framePointer) \o <<v>>
      /\ framePointer' = Last(frames).prev /\ frames' = Front(frames)
      /\ pc' = Last(frames).ret /\ UNCHANGED <<phase, natives, inNative, settled>>
  BY DEF Leaves, PopFrame
<1>2. PICK n \in Nat : n = Len(frames) /\ n # 0
  BY <1>1, FramesFront DEF IInv, TypeOK
<1>3. /\ n \in 1..n /\ n - 1 \in Nat /\ Len(frames') = n - 1 /\ Last(frames) = frames[n]
      /\ \A i \in 1..(n - 1) : frames'[i] = frames[i]
  BY <1>1, <1>2, FramesFront DEF IInv, TypeOK
<1>4. Base(n) = framePointer /\ frames[n].prev = Base(n - 1)
  BY <1>2, <1>3 DEF Base
<1>5. ~AtExit /\ Control = "code" /\ GoesOnAt(n) = pc /\ Owned = Len(values) /\ ~inNative' /\ Live'
  <2>1. ~AtExit /\ Control = "code" /\ GoesOnAt(n) = pc /\ ~inNative' /\ Live'
    BY <1>1, <1>2 DEF Running, AtExit, Control, GoesOnAt, Live
  <2>2. Len(values) \in Nat
    BY TypeFacts DEF IInv
  <2> QED
    BY <2>1, <2>2 DEF Owned
<1>6. values \in Seq(Value) /\ framePointer \in Nat /\ framePointer <= Len(values) /\ Len(values) \in Nat
  <2>1. framePointer <= Owned /\ Owned <= Len(values) /\ framePointer \in Nat /\ Len(values) \in Nat
    BY BaseFacts DEF IInv
  <2> QED
    BY <1>5, <2>1 DEF IInv, TypeOK
<1>7. /\ values' \in Seq(Value) /\ Len(values') = framePointer + 1 /\ values'[framePointer + 1] = v
      /\ \A i \in 1..framePointer : values'[i] = values[i]
  <2>1. PICK u \in Seq(Value) : u = SubSeq(values, 1, framePointer) /\ Len(u) = framePointer
                                /\ \A i \in 1..framePointer : u[i] = values[i]
    <3>1. framePointer \in 0..Len(values)
      BY <1>6
    <3> QED
      BY <1>6, <3>1, CutType
  <2>2. values' = Append(u, v)
    BY <1>1, <2>1
  <2> QED
    BY <1>1, <1>6, <2>1, <2>2
<1> QED
  BY <1>1, <1>2, <1>3, <1>4, <1>5, <1>6, <1>7 DEF Leaving

\* Control comes back to who entered the frame.
LEMMA LeavingControl ==
    ASSUME IInv, IInv', NEW v, NEW n \in Nat, Leaving(n, v)
    PROVE  /\ Control' = EnteredBy(n)
           /\ EnteredBy(n) = "code" => ~AtExit' /\ Owned' = framePointer + 1 /\ frames[n].ret # ExitPos
           /\ EnteredBy(n) # "code" => /\ AtExit' /\ Owned' = framePointer /\ frames[n].ret = ExitPos
                                       /\ n > 1 => natives # <<>> /\ natives[Len(natives)].depth = n - 1
<1>1. framePointer \in Nat /\ (framePointer + 1) - 1 = framePointer /\ (framePointer + 1) - 0 = framePointer + 1
  BY DEF Leaving
<1>2. CASE frames[n].ret # ExitPos
  <2>1. ~AtExit' /\ EnteredBy(n) = "code" /\ Control' = "code"
    BY <1>2 DEF Leaving, AtExit, EnteredBy, Control
  <2>2. Owned' = framePointer + 1
    BY <1>1, <2>1 DEF Leaving, Owned
  <2> QED
    BY <1>2, <2>1, <2>2
<1>3. CASE frames[n].ret = ExitPos
  <2>1. AtExit' /\ Owned' = framePointer
    BY <1>1, <1>3 DEF Leaving, AtExit, Owned
  <2>2. IF natives = <<>> THEN frames' = <<>> ELSE natives[Len(natives)].depth = n - 1
    BY <2>1 DEF IInv, NativesMatchFrames, Leaving
  <2>3. CASE natives = <<>>
    <3>1. NativesAt(n - 1) = {}
      BY <2>3 DEF NativesAt
    <3>2. n - 1 = 0
      BY <2>2, <2>3 DEF Leaving
    <3>3. ~(n > 1)
      BY <3>2
    <3>4. EnteredBy(n) = "host" /\ Control' = "host"
      BY <1>3, <2>1, <2>3, <3>1 DEF EnteredBy, Control, Leaving
    <3> QED
      BY <1>3, <2>1, <3>3, <3>4
  <2>4. CASE natives # <<>>
    <3>1. Len(natives) \in DOMAIN natives
      BY <2>4, TypeFacts DEF IInv
    <3>2. NativesAt(n - 1) # {}
      BY <2>2, <2>4, <3>1 DEF NativesAt
    <3>3. EnteredBy(n) = "native" /\ Control' = "native"
      BY <1>3, <2>1, <2>4, <3>2 DEF EnteredBy, Control, Leaving
    <3> QED
      BY <1>3, <2>1, <2>2, <2>4, <3>3
  <2> QED
    BY <2>3, <2>4
<1> QED
  BY <1>2, <1>3

LEMMA NewestNativeAlways ==
    IInv /\ natives # <<>> /\ natives[Len(natives)].depth = Len(frames) =>
        NativesAt(Len(frames)) = {Len(natives)}
BY NewestNative

\* The activations below the one that leaves stay; the next one gets a value
\* if it is code that had entered it.
LEMMA LeavingBelow ==
    ASSUME IInv, IInv', NEW v, NEW n \in Nat, Leaving(n, v), NEW k \in Nat, k = n - 1, k # 0
    PROVE  /\ \A i \in 1..(k - 1) : Acts'[i] = Acts[i]
           /\ Ground' = Ground
           /\ Acts[k] = [pos |-> GoesOnAt(k), vals |-> Part(Base(k), framePointer),
                         armed |-> frames[k].armed, by |-> EnteredBy(k)]
           /\ Acts'[k] = [pos |-> GoesOnAt(k), vals |-> NewPart(Base(k), Owned'),
                          armed |-> frames[k].armed, by |-> EnteredBy(k)]
           /\ Base(k) \in Nat /\ Base(k) <= framePointer
<1>1. /\ n = Len(frames) /\ k = Len(frames') /\ k + 1 = n /\ k \in 1..n /\ k \in 1..k /\ k # n /\ k \in 0..n /\ n > 1
      /\ \A i \in 1..k : i \in 1..n /\ frames'[i] = frames[i]
  <2>1. n = Len(frames) /\ k = Len(frames') /\ \A i \in 1..k : frames'[i] = frames[i]
    BY DEF Leaving
  <2>2. k + 1 = n /\ k \in 1..n /\ k \in 1..k /\ k # n /\ k \in 0..n /\ n > 1 /\ \A i \in 1..k : i \in 1..n
    OBVIOUS
  <2> QED
    BY <2>1, <2>2
<1>2. ActsFacts /\ ActsFacts' /\ TopFacts /\ TopFacts'
  BY ActsShape, TopShape, PTL
<1>3. Base(k) \in Nat /\ Base(k) <= framePointer /\ Base(1) \in Nat /\ Base(1) <= framePointer /\ Base(1) <= Base(k)
  <2>1. 1 \in 0..n /\ 1 <= k
    BY <1>1
  <2> QED
    BY <1>1, <2>1, BaseFacts DEF IInv, WindowsFit
<1>4. framePointer' = Base(k) /\ Base(k)' = Base(k)
  <2>1. framePointer' = Base(k)
    BY <1>1 DEF Leaving
  <2>2. Base(k)' = framePointer'
    BY <1>1 DEF Base
  <2> QED
    BY <2>1, <2>2
<1>5. SameBelow(k)
  <2>1. \A d \in 0..(k - 1) : NativesAt(d)' = NativesAt(d) /\ \A j \in NativesAt(d) : natives'[j].prev = natives[j].prev
    BY SameNatives DEF Leaving
  <2>2. \A i \in 1..(k - 1) : i \in 1..k
    OBVIOUS
  <2> QED
    BY <1>1, <1>4, <2>1, <2>2 DEF SameBelow
<1>6. Agree(1, Base(1)) /\ Agree(Base(1) + 1, Base(k))
  BY <1>3 DEF Agree, Leaving
<1>7. Ground' = Ground /\ (\A i \in 1..(k - 1) : Acts'[i] = Acts[i]) /\ EnteredBy(k) = Acts'[k].by
  <2>1. Acts[k].by = Acts'[k].by
    BY <1>5, BelowStays
  <2>2. Acts[k] = ActivationAt(k)
    BY <1>1, <1>2 DEF ActsFacts
  <2>3. Acts[k].by = EnteredBy(k)
    BY <2>2 DEF ActivationAt
  <2> QED
    BY <1>5, <1>6, <2>1, <2>3, BelowStays
<1>8. Acts[k] = [pos |-> GoesOnAt(k), vals |-> Part(Base(k), framePointer),
                 armed |-> frames[k].armed, by |-> EnteredBy(k)]
  <2>1. Acts[k] = ActivationAt(k) /\ Base(k + 1) = framePointer
    BY <1>1, <1>2 DEF ActsFacts, Leaving
  <2> QED
    BY <1>1, <2>1 DEF ActivationAt, Part
<1>9. GoesOnAt(k)' = GoesOnAt(k)
  <2>1. CASE EnteredBy(n) = "code"
    <3>1. ~AtExit' /\ frames[n].ret # ExitPos
      BY <2>1, LeavingControl
    <3>2. GoesOnAt(k)' = pc'
      BY <1>1, <3>1 DEF GoesOnAt
    <3>3. GoesOnAt(k) = frames[n].ret
      BY <1>1, <3>1 DEF GoesOnAt
    <3> QED
      BY <3>2, <3>3 DEF Leaving
  <2>2. CASE EnteredBy(n) # "code"
    <3>1. AtExit' /\ frames[n].ret = ExitPos /\ natives # <<>> /\ natives[Len(natives)].depth = k
      BY <1>1, <2>2, LeavingControl
    <3>2. natives' = natives
      BY DEF Leaving
    <3>3. NativesAt(k)' = {Len(natives)}
      <4>1. (natives # <<>> /\ natives[Len(natives)].depth = Len(frames))' => (NativesAt(Len(frames)) = {Len(natives)})'
        BY NewestNativeAlways, PTL
      <4> QED
        BY <1>1, <3>1, <3>2, <4>1
    <3>4. NativesAt(k) = {Len(natives)}
      BY <3>2, <3>3 DEF NativesAt
    <3>5. GoesOnAt(k)' = natives[Len(natives)].prev
      BY <1>1, <3>1, <3>2 DEF GoesOnAt, Last
    <3>6. GoesOnAt(k) = natives[Len(natives)].prev
      BY <1>1, <3>1, <3>4 DEF GoesOnAt
    <3> QED
      BY <3>5, <3>6
  <2> QED
    BY <2>1, <2>2
<1>10. Acts'[k] = [pos |-> GoesOnAt(k), vals |-> NewPart(Base(k), Owned'),
                   armed |-> frames[k].armed, by |-> EnteredBy(k)]
  <2>1. Acts'[k] = [pos |-> GoesOnAt(k)', vals |-> Part(framePointer, Owned)',
                    armed |-> frames'[k].armed, by |-> EnteredBy(k)']
    <3>1. frames' # <<>>
      BY <1>1, <1>2 DEF ActsFacts
    <3> QED
      BY <1>1, <1>2, <3>1 DEF TopFacts
  <2>2. Part(framePointer, Owned)' = NewPart(Base(k), Owned')
    BY <1>4 DEF Part, NewPart
  <2>3. EnteredBy(k)' = EnteredBy(k)
    BY <1>7, <2>1
  <2> QED
    BY <1>1, <1>9, <2>1, <2>2, <2>3
<1> QED
  BY <1>3, <1>7, <1>8, <1>10

NewCoroutinesLeft ==
    \A i \in DOMAIN objects' \ DOMAIN objects :
        objects'[i].kind = "coroutine" =>
            /\ objects'[i].resume.fx = Abstract!Top.pos.fx
            /\ objects'[i].context = Abstract!Top.pos.fx
            /\ objects'[i].locals =
                   IF Abstract!Top.pos = BodyPos(Abstract!Top.pos.fx)
                   THEN Abstract!Front(Abstract!Top.vals) ELSE Abstract!Top.vals

\* The activation that leaves.
LEMMA LeavingTop ==
    ASSUME IInv, NEW v, NEW n \in Nat, Leaving(n, v)
    PROVE  /\ Acts # <<>> /\ Len(Acts) = n /\ Acts \in Seq(Act)
           /\ Abstract!Top.pos = pc /\ Abstract!Top.vals = Part(framePointer, Len(values))
           /\ Abstract!Top.by = EnteredBy(n)
           /\ Abstract!Front(Acts) = SubSeq(Acts, 1, n - 1)
<1>1. ActsFacts /\ TopFacts /\ frames # <<>> /\ n = Len(frames)
  BY ActsShape, TopShape DEF Leaving, ActsFacts
<1>2. PICK r, pos, vals, armed, by :
          /\ r = Abstract!Top /\ pos = pc /\ vals = Part(framePointer, Len(values)) /\ by = EnteredBy(n)
          /\ r = [pos |-> pos, vals |-> vals, armed |-> armed, by |-> by]
  BY <1>1 DEF TopFacts, Leaving, Abstract!Top
<1>3. r.pos = pos /\ r.vals = vals /\ r.by = by
  BY <1>2, FieldsOf
<1> QED
  BY <1>1, <1>2, <1>3 DEF ActsFacts, TopFacts

\* The value pushed for code is all that is new in its values.
LEMMA LeavingPushes ==
    ASSUME NEW v, NEW n \in Nat, Leaving(n, v), NEW b \in Nat, b <= framePointer
    PROVE  /\ NewPart(b, framePointer) = Part(b, framePointer)
           /\ Abstract!Front(NewPart(b, framePointer + 1)) = Part(b, framePointer)
<1>1. /\ values \in Seq(Value) /\ values' \in Seq(Value) /\ framePointer \in Nat
      /\ framePointer <= Len(values) /\ Len(values') = framePointer + 1
      /\ framePointer <= Len(values') /\ Agree(b + 1, framePointer)
  BY DEF Leaving, Agree
<1>2. PICK e \in Nat, m \in Nat : m = framePointer /\ e = m + 1
  BY <1>1
<1>3. NewPart(b, m) = Part(b, m)
  BY <1>1, <1>2, PartStays
<1>4. Abstract!Front(NewPart(b, e)) = Part(b, m)
  <2>1. e <= Len(values') /\ m <= Len(values) /\ Agree(b + 1, m) /\ b <= m
    BY <1>1, <1>2
  <2> QED
    BY <1>1, <1>2, <2>1, PartGrows
<1> QED
  BY <1>2, <1>3, <1>4

LEMMA LeavesGround ==
    ASSUME IInv, IInv', NEW v, NEW n \in Nat, Leaving(n, v), n = 1
    PROVE  Acts' = <<>> /\ Ground = Part(0, framePointer) /\ Ground' = NewPart(0, Owned')
<1>1. ActsFacts /\ TopFacts /\ ActsFacts' /\ frames # <<>> /\ frames' = <<>> /\ Base(1) = framePointer
  <2>1. ActsFacts /\ TopFacts /\ ActsFacts'
    BY ActsShape, TopShape, PTL
  <2>2. Len(frames) = 1 /\ Len(frames') = 0
    BY DEF Leaving
  <2> QED
    BY <2>1, <2>2 DEF ActsFacts, Leaving
<1>2. Acts' = <<>> /\ Ground = Part(0, framePointer)
  BY <1>1 DEF ActsFacts, TopFacts
<1>3. Ground' = NewPart(0, Owned')
  <2>1. Ground' = SubSeq(values', 1, Owned')
    BY <1>1 DEF Ground
  <2>2. 0 + 1 = 1
    OBVIOUS
  <2> QED
    BY <2>1, <2>2, Zenon DEF NewPart
<1> QED
  BY <1>2, <1>3

LEMMA FrontOfFront ==
    ASSUME NEW S, NEW u \in Seq(S), NEW k \in Nat, k # 0, k <= Len(u)
    PROVE  /\ Abstract!Last(SubSeq(u, 1, k)) = u[k]
           /\ Abstract!Front(SubSeq(u, 1, k)) = SubSeq(u, 1, k - 1)
<1>1. PICK w \in Seq(S) : w = SubSeq(u, 1, k) /\ Len(w) = k /\ \A i \in 1..k : w[i] = u[i]
  <2>1. k \in 0..Len(u)
    OBVIOUS
  <2> QED
    BY <2>1, CutType
<1>2. k \in 1..k /\ k - 1 \in Nat /\ \A i \in 1..(k - 1) : i \in 1..k
  OBVIOUS
<1>3. Abstract!Last(w) = u[k]
  BY <1>1, <1>2 DEF Abstract!Last
<1>4. SubSeq(w, 1, k - 1) = SubSeq(u, 1, k - 1)
  <2>1. PICK j \in Nat : j = k - 1 /\ j <= Len(w) /\ j <= Len(u)
    BY <1>1, <1>2
  <2>2. \A i \in 1..j : w[i] = u[i]
    BY <1>1, <1>2, <2>1
  <2> QED
    BY <2>1, <2>2, SameWindow
<1> QED
  BY <1>1, <1>3, <1>4 DEF Abstract!Front

\* The activations after one has left: those below it, the topmost of them
\* with the values it now has.
LEMMA LeavingActs ==
    ASSUME IInv, IInv', NEW v, NEW n \in Nat, Leaving(n, v), NEW k \in Nat, k = n - 1, k # 0
    PROVE  /\ Len(Acts') = k /\ Acts' \in Seq(Act)
           /\ Abstract!Last(Abstract!Front(Acts)) = Acts[k] /\ Abstract!Last(Acts') = Acts'[k]
           /\ Acts' = Abstract!Front(Abstract!Front(Acts)) \o <<Acts'[k]>>
           /\ Acts'[k] = Acts[k] => Acts' = Abstract!Front(Acts)
<1>1. PICK u, w : u = Acts /\ w = Acts'
  OBVIOUS
<1>2. u \in Seq(Act) /\ Len(u) = n /\ w \in Seq(Act) /\ Len(w) = k /\ Abstract!Front(u) = SubSeq(u, 1, k)
  <2>1. ActsFacts'
    BY ActsShape, PTL
  <2>2. Acts' \in Seq(Act) /\ Len(Acts') = k
    BY <2>1 DEF ActsFacts, Leaving
  <2> QED
    BY <1>1, <2>2, LeavingTop
<1>3. PICK j \in Nat : j = k - 1 /\ k = j + 1 /\ j <= n /\ k <= n /\ k \in 1..k /\ \A i \in 1..k : i \in 1..j \/ i = k
  <2>1. k - 1 \in Nat /\ k = (k - 1) + 1 /\ k - 1 <= n /\ k <= n /\ k \in 1..k /\ \A i \in 1..k : i \in 1..(k - 1) \/ i = k
    OBVIOUS
  <2> QED
    BY <2>1
<1>4. \A i \in 1..j : w[i] = u[i]
  BY <1>1, <1>3, LeavingBelow
<1>5. Abstract!Last(Abstract!Front(u)) = u[k] /\ Abstract!Front(Abstract!Front(u)) = SubSeq(u, 1, j)
  BY <1>2, <1>3, FrontOfFront
<1>6. w = SubSeq(u, 1, j) \o <<w[k]>>
  BY <1>2, <1>3, <1>4, EndsWith
<1>7. ASSUME w[k] = u[k]
      PROVE  w = Abstract!Front(u)
  <2>1. PICK t \in Seq(Act) : t = SubSeq(u, 1, k) /\ Len(t) = k /\ \A i \in 1..k : t[i] = u[i]
    <3>1. k \in 0..Len(u)
      BY <1>2, <1>3
    <3> QED
      BY <1>2, <3>1, CutType
  <2>2. \A i \in 1..k : w[i] = t[i]
    BY <1>3, <1>4, <1>7, <2>1
  <2>3. w = t
    BY <1>2, <2>1, <2>2, SameSequence
  <2> QED
    BY <1>2, <2>1, <2>3
<1>8. Abstract!Last(w) = w[k]
  BY <1>2 DEF Abstract!Last
<1> QED
  BY <1>1, <1>2, <1>5, <1>6, <1>7, <1>8

LEMMA LeaveShows ==
    ASSUME IInv, IInv', NEW v, Leaves(v), Abstract!ObjectsGrow, NewCoroutinesLeft
    PROVE  Abstract!Next
<1>1. PICK n \in Nat : Leaving(n, v)
  BY LeavingFacts
<1>2. /\ Acts # <<>> /\ Len(Acts) = n /\ Abstract!Top.by = EnteredBy(n) /\ Control = "code"
      /\ Control' = Abstract!Top.by
  BY <1>1, LeavingTop, LeavingControl DEF Leaving
<1>3. PICK k \in Nat : k = n - 1
  BY <1>1 DEF Leaving
<1>4. ASSUME EnteredBy(n) = "code", k = 0
      PROVE  Abstract!Front(Ground') = Ground /\ Acts' = <<>>
  <2>1. Acts' = <<>> /\ Ground = Part(0, framePointer) /\ Ground' = NewPart(0, framePointer + 1)
    BY <1>1, <1>3, <1>4, LeavesGround, LeavingControl
  <2>2. 0 <= framePointer
    BY <1>1 DEF Leaving
  <2> QED
    BY <1>1, <2>1, <2>2, LeavingPushes
<1>5. ASSUME EnteredBy(n) = "code", k # 0
      PROVE  /\ Abstract!Front(Abstract!Last(Acts').vals) = Abstract!Last(Abstract!Front(Acts)).vals
             /\ Acts' = Abstract!Front(Abstract!Front(Acts)) \o
                    <<[Abstract!Last(Abstract!Front(Acts)) EXCEPT !.vals = Abstract!Last(Acts').vals]>>
             /\ Ground' = Ground
  <2>1. Owned' = framePointer + 1
    BY <1>1, <1>5, LeavingControl
  <2>2. PICK pos, old, new, armed, by, r, q :
            /\ r = Acts[k] /\ r = [pos |-> pos, vals |-> old, armed |-> armed, by |-> by]
            /\ q = Acts'[k] /\ q = [pos |-> pos, vals |-> new, armed |-> armed, by |-> by]
            /\ old = Part(Base(k), framePointer) /\ new = NewPart(Base(k), framePointer + 1)
    <3>1. /\ Acts[k] = [pos |-> GoesOnAt(k), vals |-> Part(Base(k), framePointer),
                        armed |-> frames[k].armed, by |-> EnteredBy(k)]
          /\ Acts'[k] = [pos |-> GoesOnAt(k), vals |-> NewPart(Base(k), Owned'),
                         armed |-> frames[k].armed, by |-> EnteredBy(k)]
      BY <1>1, <1>3, <1>5, LeavingBelow
    <3>2. PICK new : new = NewPart(Base(k), framePointer + 1) /\ new = NewPart(Base(k), Owned')
      BY <2>1
    <3>3. PICK old : old = Part(Base(k), framePointer)
      OBVIOUS
    <3>4. PICK pos, armed, by : pos = GoesOnAt(k) /\ armed = frames[k].armed /\ by = EnteredBy(k)
      OBVIOUS
    <3>5. PICK r, q : r = Acts[k] /\ q = Acts'[k]
      OBVIOUS
    <3>6. /\ r = [pos |-> pos, vals |-> old, armed |-> armed, by |-> by]
          /\ q = [pos |-> pos, vals |-> new, armed |-> armed, by |-> by]
      BY <3>1, <3>2, <3>3, <3>4, <3>5
    <3> QED
      BY <3>2, <3>3, <3>5, <3>6
  <2>3. Abstract!Front(new) = old
    BY <1>1, <1>3, <1>5, <2>2, LeavingBelow, LeavingPushes
  <2>4. r.vals = old /\ q.vals = new /\ q = [r EXCEPT !.vals = new]
    BY <2>2, ValuesReplaced
  <2>5. /\ Abstract!Last(Abstract!Front(Acts)) = r /\ Abstract!Last(Acts') = q
        /\ Acts' = Abstract!Front(Abstract!Front(Acts)) \o <<q>>
    BY <1>1, <1>3, <1>5, <2>2, LeavingActs
  <2> QED
    BY <1>1, <1>3, <1>5, <2>3, <2>4, <2>5, LeavingBelow
<1>6. ASSUME EnteredBy(n) # "code"
      PROVE  Acts' = Abstract!Front(Acts) /\ Ground' = Ground
  <2>1. Owned' = framePointer
    BY <1>1, <1>6, LeavingControl
  <2>2. CASE k = 0
    <3>1. Acts' = <<>> /\ Ground = Part(0, framePointer) /\ Ground' = NewPart(0, framePointer)
      BY <1>1, <1>3, <2>1, <2>2, LeavesGround
    <3>2. NewPart(0, framePointer) = Part(0, framePointer)
      <4>1. 0 <= framePointer
        BY <1>1 DEF Leaving
      <4> QED
        BY <1>1, <4>1, LeavingPushes
    <3>3. Abstract!Front(Acts) = <<>>
      BY <1>1, <1>3, <2>2, LeavingTop
    <3> QED
      BY <3>1, <3>2, <3>3
  <2>3. CASE k # 0
    <3>1. Acts'[k] = Acts[k] /\ Ground' = Ground
      <4>1. Base(k) \in Nat /\ Base(k) <= framePointer
        BY <1>1, <1>3, <2>3, LeavingBelow
      <4>2. NewPart(Base(k), Owned') = Part(Base(k), framePointer)
        BY <1>1, <2>1, <4>1, LeavingPushes
      <4>3. /\ Acts[k] = [pos |-> GoesOnAt(k), vals |-> Part(Base(k), framePointer),
                          armed |-> frames[k].armed, by |-> EnteredBy(k)]
            /\ Acts'[k] = [pos |-> GoesOnAt(k), vals |-> NewPart(Base(k), Owned'),
                           armed |-> frames[k].armed, by |-> EnteredBy(k)]
            /\ Ground' = Ground
        BY <1>1, <1>3, <2>3, LeavingBelow
      <4>4. PICK same : same = NewPart(Base(k), Owned') /\ same = Part(Base(k), framePointer)
        BY <4>2
      <4>5. PICK pos, armed, by : pos = GoesOnAt(k) /\ armed = frames[k].armed /\ by = EnteredBy(k)
        OBVIOUS
      <4>6. /\ Acts[k] = [pos |-> pos, vals |-> same, armed |-> armed, by |-> by]
            /\ Acts'[k] = [pos |-> pos, vals |-> same, armed |-> armed, by |-> by]
        BY <4>3, <4>4, <4>5
      <4> QED
        BY <4>3, <4>6
    <3> QED
      BY <1>1, <1>3, <2>3, <3>1, LeavingActs
  <2> QED
    BY <2>2, <2>3
<1>7. Abstract!Leave
  <2>1. Len(Acts) = 1 <=> k = 0
    BY <1>2, <1>3
  <2>2. CASE EnteredBy(n) = "code"
    BY <1>2, <1>4, <1>5, <2>1, <2>2 DEF Abstract!Leave, NewCoroutinesLeft
  <2>3. CASE EnteredBy(n) # "code"
    BY <1>2, <1>6, <2>3 DEF Abstract!Leave, NewCoroutinesLeft
  <2> QED
    BY <2>2, <2>3
<1> QED
  BY <1>7 DEF Abstract!Next

LEMMA ReturnShows ==
    ASSUME IInv, IInv', Return \/ ReturnNull
    PROVE  Abstract!Next
<1>1. PICK v \in Value : Leave(v)
  BY TemporariesFacts, ValueFacts DEF Return, ReturnNull
<1>2. Leaves(v)
  BY <1>1, SameObjects DEF Leave, Leaves, InCode
<1>3. Abstract!ObjectsGrow /\ NewCoroutinesLeft
  BY <1>1, ObjectsStay DEF Leave, Abstract!NoNewCoroutine, NewCoroutinesLeft
<1> QED
  BY <1>2, <1>3, LeaveShows

\* A tuple is no coroutine.
LEMMA CoReturnShows ==
    ASSUME IInv, IInv', CoReturn
    PROVE  Abstract!Next
<1>1. /\ InCoroutine /\ pc.at = "body" /\ HasTemporaries(1) /\ Len(objects) < MaxObjects
      /\ objects' = Append(objects, TupleObject(Null, Last(values))) /\ PopFrame(<<NewRef(1)>>)
      /\ pc' = Last(frames).ret /\ UNCHANGED <<phase, natives, inNative, settled>>
  BY DEF CoReturn
<1>2. /\ NewRef(1) \in Value /\ Last(values) \in Value /\ Null \in Value /\ pc # InitPos
  BY <1>1, NewRefType, TemporariesFacts, ValueFacts, PositionFacts DEF IInv
<1>3. TupleObject(Null, Last(values)) \in Object /\ TupleObject(Null, Last(values)).kind = "tuple"
  BY <1>2, TupleFacts DEF TupleObject
<1>4. Leaves(NewRef(1))
  BY <1>1, <1>2 DEF Leaves, InCoroutine, IInv, TypeOK
<1>5. Abstract!ObjectsGrow /\ NewCoroutinesLeft
  BY <1>1, <1>3, OneObjectAppended DEF NewCoroutinesLeft
<1> QED
  BY <1>4, <1>5, LeaveShows

\* All but the topmost value of an upper part of the vector.
LEMMA FrontOfUpperPart ==
    ASSUME NEW s \in Seq(Value), NEW b \in Nat, b + 1 <= Len(s)
    PROVE  Abstract!Front(SubSeq(s, b + 1, Len(s))) = SubSeq(s, b + 1, Len(s) - 1)
<1>1. PICK l \in Nat : l = Len(s) /\ b + 1 <= l
  OBVIOUS
<1>2. PICK w \in Nat : l - 1 = b + w
  <2>1. (l - 1) - b \in Nat /\ l - 1 = b + ((l - 1) - b)
    BY <1>1
  <2> QED
    BY <2>1
<1>3. l \in Nat /\ b <= l /\ l - b = w + 1 /\ l - 1 \in Nat /\ b <= l - 1 /\ l - 1 <= l /\ (l - 1) - b = w
  BY <1>1, <1>2
<1>4. PICK u : u = SubSeq(s, b + 1, l)
  OBVIOUS
<1>5. PICK t : t = SubSeq(s, b + 1, l - 1)
  OBVIOUS
<1>6. u \in Seq(Value) /\ Len(u) = w + 1 /\ \A i \in 1..(w + 1) : u[i] = s[b + i]
  BY <1>1, <1>3, <1>4, PartType
<1>7. t \in Seq(Value) /\ Len(t) = w /\ \A i \in 1..w : t[i] = s[b + i]
  BY <1>1, <1>3, <1>5, PartType
<1>8. \A i \in 1..w : u[i] = t[i]
  <2>1. \A i \in 1..w : i \in 1..(w + 1)
    BY <1>2
  <2>2. \A i \in 1..w : u[i] = s[b + i]
    BY <2>1, <1>6, Zenon
  <2>3. \A i \in 1..w : t[i] = s[b + i]
    BY <1>7, Zenon
  <2> QED
    BY <2>2, <2>3, Zenon
<1>9. Abstract!Front(u) = t
  BY <1>6, <1>7, <1>8, OneLonger
<1> QED
  BY <1>1, <1>4, <1>5, <1>9

\* The coroutine keeps the values the activation has, at its beginning all and
\* later all but the one it yields.
LEMMA SavedCoroutine ==
    ASSUME IInv, InCoroutine, NEW m \in Nat, HasTemporaries(m), NEW v, Leaves(v),
           (m = 0 /\ pc.at = "entry") \/ (m = 1 /\ pc.at = "body")
    PROVE  /\ CoroutineObject(m).resume.fx = Abstract!Top.pos.fx
           /\ CoroutineObject(m).context = Abstract!Top.pos.fx
           /\ CoroutineObject(m).locals =
                  IF Abstract!Top.pos = BodyPos(Abstract!Top.pos.fx)
                  THEN Abstract!Front(Abstract!Top.vals) ELSE Abstract!Top.vals
<1>1. PICK n \in Nat : Leaving(n, v)
  BY LeavingFacts
<1>2. Abstract!Top.pos = pc /\ Abstract!Top.vals = Part(framePointer, Len(values))
  BY <1>1, LeavingTop
<1>3. Live /\ frames # <<>> /\ pc \in FunctionPos /\ Last(frames).context = pc.fx
  <2>1. Live /\ frames # <<>> /\ pc \in Position /\ pc # InitPos /\ pc # ExitPos
    BY TypeFacts DEF IInv, InCoroutine, Running, Live, Leaves
  <2> QED
    BY <2>1 DEF Position, IInv, CodeMatchesFrames, Last
<1>4. pc = BodyPos(pc.fx) <=> m = 1
  BY <1>3 DEF BodyPos, FunctionPos
<1>5. /\ CoroutineObject(m).resume.fx = pc.fx /\ CoroutineObject(m).context = pc.fx
      /\ CoroutineObject(m).locals = Window(m)
  BY <1>3 DEF CoroutineObject, BodyPos
<1>6. CASE m = 0
  <2>1. Len(values) - 0 = Len(values)
    BY TypeFacts DEF IInv
  <2>2. Window(m) = Part(framePointer, Len(values))
    BY <1>6, <2>1 DEF Window, Part
  <2> QED
    BY <1>2, <1>4, <1>5, <1>6, <2>2
<1>7. CASE m = 1
  <2>1. /\ framePointer \in Nat /\ framePointer + 1 <= Len(values) /\ values \in Seq(Value)
    <3>1. framePointer \in Nat /\ Slots(pc) \in Nat /\ framePointer + Slots(pc) <= Len(values) - 1 /\ Len(values) \in Nat
      BY <1>7, TemporariesFacts, TypeFacts DEF IInv
    <3>2. values \in Seq(Value)
      BY DEF IInv, TypeOK
    <3> QED
      BY <3>1, <3>2
  <2>2. Abstract!Front(Part(framePointer, Len(values))) = SubSeq(values, framePointer + 1, Len(values) - 1)
    BY <2>1, FrontOfUpperPart DEF Part
  <2>3. SubSeq(values, framePointer + 1, Len(values) - 1) = Window(1)
    BY DEF Window
  <2> QED
    BY <1>2, <1>4, <1>5, <1>7, <2>2, <2>3
<1> QED
  BY <1>6, <1>7

LEMMA CoDumpShows ==
    ASSUME IInv, IInv', CoDump
    PROVE  Abstract!Next
<1>1. /\ InCoroutine /\ pc.at = "entry" /\ Len(objects) < MaxObjects
      /\ objects' = Append(objects, CoroutineObject(0)) /\ PopFrame(<<NewRef(1)>>)
      /\ pc' = Last(frames).ret /\ UNCHANGED <<phase, natives, inNative, settled>>
  BY DEF CoDump
<1>2. HasTemporaries(0)
  BY <1>1, BaseFacts, SlotsType, TypeFacts DEF IInv, InCoroutine, Running, Live, WindowsFit, HasTemporaries
<1>3. CoroutineObject(0) \in Object /\ pc # InitPos /\ NewRef(1) \in Value
  BY <1>1, <1>2, CoroutineObjectFacts, NewRefType DEF IInv
<1>4. Leaves(NewRef(1))
  BY <1>1, <1>3 DEF Leaves, InCoroutine, IInv, TypeOK
<1>5. /\ Abstract!ObjectsGrow
      /\ \A i \in DOMAIN objects' \ DOMAIN objects : objects'[i] = CoroutineObject(0)
  BY <1>1, <1>3, OneObjectAppended
<1>6. /\ CoroutineObject(0).resume.fx = Abstract!Top.pos.fx
      /\ CoroutineObject(0).context = Abstract!Top.pos.fx
      /\ CoroutineObject(0).locals =
             IF Abstract!Top.pos = BodyPos(Abstract!Top.pos.fx)
             THEN Abstract!Front(Abstract!Top.vals) ELSE Abstract!Top.vals
  <2>1. 0 \in Nat
    OBVIOUS
  <2>2. InCoroutine /\ ((0 = 0 /\ pc.at = "entry") \/ (0 = 1 /\ pc.at = "body"))
    BY <1>1
  <2> HIDE DEF Leaves
  <2> QED
    BY <2>1, <2>2, <1>2, <1>4, SavedCoroutine
<1>7. NewCoroutinesLeft
  BY <1>5, <1>6 DEF NewCoroutinesLeft
<1> QED
  BY <1>4, <1>5, <1>7, LeaveShows

LEMMA YieldShows ==
    ASSUME IInv, IInv', Yield
    PROVE  Abstract!Next
<1> DEFINE coroutine == CoroutineObject(1)
           tuple == TupleObject(NewRef(1), Last(values))
<1>1. /\ InCoroutine /\ pc.at = "body" /\ HasTemporaries(1) /\ Len(objects) + 2 <= MaxObjects
      /\ objects' = objects \o <<coroutine, tuple>> /\ PopFrame(<<NewRef(2)>>)
      /\ pc' = Last(frames).ret /\ UNCHANGED <<phase, natives, inNative, settled>>
  BY DEF Yield
<1>2. NewRef(1) \in Value /\ NewRef(2) \in Value /\ Last(values) \in Value
  BY <1>1, NewRefType, TemporariesFacts DEF IInv
<1>3. coroutine \in Object /\ pc # InitPos /\ tuple \in Object /\ tuple.kind = "tuple"
  BY <1>1, <1>2, CoroutineObjectFacts, TupleFacts DEF TupleObject
<1>4. Leaves(NewRef(2))
  BY <1>1, <1>2, <1>3 DEF Leaves, InCoroutine, IInv, TypeOK
<1>5. /\ coroutine.resume.fx = Abstract!Top.pos.fx
      /\ coroutine.context = Abstract!Top.pos.fx
      /\ coroutine.locals =
             IF Abstract!Top.pos = BodyPos(Abstract!Top.pos.fx)
             THEN Abstract!Front(Abstract!Top.vals) ELSE Abstract!Top.vals
  BY <1>1, <1>4, SavedCoroutine
<1> HIDE DEF coroutine, tuple
<1>6. PICK news \in Seq(Object) : news = <<coroutine, tuple>> /\ \A j \in DOMAIN news : news[j] \in {coroutine, tuple}
  <2>1. /\ <<coroutine, tuple>> \in Seq(Object)
        /\ \A j \in DOMAIN <<coroutine, tuple>> : <<coroutine, tuple>>[j] \in {coroutine, tuple}
    BY <1>3
  <2> QED
    BY <2>1
<1>7. /\ Abstract!ObjectsGrow
      /\ \A i \in DOMAIN objects' \ DOMAIN objects : objects'[i] \in {coroutine, tuple}
  <2>1. objects' = objects \o news
    BY <1>1, <1>6
  <2> QED
    BY <1>6, <2>1, ObjectsAppended
<1>8. NewCoroutinesLeft
  BY <1>3, <1>5, <1>7 DEF NewCoroutinesLeft
<1> QED
  BY <1>4, <1>7, <1>8, LeaveShows

-----------------------------------------------------------------------------
(* Throwing *)

LEMMA OneMore == \A s \in Seq(Value), e \in Value : s \o <<e>> \in Seq(Value) /\ Len(s \o <<e>>) = Len(s) + 1
OBVIOUS

LEMMA TailElements ==
    \A u \in Seq(Value) : \A k \in Nat : Len(u) = k + 1 =>
        /\ Tail(u) \in Seq(Value) /\ Len(Tail(u)) = k
        /\ \A i \in 1..k : Tail(u)[i] = u[i + 1]
OBVIOUS

\* Above the cut lies the exception, above it the null locals.
LEMMA UnwoundValues ==
    \A s, n \in Seq(Value) : \A e \in Value : Tail(Rest(Joined(Joined(s, <<e>>), n), Len(s))) = n
<1>0. SUFFICES ASSUME NEW s \in Seq(Value), NEW n \in Seq(Value), NEW e \in Value
               PROVE  Tail(Rest(Joined(Joined(s, <<e>>), n), Len(s))) = n
  OBVIOUS
<1>1. PICK v : v = Joined(s, <<e>>)
  OBVIOUS
<1>2. PICK t : t = Joined(v, n)
  OBVIOUS
<1>3. PICK b \in Nat, k \in Nat, l \in Nat : b = Len(s) /\ k = Len(n) /\ l = (b + 1) + k
  OBVIOUS
<1>4. v \in Seq(Value) /\ Len(v) = b + 1
  BY <1>1, <1>3, OneMore DEF Joined
<1>5. v \o n \in Seq(Value) /\ Len(v \o n) = (b + 1) + k /\ \A i \in 1..k : (v \o n)[(b + 1) + i] = n[i]
  <2>1. /\ v \o n \in Seq(Value) /\ Len(v \o n) = Len(v) + Len(n)
        /\ \A i \in 1..Len(n) : (v \o n)[Len(v) + i] = n[i]
    BY <1>4, JoinElements, Zenon
  <2> QED
    BY <1>3, <1>4, <2>1, Zenon
<1>6. t \in Seq(Value) /\ Len(t) = l /\ \A i \in 1..k : t[(b + 1) + i] = n[i]
  BY <1>2, <1>3, <1>5, Zenon DEF Joined
<1>7. b <= l /\ l - b = k + 1
  BY <1>3
<1>8. PICK u : u = Rest(t, b)
  OBVIOUS
<1>9. u \in Seq(Value) /\ Len(u) = k + 1 /\ \A i \in 1..(k + 1) : u[i] = t[b + i]
  BY <1>6, <1>7, <1>8, PartType DEF Rest
<1>10. PICK w : w = Tail(u)
  OBVIOUS
<1>11. w \in Seq(Value) /\ Len(w) = k /\ \A i \in 1..k : w[i] = u[i + 1]
  BY <1>9, <1>10, TailElements
<1>12. \A i \in 1..k : w[i] = n[i]
  <2> TAKE i \in 1..k
  <2>1. i + 1 \in 1..(k + 1) /\ b + (i + 1) = (b + 1) + i
    OBVIOUS
  <2>2. u[i + 1] = t[b + (i + 1)]
    BY <1>9, <2>1
  <2> QED
    BY <1>6, <1>11, <2>1, <2>2
<1>13. w = n
  BY <1>3, <1>11, <1>12, SameSequence
<1> QED
  BY <1>1, <1>2, <1>3, <1>8, <1>10, <1>13

\* The frames below the handler stay as they are, and so do the natives that
\* started there.
LEMMA UnwindBelow ==
    ASSUME IInv, NEW h, NEW exception, NEW ns, Remaining(ns), Unwinds(h, exception, ns)
    PROVE  /\ SameBelow(h) /\ h \in 1..Len(frames) /\ Len(frames') = h /\ h \in Nat
           /\ frames'[h].armed = FALSE /\ frames[h].context \in Functions
           /\ framePointer' = Base(h) /\ Base(h) \in Nat
<1>1. PICK n \in Nat : n = Len(frames) /\ h \in 1..n
  BY TypeFacts DEF IInv, Unwinds, StopsUnwind
<1>2. PICK new \in Frame : new = FrameOf(frames[h].ret, frames[h].prev, FALSE, frames[h].context)
  <2>1. frames[h].context \in Functions /\ frames[h].ret \in Position /\ frames[h].prev \in Nat
    BY <1>1, TypeFacts DEF IInv
  <2> QED
    BY <2>1 DEF FrameOf, Frame
<1>3. /\ Len(frames') = h /\ frames'[h] = new /\ \A i \in 1..(h - 1) : frames'[i] = frames[i]
  <2>1. frames' = Append(SubSeq(frames, 1, h - 1), new) /\ frames \in Seq(Frame)
    BY <1>2 DEF Unwinds, UnwindTo, IInv, TypeOK
  <2> QED
    BY <1>1, <2>1, FramesUnwound
<1>4. new.ret = frames[h].ret /\ new.prev = frames[h].prev /\ new.armed = FALSE
  BY <1>2 DEF FrameOf
<1>5. framePointer' = Base(h) /\ natives' = ns
  BY DEF Unwinds, UnwindTo
<1>6. Base(h)' = Base(h) /\ Base(h) \in Nat
  <2>1. h \in 0..n
    BY <1>1
  <2> QED
    BY <1>1, <1>3, <1>5, <2>1, BaseFacts DEF Base, IInv
<1>7. ASSUME NEW d \in 0..(h - 1)
      PROVE  NativesAt(d)' = NativesAt(d) /\ \A j \in NativesAt(d) : natives'[j].prev = natives[j].prev
  <2>1. d # n
    BY <1>1
  <2>2. /\ DOMAIN ns = 1..Len(ns) /\ DOMAIN natives = 1..Len(natives)
        /\ \A j \in 1..Len(ns) : j \in 1..Len(natives) /\ ns[j] = natives[j]
        /\ \A j \in 1..Len(natives) : j \in 1..Len(ns) \/ natives[j].depth = n
    BY <1>1, RemainingFacts, TypeFacts DEF IInv
  <2>3. NativesAt(d) = {j \in DOMAIN ns : ns[j].depth = d}
    BY <2>1, <2>2 DEF NativesAt
  <2>4. NativesAt(d)' = {j \in DOMAIN ns : ns[j].depth = d}
    BY <1>5 DEF NativesAt
  <2> QED
    BY <1>5, <2>2, <2>3, <2>4
<1>8. \A i \in 1..h : frames'[i].ret = frames[i].ret /\ frames'[i].prev = frames[i].prev
  <2>1. \A i \in 1..h : i \in 1..(h - 1) \/ i = h
    BY <1>1
  <2> QED
    BY <1>3, <1>4, <2>1
<1>9. h \in 1..h /\ h \in Nat
  BY <1>1
<1> QED
  BY <1>1, <1>3, <1>4, <1>5, <1>6, <1>7, <1>8, <1>9, TypeFacts DEF SameBelow, IInv

\* The exception takes the place of all that lay in the window of the handler
\* and above it.
LEMMA UnwindTop ==
    ASSUME IInv, IInv', NEW h, NEW exception, NEW ns, Remaining(ns), Unwinds(h, exception, ns)
    PROVE  /\ Acts'[h] = [pos |-> ExceptPos(frames[h].context), vals |-> NewPart(Base(h), Len(values')),
                          armed |-> FALSE, by |-> EnteredBy(h)]
           /\ Acts[h].pos.fx = frames[h].context /\ Acts[h].armed = frames[h].armed
           /\ Acts[h].by = EnteredBy(h)
           /\ Ground' = Ground /\ \A i \in 1..(h - 1) : Acts'[i] = Acts[i]
           /\ Tail(NewPart(Base(h), Len(values'))) = Nulls(FrameSize[frames[h].context])
<1>1. /\ SameBelow(h) /\ h \in 1..Len(frames) /\ Len(frames') = h /\ h \in Nat
      /\ frames'[h].armed = FALSE /\ frames[h].context \in Functions
      /\ framePointer' = Base(h) /\ Base(h) \in Nat
  BY UnwindBelow
<1>2. ActsFacts /\ ActsFacts' /\ TopFacts /\ TopFacts' /\ GoesOnFacts
  BY ActsShape, TopShape, GoesOnInFunction, PTL
<1>3. /\ UnwindTo(h, exception) /\ exception \in Value /\ pc' = ExceptPos(frames[h].context)
      /\ values' = SubSeq(values, 1, Base(h)) \o <<exception>> \o Nulls(FrameSize[frames[h].context])
  BY DEF Unwinds, UnwindTo
<1>4. Agree(1, Base(1)) /\ Agree(Base(1) + 1, Base(h))
  <2>1. Base(h) <= Base(h)
    BY <1>1
  <2>2. Keeps(Base(h), values')
    BY <1>1, <1>3, <2>1, UnwindKeeps
  <2> QED
    BY <1>1, <2>2, KeptAgrees
<1>5. Acts[h].by = Acts'[h].by /\ Ground' = Ground /\ \A i \in 1..(h - 1) : Acts'[i] = Acts[i]
  BY <1>1, <1>4, BelowStays
<1>6. Acts[h].pos.fx = frames[h].context /\ Acts[h].armed = frames[h].armed /\ Acts[h].by = EnteredBy(h)
  <2>1. Acts[h] = ActivationAt(h)
    BY <1>1, <1>2 DEF ActsFacts
  <2>2. Acts[h].pos = GoesOnAt(h) /\ Acts[h].armed = frames[h].armed /\ Acts[h].by = EnteredBy(h)
    BY <2>1 DEF ActivationAt
  <2> QED
    BY <1>1, <1>2, <2>2 DEF GoesOnFacts
<1>7. Acts'[h] = [pos |-> ExceptPos(frames[h].context), vals |-> NewPart(Base(h), Len(values')),
                  armed |-> FALSE, by |-> EnteredBy(h)]
  <2>1. pc' # ExitPos
    BY <1>1, <1>3, PositionFacts
  <2>2. GoesOnAt(h)' = pc' /\ Owned' = Len(values')
    <3>1. ~AtExit'
      BY <2>1 DEF AtExit
    <3>2. Len(values') \in Nat
      BY <1>2 DEF ActsFacts
    <3> QED
      BY <1>1, <3>1, <3>2 DEF GoesOnAt, Owned
  <2>3. frames' # <<>>
    BY <1>1, <1>2 DEF ActsFacts
  <2>4. Acts'[h] = [pos |-> GoesOnAt(h)', vals |-> Part(framePointer, Owned)',
                    armed |-> frames'[h].armed, by |-> EnteredBy(h)']
    BY <1>1, <1>2, <2>3 DEF TopFacts
  <2>5. Part(framePointer, Owned)' = NewPart(Base(h), Len(values'))
    BY <1>1, <2>2 DEF Part, NewPart
  <2>6. EnteredBy(h)' = EnteredBy(h)
    <3>1. Acts'[h].by = EnteredBy(h)'
      BY <2>4, FieldsOf
    <3> QED
      BY <1>5, <1>6, <3>1
  <2> QED
    BY <1>1, <1>3, <2>2, <2>4, <2>5, <2>6
<1>8. Tail(NewPart(Base(h), Len(values'))) = Nulls(FrameSize[frames[h].context])
  <2>1. PICK b \in Nat, k \in Nat : b = Base(h) /\ k = FrameSize[frames[h].context]
    BY <1>1, SlotsFacts
  <2>2. PICK s \in Seq(Value) : s = SubSeq(values, 1, Base(h)) /\ Len(s) = b
    <3>1. Base(h) \in 0..Len(values) /\ values \in Seq(Value)
      <4>1. Base(h) <= End(h) /\ End(h) <= Len(values) /\ End(h) \in Nat /\ Len(values) \in Nat /\ values \in Seq(Value)
        <5>1. PICK n \in Nat : n = Len(frames) /\ h \in 1..n
          BY <1>1, <1>2 DEF ActsFacts
        <5>2. h \in 0..n
          BY <5>1
        <5> QED
          BY <1>2, <5>1, <5>2 DEF ActsFacts
      <4> QED
        BY <1>1, <4>1
    <3> QED
      BY <2>1, <3>1, CutType
  <2>3. PICK n \in Seq(Value) : n = Nulls(FrameSize[frames[h].context]) /\ Len(n) = k
    BY <2>1, NullsType
  <2>4. PICK t : t = values'
    OBVIOUS
  <2>5. t = Joined(Joined(s, <<exception>>), n)
    BY <1>3, <2>2, <2>3, <2>4 DEF Joined
  <2>6. exception \in Value
    BY <1>3
  <2>7. Tail(Rest(Joined(Joined(s, <<exception>>), n), Len(s))) = n
    BY <2>6, UnwoundValues
  <2>8. NewPart(Base(h), Len(values')) = Rest(t, b)
    BY <2>1, <2>4 DEF NewPart, Rest
  <2> QED
    BY <2>2, <2>3, <2>5, <2>7, <2>8
<1> QED
  BY <1>5, <1>6, <1>7, <1>8

LEMMA ThrowControl ==
    ASSUME IInv, NEW ns, Remaining(ns)
    PROVE  Control \in {"code", "native"} /\ ~AtExit
<1>1. CASE Running /\ ns = natives
  BY <1>1 DEF Control, Running, Live, AtExit
<1>2. CASE InNative /\ ns = Front(natives)
  <2>1. Live /\ natives # <<>> /\ pc = natives[Len(natives)].prev /\ inNative
    BY <1>2 DEF InNative, Live, IInv, NativesMatchFrames
  <2>2. Len(natives) \in 1..Len(natives)
    BY <2>1, TypeFacts DEF IInv
  <2>3. ~AtExit
    BY <2>1, <2>2, TypeFacts DEF IInv, AtExit
  <2> QED
    BY <2>1, <2>3 DEF Control
<1> QED
  BY <1>1, <1>2 DEF Remaining

\* The activations after a throw are those up to the handler.
LEMMA UnwindShows ==
    ASSUME IInv, IInv', NEW h, NEW exception, NEW ns, Remaining(ns), Unwinds(h, exception, ns)
    PROVE  Abstract!Next
<1>1. PICK n \in Nat : n = Len(frames) /\ h \in 1..n /\ h \in Nat /\ Len(frames') = h /\ frames[h].context \in Functions
  BY UnwindBelow, TypeFacts DEF IInv
<1>2. ActsFacts /\ ActsFacts'
  BY ActsShape, PTL
<1>3. PICK u \in Seq(Act), w \in Seq(Act) :
          u = Acts /\ w = Acts' /\ Len(u) = n /\ Len(w) = h /\ DOMAIN u = 1..n /\ h \in 1..h
  <2>1. Acts \in Seq(Act) /\ Acts' \in Seq(Act) /\ Len(Acts) = n /\ Len(Acts') = h
    BY <1>1, <1>2 DEF ActsFacts
  <2>2. DOMAIN Acts = 1..n /\ h \in 1..h
    BY <1>1, <2>1
  <2> QED
    BY <2>1, <2>2
<1>4. PICK f, vals, by :
          /\ f = frames[h].context /\ vals = NewPart(Base(h), Len(values')) /\ by = EnteredBy(h)
          /\ w[h] = [pos |-> ExceptPos(f), vals |-> vals, armed |-> FALSE, by |-> by]
          /\ u[h].pos.fx = f /\ u[h].by = by
          /\ Tail(vals) = Nulls(FrameSize[f])
  <2>1. PICK f, vals, by : f = frames[h].context /\ vals = NewPart(Base(h), Len(values')) /\ by = EnteredBy(h)
    OBVIOUS
  <2>2. /\ Acts'[h] = [pos |-> ExceptPos(frames[h].context), vals |-> NewPart(Base(h), Len(values')),
                       armed |-> FALSE, by |-> EnteredBy(h)]
        /\ Acts[h].pos.fx = frames[h].context /\ Acts[h].by = EnteredBy(h)
        /\ Tail(NewPart(Base(h), Len(values'))) = Nulls(FrameSize[frames[h].context])
    BY UnwindTop
  <2>3. w[h] = [pos |-> ExceptPos(f), vals |-> vals, armed |-> FALSE, by |-> by]
    BY <1>3, <2>1, <2>2
  <2>4. u[h].pos.fx = f /\ u[h].by = by /\ Tail(vals) = Nulls(FrameSize[f])
    BY <1>3, <2>1, <2>2
  <2> QED
    BY <2>1, <2>3, <2>4
<1>5. Ground' = Ground /\ \A i \in 1..(h - 1) : w[i] = u[i]
  BY <1>3, UnwindTop
<1>6. \A i \in 1..n : u[i].armed = frames[i].armed
  <2> TAKE i \in 1..n
  <2>1. u[i] = ActivationAt(i)
    BY <1>1, <1>2, <1>3 DEF ActsFacts
  <2> QED
    BY <2>1 DEF ActivationAt
<1>7. u[h].armed /\ \A i \in 1..n : i > h => ~u[i].armed
  <2>1. StopsUnwind(h) /\ DOMAIN frames = 1..n
    BY <1>1, <1>2 DEF Unwinds, ActsFacts
  <2> QED
    BY <1>1, <1>6, <2>1 DEF StopsUnwind
<1>8. SubSeq(w, 1, h - 1) = SubSeq(u, 1, h - 1)
  <2>1. PICK j \in Nat : j = h - 1 /\ j <= Len(u) /\ j <= Len(w)
    <3>1. h - 1 \in Nat /\ h - 1 <= n /\ h - 1 <= h
      BY <1>1
    <3> QED
      BY <1>3, <3>1
  <2>2. \A i \in 1..j : w[i] = u[i]
    BY <1>5, <2>1
  <2> QED
    BY <2>1, <2>2, SameWindow
<1>9. Abstract!Last(w) = w[h]
  BY <1>3 DEF Abstract!Last
<1>10. PICK a, old, pos : u[h] = [pos |-> pos, vals |-> old, armed |-> a, by |-> by]
  <2>1. u[h] \in Act
    BY <1>1, <1>3
  <2> QED
    BY <1>4, <2>1 DEF Act
<1>11. w[h] = [u[h] EXCEPT !.armed = FALSE, !.pos = ExceptPos(f), !.vals = vals] /\ w[h].vals = vals
  <2>1. [u[h] EXCEPT !.armed = FALSE, !.pos = ExceptPos(f), !.vals = vals]
            = [pos |-> ExceptPos(f), vals |-> vals, armed |-> FALSE, by |-> by]
    <3>1. PICK r, p : r = u[h] /\ p = ExceptPos(f)
      OBVIOUS
    <3>2. r = [pos |-> pos, vals |-> old, armed |-> a, by |-> by]
      BY <1>10, <3>1
    <3>3. [r EXCEPT !.armed = FALSE, !.pos = p, !.vals = vals]
              = [pos |-> p, vals |-> vals, armed |-> FALSE, by |-> by]
      <4>1. PICK r1 : r1 = [r EXCEPT !.armed = FALSE]
        OBVIOUS
      <4>2. r1 = [pos |-> pos, vals |-> old, armed |-> FALSE, by |-> by]
        BY <3>2, <4>1
      <4>3. PICK r2 : r2 = [r1 EXCEPT !.pos = p]
        OBVIOUS
      <4>4. r2 = [pos |-> p, vals |-> old, armed |-> FALSE, by |-> by]
        BY <4>2, <4>3
      <4>5. PICK r3 : r3 = [r2 EXCEPT !.vals = vals]
        OBVIOUS
      <4>6. r3 = [pos |-> p, vals |-> vals, armed |-> FALSE, by |-> by]
        BY <4>4, <4>5
      <4>7. r3 = [r EXCEPT !.armed = FALSE, !.pos = p, !.vals = vals]
        BY <4>1, <4>3, <4>5
      <4> QED
        BY <4>6, <4>7
    <3> QED
      BY <3>1, <3>3
  <2>2. w[h].vals = vals
    BY <1>4, FieldsOf
  <2> QED
    BY <1>4, <2>1, <2>2
<1>12. Tail(w[h].vals) = Abstract!Nulls(FrameSize[u[h].pos.fx])
  BY <1>4, <1>11 DEF Nulls, Abstract!Nulls
<1>13. Control \in {"code", "native"} /\ Control' = "code" /\ UNCHANGED objects
  <2>1. Live' /\ ~inNative' /\ pc' = ExceptPos(frames[h].context) /\ UNCHANGED objects
    BY DEF Unwinds, UnwindTo, Remaining, Running, InNative, Live
  <2>2. ~AtExit'
    BY <1>1, <2>1, PositionFacts DEF AtExit
  <2> QED
    BY <2>1, <2>2, ThrowControl DEF Control
<1>14. Abstract!Throw
  <2>1. h \in DOMAIN u /\ \A i \in DOMAIN u : i > h => ~u[i].armed
    BY <1>1, <1>3, <1>7
  <2>2. /\ Len(w) = h /\ SubSeq(w, 1, h - 1) = SubSeq(u, 1, h - 1)
        /\ Abstract!Last(w) = [u[h] EXCEPT !.armed = FALSE, !.pos = ExceptPos(u[h].pos.fx),
                                           !.vals = Abstract!Last(w).vals]
        /\ Tail(Abstract!Last(w).vals) = Abstract!Nulls(FrameSize[u[h].pos.fx])
    BY <1>3, <1>4, <1>8, <1>9, <1>11, <1>12
  <2> QED
    BY <1>3, <1>5, <1>7, <1>13, <2>1, <2>2 DEF Abstract!Throw
<1> QED
  BY <1>14 DEF Abstract!Next

LEMMA UnhandledShows ==
    ASSUME IInv, IInv', NEW ns, Remaining(ns), Unhandled
    PROVE  Abstract!Next
<1>1. /\ phase' = (IF phase = "call" THEN "idle" ELSE "dead") /\ pc' = InitPos
      /\ frames' = <<>> /\ UNCHANGED objects
      /\ values' = (IF frames = <<>> THEN values ELSE SubSeq(values, 1, Base(1)))
      /\ \A i \in DOMAIN frames : ~frames[i].armed
  BY DEF Unhandled, UnwindAll
<1>2. ActsFacts /\ ActsFacts' /\ TopFacts
  BY ActsShape, TopShape, PTL
<1>3. Control \in {"code", "native"} /\ Control' = "host"
  <2>1. ~Live'
    BY <1>1 DEF Live
  <2> QED
    BY <2>1, ThrowControl DEF Control
<1>4. Acts' = <<>>
  BY <1>1, <1>2 DEF ActsFacts
<1>5. \A i \in DOMAIN Acts : ~Acts[i].armed
  <2> SUFFICES ASSUME NEW i \in DOMAIN Acts
               PROVE  ~Acts[i].armed
    OBVIOUS
  <2>1. i \in 1..Len(frames) /\ DOMAIN frames = 1..Len(frames)
    <3>1. DOMAIN Acts = 1..Len(Acts)
      BY <1>2 DEF ActsFacts
    <3> QED
      BY <1>2, <3>1 DEF ActsFacts
  <2>2. Acts[i] = ActivationAt(i)
    BY <1>2, <2>1 DEF ActsFacts
  <2>3. Acts[i].armed = frames[i].armed
    BY <2>2 DEF ActivationAt
  <2> QED
    BY <1>1, <2>1, <2>3
<1>6. ASSUME Acts # <<>>
      PROVE  Abstract!IsPrefix(Ground', Ground)
  <2>1. frames # <<>>
    BY <1>2, <1>6 DEF ActsFacts
  <2>2. PICK b \in Nat : b = Base(1) /\ b <= Len(values) /\ Ground = SubSeq(values, 1, b)
    <3>1. Base(1) \in Nat /\ Base(1) <= framePointer /\ framePointer \in Nat /\ framePointer <= Owned
          /\ Owned \in Nat /\ Owned <= Len(values) /\ Len(values) \in Nat
      BY <1>2, <2>1 DEF TopFacts, ActsFacts
    <3>2. Ground = SubSeq(values, 1, Base(1))
      BY <2>1 DEF Ground
    <3> QED
      BY <3>1, <3>2
  <2>3. PICK g \in Seq(Value) : g = SubSeq(values, 1, b) /\ Len(g) = b
    <3>1. b \in 0..Len(values) /\ values \in Seq(Value)
      BY <1>2, <2>2 DEF ActsFacts
    <3> QED
      BY <3>1, CutType
  <2>4. values' = g
    BY <1>1, <2>1, <2>2, <2>3
  <2>5. Owned' = b
    <3>1. ~AtExit'
      BY <1>1, PositionFacts DEF AtExit
    <3> QED
      BY <2>3, <2>4, <3>1 DEF Owned
  <2>6. Ground' = SubSeq(g, 1, b)
    BY <1>1, <2>4, <2>5 DEF Ground
  <2>7. SubSeq(g, 1, b) = g
    BY <2>3
  <2>8. Ground' = g /\ Ground = g
    BY <2>2, <2>3, <2>6, <2>7
  <2>9. Abstract!IsPrefix(g, g)
    BY <2>3 DEF Abstract!IsPrefix
  <2> QED
    BY <2>8, <2>9
<1>7. Abstract!ThrowOut
  BY <1>1, <1>3, <1>4, <1>5, <1>6 DEF Abstract!ThrowOut
<1> QED
  BY <1>7 DEF Abstract!Next

LEMMA RaiseShows ==
    ASSUME WellFormed, IInv, IInv', NEW exception \in Value, NEW ns, Remaining(ns), Raise(exception, ns)
    PROVE  Abstract!Next
<1>1. CASE \E h \in DOMAIN frames : Unwinds(h, exception, ns)
  BY <1>1, UnwindShows
<1>2. CASE Unhandled
  BY <1>2, UnhandledShows
<1>3. "escaping_throw" \notin Shapes
  BY DEF WellFormed
<1> QED
  BY <1>1, <1>2, <1>3 DEF Raise, Unwinds

LEMMA ExceptionsShow ==
    ASSUME WellFormed, IInv, IInv', OnExceptions
    PROVE  Abstract!Next
<1>1. CASE Throw
  <2>1. InCode /\ HasTemporaries(1) /\ Raise(Last(values), natives)
    BY <1>1 DEF Throw
  <2>2. Last(values) \in Value /\ Remaining(natives)
    BY <2>1, TemporariesFacts DEF Remaining, InCode
  <2> QED
    BY <2>1, <2>2, RaiseShows
<1>2. CASE Fail
  <2>1. PICK message \in Data : InCode /\ Raise(message, natives)
    BY <1>2 DEF Fail
  <2>2. message \in Value /\ Remaining(natives)
    BY <2>1, ValueFacts DEF Remaining, InCode
  <2> QED
    BY <2>1, <2>2, RaiseShows
<1>3. CASE FailNative
  <2>1. PICK message \in Data : InNative /\ Raise(message, Front(natives))
    BY <1>3 DEF FailNative
  <2>2. message \in Value /\ Remaining(Front(natives))
    BY <2>1, ValueFacts DEF Remaining
  <2> QED
    BY <2>1, <2>2, RaiseShows
<1> QED
  BY <1>1, <1>2, <1>3, TryShows DEF OnExceptions

-----------------------------------------------------------------------------
(* Writing a global *)

\* One element of a vector is replaced.
LEMMA ElementReplaced ==
    ASSUME NEW s \in Seq(Value), NEW t \in Seq(Value), NEW i \in 1..Len(s), NEW v \in Value,
           Len(t) = Len(s), t[i] = v, \A j \in 1..Len(s) : j # i => t[j] = s[j]
    PROVE  t = [s EXCEPT ![i] = v]
<1>1. PICK w : w = [s EXCEPT ![i] = v]
  OBVIOUS
<1>2. w \in Seq(Value) /\ Len(w) = Len(s) /\ w[i] = v /\ \A j \in 1..Len(s) : j # i => w[j] = s[j]
  BY <1>1
<1>3. \A j \in 1..Len(s) : t[j] = w[j]
  BY <1>2
<1>4. t = w
  BY <1>2, <1>3, SameSequence
<1> QED
  BY <1>1, <1>4

\* What WRITE_STATIC does to the vector: the topmost value goes into the slot.
Written(i, l, v) ==
    /\ i \in 1..settled /\ l \in Nat /\ Len(values) = l + 1 /\ v \in Value /\ v = values[l + 1]
    /\ values \in Seq(Value) /\ values' \in Seq(Value) /\ Len(values') = l
    /\ i <= l /\ values'[i] = v /\ \A j \in 1..l : j # i => values'[j] = values[j]
    /\ framePointer \in Nat /\ framePointer <= l /\ frames # <<>>
    /\ Base(1) = settled /\ settled \in Nat /\ settled <= framePointer
    /\ Running /\ UNCHANGED <<frames, framePointer, machineVars>>

LEMMA WrittenFacts ==
    ASSUME NoShapes, IInv, GlobalWrite
    PROVE  \E i, l, v : Written(i, l, v)
<1>1. PICK i \in 1..NGlobals : GlobalWrite!(i)
  BY DEF GlobalWrite
<1>2. /\ InCode /\ pc # InitPos /\ phase = "call" /\ HasTemporaries(1) /\ i < Len(values)
      /\ values' = [Below(1) EXCEPT ![i] = Last(values)]
      /\ UNCHANGED <<frames, framePointer, machineVars>>
  BY <1>1 DEF UsesGlobals, NoShapes
<1>3. /\ values \in Seq(Value) /\ Below(1) \in Seq(Value) /\ Len(Below(1)) = Len(values) - 1 /\ Last(values) \in Value
      /\ framePointer + Slots(pc) <= Len(values) - 1 /\ framePointer \in Nat /\ Slots(pc) \in Nat
      /\ Len(values) \in Nat /\ settled \in Nat
  BY <1>2, TemporariesFacts, TypeFacts, SlotsFacts DEF IInv, TypeOK
<1>4. PICK l \in Nat : Len(values) = l + 1 /\ framePointer <= l /\ i <= l /\ Len(values) - 1 = l /\ l + 1 # 0
  <2>1. PICK l \in Nat : l = Len(values) - 1
    BY <1>2, <1>3
  <2>2. Len(values) = l + 1 /\ framePointer <= l /\ i <= l
    BY <1>2, <1>3, <2>1
  <2>3. l + 1 # 0
    BY <2>1
  <2> QED
    BY <2>1, <2>2, <2>3
<1>5. PICK s \in Seq(Value) : s = Below(1) /\ Len(s) = l /\ \A j \in 1..l : s[j] = values[j]
  <2>1. l \in 0..Len(values) /\ Below(1) = SubSeq(values, 1, l)
    BY <1>4 DEF Below
  <2> QED
    BY <1>3, <2>1, CutType
<1>6. PICK v \in Value : v = Last(values) /\ v = values[l + 1]
  <2>1. Last(values) = values[l + 1]
    BY <1>4 DEF Last
  <2> QED
    BY <1>3, <2>1
<1>7. /\ values' \in Seq(Value) /\ Len(values') = l /\ values'[i] = v
      /\ \A j \in 1..l : j # i => values'[j] = values[j]
  <2>1. PICK t : t = [s EXCEPT ![i] = v]
    OBVIOUS
  <2>2. t \in Seq(Value) /\ Len(t) = l /\ t[i] = v /\ \A j \in 1..l : j # i => t[j] = s[j]
    BY <1>4, <1>5, <2>1
  <2>3. values' = t
    BY <1>2, <1>5, <1>6, <2>1
  <2> QED
    BY <1>5, <2>2, <2>3
<1>8. Running /\ frames # <<>>
  <2>1. pc \in Position /\ pc # ExitPos /\ pc # InitPos /\ Live /\ Running
    BY <1>2, TypeFacts DEF InCode, Running, Live, IInv
  <2> QED
    BY <2>1 DEF Position, IInv, CodeMatchesFrames
<1>9. Base(1) = settled /\ settled <= framePointer /\ i \in 1..settled
  <2>1. Base(1) = settled /\ NGlobals <= settled
    BY <1>2, <1>8 DEF IInv, GlobalsBelowWindows
  <2>2. TopFacts
    BY TopShape
  <2> QED
    BY <1>3, <1>8, <2>1, <2>2, SlotsFacts DEF TopFacts
<1> QED
  BY <1>2, <1>3, <1>4, <1>6, <1>7, <1>8, <1>9 DEF Written

LEMMA GlobalWriteShows ==
    ASSUME NoShapes, IInv, IInv', GlobalWrite
    PROVE  Abstract!Next
<1>1. PICK i, l, v : Written(i, l, v)
  BY WrittenFacts
<1>2. ActsFacts /\ ActsFacts' /\ TopFacts /\ TopFacts'
  BY ActsShape, TopShape, PTL
<1>3. PICK n \in Nat : n = Len(frames) /\ n = Len(frames') /\ n \in 1..n
  BY <1>1, <1>2 DEF ActsFacts, TopFacts, Written
<1>4. ~AtExit /\ ~AtExit' /\ Owned = l + 1 /\ Owned' = l /\ Control = "code" /\ Control' = Control
      /\ GoesOnAt(n) = pc /\ GoesOnAt(n)' = pc /\ UNCHANGED objects
  <2>1. ~AtExit /\ ~AtExit' /\ UNCHANGED <<pc, phase, inNative, natives, objects>>
    BY <1>1 DEF AtExit, Written, Running, machineVars
  <2>2. Owned = l + 1 /\ Owned' = l
    BY <1>1, <2>1 DEF Owned, Written
  <2>3. Control = "code" /\ Control' = "code"
    BY <1>1, <2>1 DEF Control, Live, Written, Running
  <2> QED
    BY <1>3, <2>1, <2>2, <2>3 DEF GoesOnAt
<1>5. SameBelow(n)
  <2>1. UNCHANGED <<frames, framePointer, natives>> /\ frames # <<>>
    BY <1>1 DEF Written, machineVars
  <2> QED
    BY <1>3, <2>1, SameFrames, SameNatives
<1>6. Agree(Base(1) + 1, framePointer) /\ Agree(framePointer + 1, l)
  BY <1>1 DEF Agree, Written
<1>7. /\ Acts' = Abstract!Front(Acts) \o <<Acts'[n]>>
      /\ Acts'[n] = [pos |-> GoesOnAt(n)', vals |-> Part(framePointer, Owned)',
                     armed |-> frames'[n].armed, by |-> EnteredBy(n)]
      /\ Acts[n] = [pos |-> GoesOnAt(n), vals |-> Part(framePointer, Owned),
                    armed |-> frames[n].armed, by |-> EnteredBy(n)]
      /\ Abstract!Last(Acts) = Acts[n]
      /\ framePointer' = framePointer
      /\ Len(Acts) = n /\ Len(Acts') = n /\ Acts # <<>>
  BY <1>1, <1>3, <1>5, <1>6, OnlyTop DEF Written
<1>8. Part(framePointer, Owned)' = Part(framePointer, l)
  <2>1. Part(framePointer, Owned)' = NewPart(framePointer, l)
    BY <1>4, <1>7 DEF Part, NewPart
  <2>2. /\ values \in Seq(Value) /\ values' \in Seq(Value) /\ framePointer \in Nat /\ l \in Nat
        /\ l <= Len(values) /\ l <= Len(values')
    BY <1>1 DEF Written
  <2>3. NewPart(framePointer, l) = Part(framePointer, l)
    BY <1>6, <2>2, PartStays
  <2> QED
    BY <2>1, <2>3
<1>9. /\ Abstract!Front(Part(framePointer, l + 1)) = Part(framePointer, l)
      /\ Abstract!Last(Part(framePointer, l + 1)) = v
  <2>1. PICK s \in Seq(Value), b \in Nat, e \in Nat :
            s = values /\ b = framePointer /\ e = l + 1 /\ Len(s) = e /\ b <= l /\ e - 1 = l /\ b <= e /\ b + 1 <= e
    BY <1>1 DEF Written
  <2>2. Abstract!Front(SubSeq(s, b + 1, e)) = SubSeq(s, b + 1, e - 1)
    BY <2>1, FrontOfUpperPart
  <2>3. PICK m \in Nat : m = e - b /\ m # 0 /\ b + m = e /\ m \in 1..m
    <3>1. e - b \in Nat /\ e - b # 0 /\ b + (e - b) = e /\ e - b \in 1..(e - b)
      BY <2>1
    <3> QED
      BY <3>1
  <2>4. PICK u \in Seq(Value) : u = SubSeq(s, b + 1, e) /\ Len(u) = m /\ \A j \in 1..m : u[j] = s[b + j]
    <3>1. PICK u : u = SubSeq(s, b + 1, e)
      OBVIOUS
    <3>2. u \in Seq(Value) /\ Len(u) = e - b /\ \A j \in 1..(e - b) : u[j] = s[b + j]
      BY <2>1, <3>1, PartType
    <3> QED
      BY <2>3, <3>1, <3>2
  <2>5. Abstract!Last(u) = s[e]
    BY <2>3, <2>4 DEF Abstract!Last
  <2>6. s[e] = v
    BY <1>1, <2>1 DEF Written
  <2> QED
    BY <2>1, <2>2, <2>4, <2>5, <2>6 DEF Part
<1>10. Acts' = Abstract!Front(Acts) \o <<[Abstract!Top EXCEPT !.vals = Abstract!Front(@)]>> /\ Abstract!Last(Abstract!Top.vals) = v
  <2>1. PICK pos, old, new, armed, by :
            pos = pc /\ old = Part(framePointer, l + 1) /\ new = Part(framePointer, l)
            /\ armed = frames[n].armed /\ by = EnteredBy(n)
    OBVIOUS
  <2>2. PICK r, q : r = Acts[n] /\ q = Acts'[n]
    OBVIOUS
  <2>3. r = [pos |-> pos, vals |-> old, armed |-> armed, by |-> by]
    BY <1>4, <1>7, <2>1, <2>2
  <2>4. q = [pos |-> pos, vals |-> new, armed |-> armed, by |-> by]
    <3>1. frames'[n].armed = frames[n].armed
      BY <1>1 DEF Written
    <3> QED
      BY <1>4, <1>7, <1>8, <2>1, <2>2, <3>1
  <2>5. q = [r EXCEPT !.vals = new] /\ r.vals = old
    BY <2>3, <2>4, ValuesReplaced
  <2>6. Abstract!Front(old) = new /\ Abstract!Last(old) = v
    BY <1>9, <2>1
  <2>7. Abstract!Top = r /\ Acts' = Abstract!Front(Acts) \o <<q>>
    BY <1>7, <2>2 DEF Abstract!Top
  <2>8. q = [r EXCEPT !.vals = Abstract!Front(@)]
    BY <2>5, <2>6
  <2> QED
    BY <2>5, <2>6, <2>7, <2>8
<1>11. i \in DOMAIN Ground /\ Ground' = [Ground EXCEPT ![i] = v]
  <2>1. PICK g \in Nat : g = settled /\ g = Base(1) /\ 0 <= g /\ g <= l /\ g - 0 = g /\ i \in 1..g
    BY <1>1 DEF Written
  <2>2. PICK s \in Seq(Value) : s = Ground /\ Len(s) = g /\ \A j \in 1..g : s[j] = values[j]
    <3>1. Ground = SubSeq(values, 1, g)
      BY <1>1, <2>1 DEF Ground, Written
    <3>2. g \in 0..Len(values) /\ values \in Seq(Value)
      BY <1>1, <2>1 DEF Written
    <3> QED
      BY <3>1, <3>2, CutType
  <2>3. PICK t \in Seq(Value) : t = Ground' /\ Len(t) = g /\ \A j \in 1..g : t[j] = values'[j]
    <3>1. Base(1)' = Base(1)
      <4>1. UNCHANGED <<frames, framePointer>>
        BY <1>1 DEF Written
      <4> QED
        BY <4>1 DEF Base
    <3>2. Ground' = SubSeq(values', 1, g)
      BY <1>1, <2>1, <3>1 DEF Ground, Written
    <3>3. g \in 0..Len(values') /\ values' \in Seq(Value)
      BY <1>1, <2>1 DEF Written
    <3> QED
      BY <3>2, <3>3, CutType
  <2>4. v \in Value /\ t[i] = v /\ \A j \in 1..g : j # i => t[j] = s[j]
    <3>1. \A j \in 1..g : j \in 1..l
      BY <1>1, <2>1 DEF Written
    <3> QED
      BY <1>1, <2>1, <2>2, <2>3, <3>1 DEF Written
  <2>5. t = [s EXCEPT ![i] = v]
    BY <2>1, <2>2, <2>3, <2>4, ElementReplaced
  <2> QED
    BY <2>1, <2>2, <2>3, <2>5
<1>12. Abstract!WriteGlobal
  BY <1>4, <1>7, <1>10, <1>11 DEF Abstract!WriteGlobal
<1> QED
  BY <1>12 DEF Abstract!Next

-----------------------------------------------------------------------------
(* The implementation *)

\* At the beginning there are no activations and the code that initialises
\* the globals is about to run.
LEMMA InitShows ==
    ASSUME Init
    PROVE  Abstract!Init
<1>1. /\ values = <<>> /\ frames = <<>> /\ pc = InitPos /\ phase = "setup" /\ ~inNative /\ objects = <<>>
  BY DEF Init, InitStack
<1>2. ActsFacts
  BY InitSafe, ActsShape
<1>3. Acts = <<>>
  BY <1>1, <1>2 DEF ActsFacts
<1>4. Control = "code" /\ ~AtExit
  BY <1>1, PositionFacts DEF Control, Live, AtExit
<1>5. Ground = <<>>
  <2>1. Len(values) = 0 /\ Owned = 0
    BY <1>1, <1>4 DEF Owned
  <2> QED
    BY <1>1, <2>1 DEF Ground
<1> QED
  BY <1>1, <1>3, <1>4, <1>5 DEF Abstract!Init

\* Every action of the machine shows as an action of the activations; only the
\* end of a nested run loop does not show at all.
LEMMA NextShows ==
    ASSUME WellFormed, NoShapes, IInv, IInv', Next
    PROVE  Abstract!Next \/ UNCHANGED Abstract!avars
<1>1. CASE OnTemporaries
  BY <1>1, WindowShows DEF OnWindow
<1>2. CASE OnGlobals
  BY <1>2, WindowShows, GlobalWriteShows, InitGlobalShows DEF OnGlobals, OnWindow
<1>3. CASE OnFunctions
  <2>1. CASE NewFx \/ NewTuple \/ Capture
    BY <2>1, WindowShows DEF OnWindow
  <2> QED
    BY <1>3, <2>1, CallShows, InvokeShows, InvokeVariadicShows, ReturnShows DEF OnFunctions
<1>4. CASE OnCoroutines
  BY <1>4, CoDumpShows, YieldShows, CoReturnShows, InvokeCoroutineShows DEF OnCoroutines
<1>5. CASE OnExceptions
  BY <1>5, ExceptionsShow
<1>6. CASE OnNatives
  <2>1. CASE StartNative
    BY <2>1, WindowShows DEF OnWindow
  <2> QED
    BY <1>6, <2>1, RunFunctionShows, RunCoroutineShows, ExitShows, EndNativeShows DEF OnNatives
<1>7. CASE OnHost
  BY <1>7, FinishSetupShows, HostCallShows, HostCallUnknownShows DEF OnHost
<1> QED
  BY <1>1, <1>2, <1>3, <1>4, <1>5, <1>6, <1>7 DEF Next

LEMMA StutterShows ==
    ASSUME UNCHANGED vars
    PROVE  UNCHANGED Abstract!avars
<1>1. UNCHANGED <<values, frames, framePointer, pc, phase, natives, inNative, settled, objects>>
  BY DEF vars, stackVars, machineVars
<1>2. Control' = Control
  BY <1>1 DEF Control, Live, AtExit
<1>3. Ground' = Ground
  BY <1>1 DEF Ground, Owned, AtExit, Base
<1>4. Acts' = Acts
  BY <1>1 DEF Acts, ActivationAt, GoesOnAt, EnteredBy, NativesAt, Owned, AtExit, Base
<1> QED
  BY <1>1, <1>2, <1>3, <1>4 DEF Abstract!avars

(* For every pool of functions and any depth of calls, callbacks and       *)
(* natives, the shared vector, its frames and the nested run loops behave  *)
(* like activations with values of their own: what code, a native or the   *)
(* host enters begins with what it was given, what returns, yields or      *)
(* throws goes to whoever entered it or has the newest handler, and no     *)
(* step reaches the values of an activation below the running one.         *)
THEOREM MachineImplementsActivations ==
    ASSUME WellFormed, NoShapes
    PROVE  Spec => ImplementsActivations
<1>1. Init => Abstract!Init
  BY InitShows
<1>2. IInv /\ [Next]_vars => [Abstract!Next]_Abstract!avars
  <2> SUFFICES ASSUME IInv, [Next]_vars
               PROVE  Abstract!Next \/ UNCHANGED Abstract!avars
    OBVIOUS
  <2>1. IInv'
    BY NextSafe
  <2> QED
    BY <2>1, NextShows, StutterShows
<1>3. Spec => []IInv
  BY MachineSafe
<1> QED
  BY <1>1, <1>2, <1>3, PTL DEF Spec, ImplementsActivations, Abstract!Spec
=============================================================================
