----------------------------- MODULE HeapProofs -----------------------------
(***************************************************************************)
(* Proofs that the collector is safe and complete for every size of the    *)
(* heap and of the stack, for programs without coroutines and natives that *)
(* run callbacks without the lock.                                         *)
(***************************************************************************)
EXTENDS Heap, FiniteSetTheorems, TLAPS

(* The programs for which references cannot dangle.                        *)
WellBehaved == Shapes = {}

\* Two names for unions, expanded in every step.
USE DEF Referents, Valid

-----------------------------------------------------------------------------
(* The inductive invariant *)

\* What sweep keeps: the objects it has kept, and those it will keep.
Kept == marked \cup (live \ unswept)

Types ==
    /\ TypeOK
    /\ coroutines = {}
    /\ \A i \in DOMAIN natives : natives[i].locks
    /\ \A m \in MemberFunctions : refs[m] = {}

RootsLive == Range(stack) \subseteq Valid /\ \A i \in DOMAIN natives : natives[i].held \subseteq Valid

\* Outside the sweep all references of objects are valid.
GraphLive == \A o \in live : refs[o] \subseteq Valid

Resting ==
    /\ phase \in {"run", "alloc"} => marked = {}
    /\ phase \in {"run", "alloc", "dead"} => GraphLive

\* While mark runs: what is marked has been followed, what has been found is
\* reachable.
Marking == phase = "mark" =>
    /\ GraphLive
    /\ natives = <<>>
    /\ Range(stack) \subseteq marked \cup pending
    /\ \A o \in marked : refs[o] \subseteq marked \cup pending
    /\ marked \subseteq live /\ pending \subseteq Valid
    /\ marked \cup pending \subseteq Reachable(Range(stack))

\* While sweep runs: what is kept is closed and exactly what is reachable.
Sweeping == phase = "sweep" =>
    /\ natives = <<>>
    /\ unswept \subseteq live /\ marked \subseteq unswept
    /\ Range(stack) \subseteq Kept
    /\ Closed(Kept)
    /\ Kept \subseteq Reachable(Range(stack))

LockHeld == gcLock = Len(natives)
NativeThere == inNative => natives # <<>>

HeapInv ==
    /\ Types /\ RootsLive /\ Resting /\ Marking /\ Sweeping
    /\ SizeCounts /\ LockHeld /\ NativeThere

-----------------------------------------------------------------------------
(* Reachability *)

LEMMA ReachableInClosed ==
    ASSUME NEW rs, NEW os \in SUBSET Referents, rs \subseteq os, Closed(os)
    PROVE  Reachable(rs) \subseteq os
BY DEF Reachable

LEMMA RootsReachable ==
    ASSUME NEW rs \in SUBSET Referents
    PROVE  rs \subseteq Reachable(rs)
BY DEF Reachable

LEMMA ReachableFollows ==
    ASSUME TypeOK, NEW rs, NEW o \in Reachable(rs)
    PROVE  refs[o] \subseteq Reachable(rs)
BY DEF Reachable, Closed, TypeOK

-----------------------------------------------------------------------------
(* Sequences *)

LEMMA EmptyFacts ==
    ASSUME NEW S, NEW s \in Seq(S)
    PROVE  /\ Len(s) \in Nat
           /\ s = <<>> <=> Len(s) = 0
OBVIOUS

LEMMA CutFacts ==
    ASSUME NEW S, NEW s \in Seq(S), NEW k \in 0..Len(s)
    PROVE  /\ SubSeq(s, 1, k) \in Seq(S)
           /\ Len(SubSeq(s, 1, k)) = k
           /\ \A i \in 1..k : SubSeq(s, 1, k)[i] = s[i]
           /\ Range(SubSeq(s, 1, k)) \subseteq Range(s)
<1>1. /\ SubSeq(s, 1, k) \in Seq(S)
      /\ Len(SubSeq(s, 1, k)) = k
      /\ \A i \in 1..k : SubSeq(s, 1, k)[i] = s[i]
  OBVIOUS
<1> QED
  BY <1>1 DEF Range

LEMMA AppendFacts ==
    ASSUME NEW S, NEW s \in Seq(S), NEW x \in S
    PROVE  /\ Append(s, x) \in Seq(S)
           /\ Range(Append(s, x)) \subseteq Range(s) \cup {x}
BY DEF Range

LEMMA RangeFacts ==
    ASSUME NEW S, NEW s \in Seq(S)
    PROVE  /\ Range(s) \subseteq S
           /\ s # <<>> => Last(s) \in Range(s)
           /\ \A i \in 1..Len(s) : s[i] \in Range(s)
BY DEF Range, Last

LEMMA ReplaceFacts ==
    ASSUME NEW S, NEW s \in Seq(S), NEW i \in 1..Len(s), NEW x \in S
    PROVE  /\ [s EXCEPT ![i] = x] \in Seq(S)
           /\ Range([s EXCEPT ![i] = x]) \subseteq Range(s) \cup {x}
<1>1. PICK n \in Nat : n = Len(s) /\ DOMAIN s = 1..n
  OBVIOUS
<1>2. [s EXCEPT ![i] = x] \in [1..n -> S]
  <2>1. s \in [1..n -> S] /\ i \in 1..n
    BY <1>1
  <2> QED
    BY <2>1
<1>3. \A f \in [1..n -> S] : f \in Seq(S)
  BY <1>1
<1>4. [s EXCEPT ![i] = x] \in Seq(S)
  BY <1>2, <1>3
<1>5. Range([s EXCEPT ![i] = x]) \subseteq Range(s) \cup {x}
  BY <1>1 DEF Range
<1> QED
  BY <1>4, <1>5

LEMMA TopmostFacts ==
    ASSUME TypeOK, NEW n \in 0..Len(stack)
    PROVE  Topmost(n) \subseteq Range(stack)
<1>1. PICK k \in Nat : k = Len(stack) /\ n <= k /\ k - n + 1 \in 1..(k + 1)
  BY DEF TypeOK
<1>2. /\ DOMAIN SubSeq(stack, k - n + 1, k) = 1..n
      /\ \A i \in 1..n : SubSeq(stack, k - n + 1, k)[i] = stack[k - n + i]
      /\ DOMAIN stack = 1..k
  BY <1>1 DEF TypeOK
<1> QED
  BY <1>1, <1>2 DEF Topmost, Range

-----------------------------------------------------------------------------
(* Steps of the program *)

\* What every step of the program has to show: it leaves a graph of objects
\* that have not been freed, and counts and locks in step with it.
ProgramStep ==
    /\ phase \in {"run", "alloc"} /\ phase' \in {"run", "alloc"}
    /\ marked' = marked /\ pending' = pending /\ unswept' = unswept /\ collected' = collected
    /\ nextCollection' \in Nat
    /\ coroutines' = {}
    /\ inNative' \in BOOLEAN

GraphStep ==
    /\ stack' \in Seq(Referents) /\ Range(stack') \subseteq Valid'
    /\ live' \subseteq Ids
    /\ refs' \in [Referents -> SUBSET Referents]
    /\ \A o \in live' : refs'[o] \subseteq Valid'
    /\ \A m \in MemberFunctions : refs'[m] = {}
    /\ size' = Cardinality(live') /\ size' \in Nat

NativeStep ==
    /\ natives' \in Seq([held : SUBSET Referents, locks : BOOLEAN])
    /\ \A i \in DOMAIN natives' : natives'[i].locks /\ natives'[i].held \subseteq Valid'
    /\ gcLock' = Len(natives')
    /\ inNative' => natives' # <<>>

LEMMA StepKeeps ==
    ASSUME HeapInv, ProgramStep, GraphStep, NativeStep
    PROVE  HeapInv'
<1>1. /\ stack' \in Seq(Referents) /\ live' \in SUBSET Ids /\ refs' \in [Referents -> SUBSET Referents]
      /\ coroutines' = {} /\ phase' \in {"run", "alloc"} /\ size' \in Nat
      /\ natives' \in Seq([held : SUBSET Referents, locks : BOOLEAN])
      /\ gcLock' = Len(natives') /\ inNative' \in BOOLEAN /\ nextCollection' \in Nat
      /\ \A i \in DOMAIN natives' : natives'[i].locks
      /\ \A m \in MemberFunctions : refs'[m] = {}
  BY DEF ProgramStep, GraphStep, NativeStep
<1>2. /\ marked' \subseteq Ids /\ pending' \subseteq Referents /\ unswept' \subseteq Ids /\ collected' \in Nat
  BY DEF ProgramStep, HeapInv, Types, TypeOK
<1>3. gcLock' \in Nat
  BY <1>1
<1>4. Types'
  BY <1>1, <1>2, <1>3 DEF Types, TypeOK
<1>5. RootsLive'
  BY DEF RootsLive, GraphStep, NativeStep
<1>6. Resting' /\ Marking' /\ Sweeping'
  BY DEF Resting, Marking, Sweeping, ProgramStep, GraphStep, GraphLive, HeapInv
<1>7. SizeCounts'
  BY <1>1 DEF SizeCounts, GraphStep
<1>8. LockHeld' /\ NativeThere'
  BY DEF LockHeld, NativeThere, NativeStep
<1> QED
  BY <1>4, <1>5, <1>6, <1>7, <1>8 DEF HeapInv

LEMMA GraphFacts ==
    ASSUME HeapInv, phase \in {"run", "alloc"}
    PROVE  /\ GraphLive /\ live \subseteq Ids /\ refs \in [Referents -> SUBSET Referents]
           /\ IsFiniteSet(live) /\ size = Cardinality(live) /\ size \in Nat
           /\ \A m \in MemberFunctions : refs[m] = {}
           /\ \A o \in Valid : refs[o] \subseteq Valid
<1>1. /\ GraphLive /\ live \subseteq Ids /\ refs \in [Referents -> SUBSET Referents] /\ size \in Nat
      /\ \A m \in MemberFunctions : refs[m] = {}
  BY DEF HeapInv, Resting, Types, TypeOK
<1>2. IsFiniteSet(live) /\ Cardinality(live) \in Nat
  BY <1>1, HeapAssumption, FS_Subset, FS_CardinalityType
<1>3. size = Cardinality(live)
  BY <1>2 DEF HeapInv, SizeCounts
<1>4. \A o \in Valid : refs[o] \subseteq Valid
  BY <1>1 DEF GraphLive
<1> QED
  BY <1>1, <1>2, <1>3, <1>4

\* What a step that leaves the objects alone has to say of the stack.
LEMMA SameGraph ==
    ASSUME HeapInv, phase \in {"run", "alloc"},
           UNCHANGED <<live, refs, size>>,
           stack' \in Seq(Referents), Range(stack') \subseteq Valid
    PROVE  GraphStep
BY GraphFacts DEF GraphStep, GraphLive

LEMMA SameNatives ==
    ASSUME HeapInv, UNCHANGED nativeVars, live \subseteq live'
    PROVE  NativeStep
BY DEF HeapInv, Types, TypeOK, RootsLive, LockHeld, NativeThere, NativeStep, nativeVars

LEMMA SameCollector ==
    ASSUME HeapInv, phase \in {"run", "alloc"}, UNCHANGED <<gcVars, coroutines>>, inNative' \in BOOLEAN
    PROVE  ProgramStep
BY DEF HeapInv, Types, TypeOK, gcVars, ProgramStep

\* A new object has valid references only.
LEMMA TrackFacts ==
    ASSUME HeapInv, phase \in {"run", "alloc"}, NEW o \in Ids, NEW rs \in SUBSET Valid,
           Track(o, rs), stack' \in Seq(Referents), Range(stack') \subseteq Valid \cup {o}
    PROVE  GraphStep /\ live' = live \cup {o} /\ live \subseteq live'
<1>1. /\ GraphLive /\ live \subseteq Ids /\ refs \in [Referents -> SUBSET Referents]
      /\ size = Cardinality(live) /\ size \in Nat
      /\ \A m \in MemberFunctions : refs[m] = {}
  BY GraphFacts
<1>2. /\ o \notin live /\ live' = live \cup {o} /\ size' = size + 1
      /\ refs' = [refs EXCEPT ![o] = rs]
  BY DEF Track
<1>3. IsFiniteSet(live) /\ Cardinality(live \cup {o}) = Cardinality(live) + 1
  <2>1. IsFiniteSet(live)
    BY GraphFacts
  <2> QED
    BY <2>1, <1>2, FS_AddElement
<1>4. /\ refs' \in [Referents -> SUBSET Referents]
      /\ \A x \in live' : refs'[x] \subseteq Valid'
      /\ \A m \in MemberFunctions : refs'[m] = {}
  BY <1>1, <1>2, HeapAssumption DEF GraphLive
<1> QED
  BY <1>1, <1>2, <1>3, <1>4 DEF GraphStep

-----------------------------------------------------------------------------
(* Each action is such a step *)

\* The stack, before and after.
LEMMA StackFacts ==
    ASSUME HeapInv
    PROVE  /\ stack \in Seq(Referents) /\ Range(stack) \subseteq Valid /\ live \subseteq Ids
           /\ TypeOK
           /\ stack # <<>> => Last(stack) \in Range(stack)
           /\ \A k \in 0..Len(stack) :
                  SubSeq(stack, 1, k) \in Seq(Referents) /\ Range(SubSeq(stack, 1, k)) \subseteq Range(stack)
           /\ \A n \in 0..Len(stack) : Cut(n) \in Seq(Referents) /\ Range(Cut(n)) \subseteq Range(stack)
<1>1. stack \in Seq(Referents) /\ Range(stack) \subseteq Valid /\ live \subseteq Ids /\ TypeOK
  BY DEF HeapInv, Types, TypeOK, RootsLive
<1>2. \A k \in 0..Len(stack) :
          SubSeq(stack, 1, k) \in Seq(Referents) /\ Range(SubSeq(stack, 1, k)) \subseteq Range(stack)
  BY <1>1, CutFacts
<1>3. \A n \in 0..Len(stack) : Len(stack) - n \in 0..Len(stack)
  BY <1>1
<1> QED
  BY <1>1, <1>2, <1>3, RangeFacts DEF Cut

\* One more reference on top of what is left of the stack.
LEMMA PushFacts ==
    ASSUME HeapInv, NEW s \in Seq(Referents), Range(s) \subseteq Range(stack), NEW r \in Referents
    PROVE  /\ Append(s, r) \in Seq(Referents)
           /\ Range(Append(s, r)) \subseteq Range(stack) \cup {r}
BY AppendFacts

LEMMA MovingSafe == ASSUME HeapInv, Moving PROVE HeapInv'
<1> USE StackFacts
<1>1. InCode /\ phase \in {"run", "alloc"} /\ GraphLive
  BY GraphFacts
  DEF Moving, Copy, Drop, Overwrite, ReadElement, ReadMember, WriteElement, EraseElement, InCode
<1>2. UNCHANGED <<live, coroutines, gcVars, nativeVars>>
  BY DEF Moving, Copy, Drop, Overwrite, ReadElement, ReadMember, WriteElement, EraseElement
<1>3. ProgramStep /\ NativeStep
  BY <1>1, <1>2, SameCollector, SameNatives DEF nativeVars, TypeOK
<1>4. UNCHANGED <<live, size>>
  BY <1>2 DEF gcVars
<1>5. ASSUME UNCHANGED refs, stack' \in Seq(Referents), Range(stack') \subseteq Valid
      PROVE  HeapInv'
  BY <1>1, <1>3, <1>4, <1>5, SameGraph, StepKeeps
<1>6. ASSUME NEW o \in Ids, NEW rs \in SUBSET Valid, refs' = [refs EXCEPT ![o] = rs],
             stack' \in Seq(Referents), Range(stack') \subseteq Valid
      PROVE  HeapInv'
  <2>1. GraphStep
    BY <1>1, <1>4, <1>6, GraphFacts, HeapAssumption DEF GraphStep, GraphLive
  <2> QED
    BY <2>1, <1>3, StepKeeps
<1>7. CASE Copy
  <2>1. PICK r \in Range(stack) : stack' = Append(stack, r)
    BY <1>7 DEF Copy
  <2>2. stack' \in Seq(Referents) /\ Range(stack') \subseteq Valid /\ UNCHANGED refs
    BY <1>7, <2>1, PushFacts DEF Copy
  <2> QED
    BY <2>2, <1>5
<1>8. CASE Drop
  <2>1. Len(stack) \in Nat /\ Len(stack) > 0
    BY <1>8 DEF Drop
  <2>2. stack' \in Seq(Referents) /\ Range(stack') \subseteq Valid /\ UNCHANGED refs
    BY <1>8, <2>1 DEF Drop
  <2> QED
    BY <2>2, <1>5
<1>9. CASE Overwrite
  <2>1. PICK i \in 1..(Len(stack) - 1) : stack' = [Cut(1) EXCEPT ![i] = Last(stack)]
    BY <1>9 DEF Overwrite
  <2>2. Len(stack) \in Nat /\ Len(stack) > 0 /\ UNCHANGED refs
    BY <1>9, <2>1 DEF Overwrite
  <2>3. Cut(1) \in Seq(Referents) /\ Range(Cut(1)) \subseteq Range(stack) /\ Last(stack) \in Range(stack)
    BY <2>2
  <2>4. Last(stack) \in Referents /\ i \in 1..Len(Cut(1))
    BY <2>1, <2>2, <2>3, CutFacts DEF Cut
  <2>5. stack' \in Seq(Referents) /\ Range(stack') \subseteq Range(Cut(1)) \cup {Last(stack)}
    BY <2>1, <2>3, <2>4, ReplaceFacts
  <2> QED
    BY <2>2, <2>3, <2>5, <1>5
<1>10. CASE ReadElement
  <2>1. PICK r \in refs[Last(stack)] : stack' = Append(Cut(1), r)
    BY <1>10 DEF ReadElement
  <2>2. Len(stack) \in Nat /\ Len(stack) > 0 /\ UNCHANGED refs /\ Last(stack) \in Valid
    BY <1>10 DEF ReadElement
  <2>3. r \in Valid /\ r \in Referents
    BY <1>1, <2>1, <2>2, GraphFacts
  <2>4. Cut(1) \in Seq(Referents) /\ Range(Cut(1)) \subseteq Range(stack)
    BY <2>2
  <2>5. stack' \in Seq(Referents) /\ Range(stack') \subseteq Valid
    BY <2>1, <2>3, <2>4, PushFacts
  <2> QED
    BY <2>2, <2>5, <1>5
<1>11. CASE WriteElement
  <2> DEFINE container == stack[Len(stack) - 1]
  <2>1. /\ Len(stack) \in Nat /\ Len(stack) >= 2 /\ stack' = Cut(1)
        /\ refs' = [refs EXCEPT ![container] = @ \cup {Last(stack)}]
        /\ container \in live
    BY <1>11 DEF WriteElement, Writable
  <2>2. Last(stack) \in Valid /\ refs[container] \subseteq Valid
    BY <1>1, <2>1 DEF GraphLive
  <2>3. stack' \in Seq(Referents) /\ Range(stack') \subseteq Valid
    BY <2>1
  <2>4. refs' = [refs EXCEPT ![container] = refs[container] \cup {Last(stack)}]
    BY <2>1
  <2>5. container \in Ids /\ refs[container] \cup {Last(stack)} \in SUBSET Valid
    BY <2>1, <2>2
  <2> HIDE DEF container
  <2> QED
    BY <2>3, <2>4, <2>5, <1>6
<1>12. CASE EraseElement
  <2>1. PICK r \in refs[Last(stack)] : refs' = [refs EXCEPT ![Last(stack)] = @ \ {r}]
    BY <1>12 DEF EraseElement
  <2>2. stack' = stack /\ Last(stack) \in live
    BY <1>12 DEF EraseElement, Writable
  <2>3. refs[Last(stack)] \ {r} \subseteq Valid
    BY <1>1, <2>2 DEF GraphLive
  <2>4. refs' = [refs EXCEPT ![Last(stack)] = refs[Last(stack)] \ {r}]
    BY <2>1
  <2> QED
    BY <2>2, <2>3, <2>4, <1>6
<1>13. CASE ReadMember
  <2>1. PICK m \in MemberFunctions : stack' = Append(Cut(1), m)
    BY <1>13 DEF ReadMember
  <2>2. Len(stack) \in Nat /\ Len(stack) > 0 /\ UNCHANGED refs
    BY <1>13 DEF ReadMember
  <2>3. Cut(1) \in Seq(Referents) /\ Range(Cut(1)) \subseteq Range(stack)
    BY <2>2
  <2>4. stack' \in Seq(Referents) /\ Range(stack') \subseteq Valid
    BY <2>1, <2>3, PushFacts
  <2> QED
    BY <2>2, <2>4, <1>5
<1> QED
  BY <1>7, <1>8, <1>9, <1>10, <1>11, <1>12, <1>13 DEF Moving

LEMMA SameReachable ==
    ASSUME UNCHANGED <<refs, stack>>
    PROVE  Reachable(Range(stack))' = Reachable(Range(stack))
BY DEF Reachable, Closed, Range

\* A new object made of operands takes their place on the stack.
LEMMA NewFromOperands ==
    ASSUME HeapInv, phase \in {"run", "alloc"}, phase' \in {"run", "alloc"},
           NEW o \in Ids, NEW n \in 0..Len(stack),
           Track(o, Topmost(n)), stack' = Append(Cut(n), o),
           UNCHANGED <<coroutines, marked, pending, unswept, collected, nextCollection, nativeVars>>
    PROVE  HeapInv'
<1>1. Topmost(n) \subseteq Valid
  BY StackFacts, TopmostFacts
<1>2. stack' \in Seq(Referents) /\ Range(stack') \subseteq Valid \cup {o}
  BY StackFacts, PushFacts
<1>3. GraphStep /\ live \subseteq live'
  BY <1>1, <1>2, TrackFacts
<1>4. NativeStep
  BY <1>3, SameNatives
<1>5. ProgramStep
  BY DEF HeapInv, Types, TypeOK, nativeVars, ProgramStep
<1> QED
  BY <1>3, <1>4, <1>5, StepKeeps

\* The roots of a collection are all there is: no native is in progress.
LEMMA NoNatives ==
    ASSUME HeapInv, gcLock = 0
    PROVE  natives = <<>>
<1>1. natives \in Seq([held : SUBSET Referents, locks : BOOLEAN]) /\ Len(natives) = 0
  BY DEF HeapInv, LockHeld, Types, TypeOK
<1> QED
  BY <1>1, EmptyFacts

LEMMA AllocatingSafe == ASSUME WellBehaved, HeapInv, Allocating PROVE HeapInv'
<1>1. CASE BeginAllocation /\ Collects
  <2>1. /\ phase = "run" /\ phase' = "mark" /\ pending' = Range(stack)
        /\ UNCHANGED <<graphVars, marked, unswept, size, collected, nextCollection, nativeVars>>
    BY <1>1 DEF BeginAllocation
  <2>2. natives = <<>> /\ marked = {} /\ GraphLive
    BY <1>1, <2>1, NoNatives DEF Collects, HeapInv, Resting
  <2>3. Range(stack) \subseteq Valid /\ Range(stack) \subseteq Reachable(Range(stack))
    BY StackFacts, RootsReachable
  <2>4. Types' /\ RootsLive'
    BY <2>1, StackFacts DEF HeapInv, Types, TypeOK, RootsLive, graphVars, nativeVars
  <2>5. Marking'
    <3>1. Reachable(Range(stack))' = Reachable(Range(stack))
      BY <2>1, SameReachable DEF graphVars
    <3>2. GraphLive' /\ natives' = <<>> /\ marked' = {}
      BY <2>1, <2>2 DEF GraphLive, graphVars, nativeVars
    <3>3. Range(stack') = Range(stack) /\ live' = live
      BY <2>1 DEF graphVars
    <3> QED
      BY <2>1, <2>3, <3>1, <3>2, <3>3 DEF Marking
  <2>6. Resting' /\ Sweeping'
    BY <2>1 DEF Resting, Sweeping
  <2>7. SizeCounts'
    BY <2>1 DEF HeapInv, SizeCounts, graphVars
  <2>8. LockHeld' /\ NativeThere'
    BY <2>1 DEF HeapInv, LockHeld, NativeThere, nativeVars
  <2> QED
    BY <2>4, <2>5, <2>6, <2>7, <2>8 DEF HeapInv
<1>2. CASE BeginAllocation /\ ~Collects
  <2>1. /\ phase = "run" /\ phase' = "alloc"
        /\ UNCHANGED <<graphVars, marked, pending, unswept, size, collected, nextCollection, nativeVars>>
    BY <1>2 DEF BeginAllocation
  <2>2. GraphStep
    BY <2>1, StackFacts, SameGraph DEF graphVars
  <2>3. NativeStep
    BY <2>1, SameNatives DEF graphVars
  <2>4. ProgramStep
    BY <2>1 DEF HeapInv, Types, TypeOK, graphVars, nativeVars, ProgramStep
  <2> QED
    BY <2>2, <2>3, <2>4, StepKeeps
<1>3. CASE NewObject
  <2>1. PICK o \in Ids, n \in 0..MaxRefs :
            /\ n <= Len(stack) /\ Track(o, Topmost(n)) /\ stack' = Append(Cut(n), o)
            /\ phase = "alloc" /\ phase' = "run"
            /\ UNCHANGED <<coroutines, marked, pending, unswept, collected, nextCollection, nativeVars>>
    BY <1>3 DEF NewObject
  <2>2. n \in 0..Len(stack)
    BY <2>1, StackFacts, HeapAssumption
  <2> QED
    BY <2>1, <2>2, NewFromOperands
<1>4. CASE NewCoroutine
  BY <1>4 DEF NewCoroutine, WellBehaved
<1>5. CASE AllocateQuietly
  <2>1. PICK o \in Ids, n \in 0..1 :
            /\ n <= Len(stack) /\ Track(o, Topmost(n)) /\ stack' = Append(Cut(n), o)
            /\ phase = "run" /\ phase' = phase
            /\ UNCHANGED <<coroutines, marked, pending, unswept, collected, nextCollection, nativeVars>>
    BY <1>5 DEF AllocateQuietly, InCode
  <2>2. n \in 0..Len(stack)
    BY <2>1, StackFacts
  <2> QED
    BY <2>1, <2>2, NewFromOperands
<1> QED
  BY <1>1, <1>2, <1>3, <1>4, <1>5 DEF Allocating

\* Both sides of the account of a sweep.
LEMMA LiveFacts ==
    ASSUME HeapInv
    PROVE  /\ IsFiniteSet(live) /\ Cardinality(live) \in Nat
           /\ \A o \in live : Cardinality(live \ {o}) = Cardinality(live) - 1
<1>1. IsFiniteSet(live)
  BY HeapAssumption, FS_Subset DEF HeapInv, Types, TypeOK
<1> QED
  BY <1>1, FS_CardinalityType, FS_RemoveElement

\* While a sweep frees what it does not keep, what is kept stays reachable.
LEMMA KeptReachable ==
    ASSUME HeapInv, NEW o \in Ids \ Kept, Range(stack) \subseteq Kept, Closed(Kept),
           Kept \subseteq Reachable(Range(stack)), Kept \subseteq Ids,
           stack' = stack, refs' = [refs EXCEPT ![o] = {}], Kept' = Kept
    PROVE  Closed(Kept)' /\ Kept' \subseteq Reachable(Range(stack))'
<1>1. \A x \in Kept : refs'[x] = refs[x]
  BY DEF HeapInv, Types, TypeOK
<1>2. Closed(Kept)'
  BY <1>1 DEF Closed
<1>3. ASSUME NEW x \in Kept, NEW os \in SUBSET Referents, Range(stack) \subseteq os,
             \A y \in os : refs'[y] \subseteq os
      PROVE  x \in os
  <2>1. Closed(os \cap Kept)
    BY <1>1, <1>3 DEF Closed
  <2>2. Reachable(Range(stack)) \subseteq os \cap Kept
    BY <1>3, <2>1, ReachableInClosed
  <2> QED
    BY <2>2
<1>4. \A x \in Kept, os \in SUBSET Referents : Range(stack)' \subseteq os /\ Closed(os)' => x \in os
  BY <1>3 DEF Closed, Range
<1>5. Kept \subseteq Reachable(Range(stack))'
  BY <1>4 DEF Reachable
<1> QED
  BY <1>2, <1>5

LEMMA MarkSafe == ASSUME HeapInv, NEW o \in Ids, Mark(o) PROVE HeapInv'
<1>1. /\ phase = "mark" /\ phase' = phase /\ o \in pending
      /\ marked' = marked \cup {o}
      /\ pending' = (pending \ {o}) \cup (IF o \in marked THEN {} ELSE refs[o])
      /\ UNCHANGED <<graphVars, unswept, size, collected, nextCollection, nativeVars>>
  BY DEF Mark, HeapInv, Types
<1>2. /\ GraphLive /\ natives = <<>> /\ TypeOK
      /\ Range(stack) \subseteq marked \cup pending
      /\ \A x \in marked : refs[x] \subseteq marked \cup pending
      /\ marked \subseteq live /\ pending \subseteq Valid
      /\ marked \cup pending \subseteq Reachable(Range(stack))
  BY <1>1 DEF HeapInv, Marking, Types
<1>3. o \in live /\ refs[o] \subseteq Valid /\ refs[o] \subseteq Reachable(Range(stack))
  BY <1>1, <1>2, ReachableFollows, HeapAssumption DEF GraphLive
<1>4. live \subseteq Ids
  BY <1>2 DEF TypeOK
<1>5. Types' /\ RootsLive'
  BY <1>1, <1>2, <1>3, <1>4 DEF HeapInv, Types, TypeOK, RootsLive, graphVars, nativeVars
<1>6. Marking'
  <2>1. Reachable(Range(stack))' = Reachable(Range(stack))
    BY <1>1, SameReachable DEF graphVars
  <2>2. GraphLive' /\ natives' = <<>>
    BY <1>1, <1>2 DEF GraphLive, graphVars, nativeVars
  <2>3. Range(stack') = Range(stack) /\ live' = live /\ refs' = refs
    BY <1>1 DEF graphVars
  <2>4. /\ Range(stack) \subseteq marked' \cup pending'
        /\ marked' \subseteq live /\ pending' \subseteq Valid
        /\ marked' \cup pending' \subseteq Reachable(Range(stack))
    BY <1>1, <1>2, <1>3
  <2>5. \A x \in marked' : refs[x] \subseteq marked' \cup pending'
    BY <1>1, <1>2
  <2> QED
    BY <2>1, <2>2, <2>3, <2>4, <2>5 DEF Marking
<1>7. Resting' /\ Sweeping'
  BY <1>1 DEF Resting, Sweeping
<1>8. SizeCounts' /\ LockHeld' /\ NativeThere'
  BY <1>1 DEF HeapInv, SizeCounts, LockHeld, NativeThere, graphVars, nativeVars
<1> QED
  BY <1>5, <1>6, <1>7, <1>8 DEF HeapInv

LEMMA MarkMemberSafe == ASSUME HeapInv, NEW m \in MemberFunctions, MarkMember(m) PROVE HeapInv'
<1>1. /\ phase = "mark" /\ phase' = "dead"
      /\ UNCHANGED <<graphVars, marked, pending, unswept, size, collected, nextCollection, nativeVars>>
  BY DEF MarkMember
<1>2. Types' /\ RootsLive'
  BY <1>1 DEF HeapInv, Types, TypeOK, RootsLive, graphVars, nativeVars
<1>3. Resting' /\ Marking' /\ Sweeping'
  BY <1>1 DEF HeapInv, Resting, Marking, Sweeping, GraphLive, graphVars
<1>4. SizeCounts' /\ LockHeld' /\ NativeThere'
  BY <1>1 DEF HeapInv, SizeCounts, LockHeld, NativeThere, graphVars, nativeVars
<1> QED
  BY <1>2, <1>3, <1>4 DEF HeapInv

LEMMA BeginSweepSafe == ASSUME HeapInv, BeginSweep PROVE HeapInv'
<1>1. /\ phase = "mark" /\ pending = {} /\ phase' = "sweep" /\ unswept' = live /\ collected' = 0
      /\ UNCHANGED <<graphVars, marked, pending, size, nextCollection, nativeVars>>
  BY DEF BeginSweep
<1>2. /\ natives = <<>> /\ Range(stack) \subseteq marked
      /\ \A x \in marked : refs[x] \subseteq marked
      /\ marked \subseteq live /\ marked \subseteq Reachable(Range(stack))
  BY <1>1 DEF HeapInv, Marking
<1>3. Types' /\ RootsLive'
  BY <1>1 DEF HeapInv, Types, TypeOK, RootsLive, graphVars, nativeVars
<1>4. Sweeping'
  <2>1. Reachable(Range(stack))' = Reachable(Range(stack))
    BY <1>1, SameReachable DEF graphVars
  <2>2. Kept' = marked /\ Range(stack') = Range(stack)
    BY <1>1 DEF Kept, graphVars
  <2>3. Closed(Kept)'
    BY <1>1, <1>2, <2>2 DEF Closed, graphVars
  <2> QED
    BY <1>1, <1>2, <2>1, <2>2, <2>3 DEF Sweeping, graphVars, nativeVars
<1>5. Resting' /\ Marking'
  BY <1>1 DEF Resting, Marking
<1>6. SizeCounts'
  BY <1>1, LiveFacts DEF HeapInv, SizeCounts, graphVars
<1>7. LockHeld' /\ NativeThere'
  BY <1>1 DEF HeapInv, LockHeld, NativeThere, nativeVars
<1> QED
  BY <1>3, <1>4, <1>5, <1>6, <1>7 DEF HeapInv

LEMMA SweepSafe == ASSUME HeapInv, NEW o \in Ids, Sweep(o) PROVE HeapInv'
<1>1. /\ phase = "sweep" /\ phase' = phase /\ o \in unswept /\ unswept' = unswept \ {o}
      /\ UNCHANGED <<stack, pending, size, nextCollection, nativeVars>>
  BY DEF Sweep
<1>2. /\ natives = <<>> /\ unswept \subseteq live /\ marked \subseteq unswept
      /\ Range(stack) \subseteq Kept /\ Closed(Kept) /\ Kept \subseteq Reachable(Range(stack))
      /\ live \subseteq Ids
  BY <1>1 DEF HeapInv, Sweeping, Types, TypeOK
<1>3. Resting' /\ Marking'
  BY <1>1 DEF Resting, Marking
<1>4. LockHeld' /\ NativeThere'
  BY <1>1 DEF HeapInv, LockHeld, NativeThere, nativeVars
<1>5. CASE o \in marked
  <2>1. marked' = marked \ {o} /\ UNCHANGED <<live, refs, coroutines, collected>>
    BY <1>5 DEF Sweep
  <2>2. Kept' = Kept
    BY <1>1, <1>2, <1>5, <2>1 DEF Kept
  <2>3. Types' /\ RootsLive'
    BY <1>1, <2>1 DEF HeapInv, Types, TypeOK, RootsLive, nativeVars
  <2>4. Sweeping'
    <3>1. Reachable(Range(stack))' = Reachable(Range(stack))
      BY <1>1, <2>1, SameReachable
    <3>2. Closed(Kept)'
      BY <1>2, <2>1, <2>2 DEF Closed
    <3> QED
      BY <1>1, <1>2, <2>1, <2>2, <3>1, <3>2 DEF Sweeping, nativeVars
  <2>5. SizeCounts'
    BY <1>1, <2>1 DEF HeapInv, SizeCounts
  <2> QED
    BY <1>3, <1>4, <2>3, <2>4, <2>5 DEF HeapInv
<1>6. CASE o \notin marked
  <2>1. /\ live' = live \ {o} /\ refs' = [refs EXCEPT ![o] = {}] /\ coroutines' = coroutines \ {o}
        /\ collected' = collected + 1 /\ marked' = marked
    BY <1>6 DEF Sweep
  <2>2. Kept' = Kept /\ o \in Ids \ Kept /\ Kept \subseteq live /\ Kept \subseteq live'
    BY <1>1, <1>2, <1>6, <2>1 DEF Kept
  <2>3. Closed(Kept)' /\ Kept' \subseteq Reachable(Range(stack))'
    BY <1>1, <1>2, <2>1, <2>2, KeptReachable
  <2>4. Types'
    BY <1>1, <2>1, HeapAssumption DEF HeapInv, Types, TypeOK, nativeVars
  <2>5. Range(stack') \subseteq Kept' /\ natives' = <<>>
    BY <1>1, <1>2, <2>2 DEF nativeVars
  <2>6. RootsLive'
    BY <2>2, <2>5 DEF RootsLive
  <2>7. Sweeping'
    BY <1>1, <1>2, <2>1, <2>3, <2>5, <1>6 DEF Sweeping
  <2>8. SizeCounts'
    BY <1>1, <1>2, <2>1, LiveFacts DEF HeapInv, SizeCounts, Types, TypeOK
  <2> QED
    BY <1>3, <1>4, <2>4, <2>6, <2>7, <2>8 DEF HeapInv
<1> QED
  BY <1>5, <1>6

\* At the end of a sweep all that is left is reachable.
LEMMA SweptFacts ==
    ASSUME HeapInv, phase = "sweep", unswept = {}
    PROVE  Kept = live /\ marked = {} /\ live = Reachable(Range(stack)) /\ Closed(live)
<1>1. /\ marked = {} /\ Kept = live /\ Closed(live) /\ live \subseteq Ids
      /\ Range(stack) \subseteq live /\ live \subseteq Reachable(Range(stack))
  BY DEF HeapInv, Sweeping, Kept, Types, TypeOK
<1> QED
  BY <1>1, ReachableInClosed

LEMMA EndSweepSafe == ASSUME HeapInv, EndSweep PROVE HeapInv'
<1>1. /\ phase = "sweep" /\ unswept = {} /\ phase' = "alloc" /\ size' = size - collected
      /\ nextCollection' = Max2(size' * Growth, MinCollection)
      /\ UNCHANGED <<graphVars, marked, pending, unswept, collected, nativeVars>>
  BY DEF EndSweep
<1>2. marked = {} /\ Closed(live)
  BY <1>1, SweptFacts
<1>3. Cardinality(live) \in Nat /\ size' = Cardinality(live)
  BY <1>1, LiveFacts DEF HeapInv, SizeCounts, Types, TypeOK
<1>4. nextCollection' \in Nat
  <2>1. \A a, b \in Nat : a * b \in Nat
    OBVIOUS
  <2>2. size' * Growth \in Nat /\ MinCollection \in Nat
    BY <1>3, <2>1, HeapAssumption
  <2> QED
    BY <1>1, <2>2 DEF Max2
<1>5. Types' /\ RootsLive'
  BY <1>1, <1>3, <1>4 DEF HeapInv, Types, TypeOK, RootsLive, graphVars, nativeVars
<1>6. Resting'
  BY <1>1, <1>2 DEF Resting, GraphLive, Closed, graphVars
<1>7. Marking' /\ Sweeping'
  BY <1>1 DEF Marking, Sweeping
<1>8. SizeCounts'
  BY <1>1, <1>3 DEF SizeCounts, graphVars
<1>9. LockHeld' /\ NativeThere'
  BY <1>1 DEF HeapInv, LockHeld, NativeThere, nativeVars
<1> QED
  BY <1>5, <1>6, <1>7, <1>8, <1>9 DEF HeapInv

LEMMA CollectingSafe == ASSUME HeapInv, Collecting PROVE HeapInv'
BY MarkSafe, MarkMemberSafe, BeginSweepSafe, SweepSafe, EndSweepSafe DEF Collecting

-----------------------------------------------------------------------------
(* Natives *)

NativeRecord == [held : SUBSET Referents, locks : BOOLEAN]

LEMMA NativesFacts ==
    ASSUME HeapInv
    PROVE  /\ natives \in Seq(NativeRecord) /\ gcLock = Len(natives) /\ Len(natives) \in Nat
           /\ \A i \in DOMAIN natives : natives[i].locks /\ natives[i].held \subseteq Valid
           /\ inNative => natives # <<>>
           /\ natives # <<>> =>
                  /\ Last(natives) \in NativeRecord /\ Last(natives).locks
                  /\ Last(natives).held \subseteq Valid
<1>1. /\ natives \in Seq(NativeRecord) /\ gcLock = Len(natives) /\ Len(natives) \in Nat
      /\ \A i \in DOMAIN natives : natives[i].locks /\ natives[i].held \subseteq Valid
      /\ inNative => natives # <<>>
  BY DEF HeapInv, Types, TypeOK, NativeRecord, RootsLive, LockHeld, NativeThere
<1>2. natives # <<>> => Len(natives) \in DOMAIN natives /\ Last(natives) = natives[Len(natives)]
  BY <1>1 DEF Last
<1> QED
  BY <1>1, <1>2

LEMMA FrontFacts ==
    ASSUME HeapInv, natives # <<>>
    PROVE  /\ Front(natives) \in Seq(NativeRecord)
           /\ Len(Front(natives)) = Len(natives) - 1
           /\ \A i \in 1..(Len(natives) - 1) : Front(natives)[i] = natives[i]
<1>1. Len(natives) - 1 \in 0..Len(natives)
  BY NativesFacts, EmptyFacts
<1>2. Front(natives) = SubSeq(natives, 1, Len(natives) - 1)
  BY DEF Front
<1> QED
  BY <1>1, <1>2, NativesFacts, CutFacts

\* The native that runs has other references now.
LEMMA HoldFacts ==
    ASSUME HeapInv, natives # <<>>, NEW hs, hs \subseteq Valid', live' \subseteq Ids, live \subseteq live',
           Hold(hs), gcLock' = gcLock
    PROVE  NativeStep
<1> DEFINE last == [Last(natives) EXCEPT !.held = hs]
<1>1. last \in NativeRecord /\ last.locks /\ last.held \subseteq Valid'
  BY NativesFacts DEF NativeRecord
<1> HIDE DEF last
<1>2. natives' = Front(natives) \o <<last>>
  BY DEF Hold, last
<1>3. PICK n \in Nat : n = Len(natives) /\ n > 0 /\ gcLock' = n
  BY NativesFacts, EmptyFacts
<1>4. /\ natives' \in Seq(NativeRecord)
      /\ Len(natives') = n
      /\ natives'[n] = last
      /\ \A i \in 1..(n - 1) : natives'[i] = natives[i]
  BY <1>1, <1>2, <1>3, FrontFacts
<1>5. \A i \in 1..n : natives'[i].locks /\ natives'[i].held \subseteq Valid'
  <2>1. \A i \in 1..(n - 1) : natives[i].locks /\ natives[i].held \subseteq Valid
    BY <1>3, NativesFacts
  <2> QED
    BY <1>1, <1>3, <1>4, <2>1
<1>6. natives' # <<>>
  BY <1>3, <1>4, EmptyFacts
<1> QED
  BY <1>3, <1>4, <1>5, <1>6 DEF NativeStep, NativeRecord

LEMMA EndFacts ==
    ASSUME HeapInv, inNative, live \subseteq live', End
    PROVE  NativeStep /\ inNative' \in BOOLEAN
<1>1. natives # <<>> /\ gcLock' = gcLock - 1 /\ natives' = Front(natives) /\ inNative' = FALSE
  BY NativesFacts DEF End
<1>2. PICK n \in Nat : n = Len(natives) /\ n > 0 /\ gcLock = n
  BY <1>1, NativesFacts, EmptyFacts
<1>3. Len(natives') = n - 1 /\ natives' \in Seq(NativeRecord)
  BY <1>1, <1>2, FrontFacts
<1>4. \A i \in DOMAIN natives' : natives'[i].locks /\ natives'[i].held \subseteq Valid'
  BY <1>1, <1>2, <1>3, FrontFacts, NativesFacts
<1> QED
  BY <1>1, <1>2, <1>3, <1>4 DEF NativeStep, NativeRecord

\* All natives in progress lock: unwinding them all releases every lock.
LEMMA AllLocks == ASSUME HeapInv PROVE Locks(natives) = Len(natives)
<1>1. {i \in DOMAIN natives : natives[i].locks} = 1..Len(natives)
  BY NativesFacts
<1>2. PICK n \in Nat : n = Len(natives)
  BY NativesFacts
<1>3. Cardinality(1..n) = n
  BY FS_Interval
<1> QED
  BY <1>1, <1>2, <1>3 DEF Locks

\* What a step that moves references between stack and natives has to say.
LEMMA CallStep ==
    ASSUME HeapInv, phase = "run", UNCHANGED <<live, refs, coroutines, gcVars>>,
           stack' \in Seq(Referents), Range(stack') \subseteq Valid, inNative' \in BOOLEAN, NativeStep
    PROVE  HeapInv'
BY SameCollector, SameGraph, StepKeeps DEF gcVars

\* The reference that a native may push is one it holds.
LEMMA PushHeldFacts ==
    ASSUME HeapInv, natives # <<>>,
           \/ UNCHANGED stack
           \/ \E r \in Last(natives).held : Room /\ stack' = Append(stack, r)
    PROVE  stack' \in Seq(Referents) /\ Range(stack') \subseteq Valid
<1>1. CASE UNCHANGED stack
  BY <1>1, StackFacts
<1>2. ASSUME NEW r \in Last(natives).held, stack' = Append(stack, r)
      PROVE  stack' \in Seq(Referents) /\ Range(stack') \subseteq Valid
  <2>1. r \in Valid /\ r \in Referents
    BY NativesFacts, StackFacts
  <2> QED
    BY <1>2, <2>1, StackFacts, PushFacts
<1> QED
  BY <1>1, <1>2

\* A native makes an object and holds it.
LEMMA AllocatesFacts ==
    ASSUME HeapInv, inNative, phase \in {"run", "alloc"}, phase' \in {"run", "alloc"},
           NEW o \in Ids, Track(o, {}), Hold(Last(natives).held \cup {o}),
           UNCHANGED <<stack, coroutines, marked, pending, unswept, collected, nextCollection,
                       inNative, gcLock>>
    PROVE  HeapInv'
<1>1. GraphStep /\ live' = live \cup {o} /\ live \subseteq live'
  BY StackFacts, TrackFacts
<1>2. natives # <<>> /\ Last(natives).held \cup {o} \subseteq Valid' /\ live' \subseteq Ids
  BY <1>1, NativesFacts, StackFacts
<1>3. NativeStep
  BY <1>1, <1>2, HoldFacts
<1>4. ProgramStep
  BY DEF HeapInv, Types, TypeOK, ProgramStep
<1> QED
  BY <1>1, <1>3, <1>4, StepKeeps

LEMMA CallingSafe == ASSUME WellBehaved, HeapInv, Calling PROVE HeapInv'
<1>1. CASE StartNative
  <2>1. PICK n \in 0..1, locks \in BOOLEAN :
            /\ phase = "run" /\ n <= Len(stack) /\ locks
            /\ stack' = Cut(n)
            /\ natives' = Append(natives, [held |-> Topmost(n), locks |-> locks])
            /\ gcLock' = gcLock + 1
            /\ inNative' = TRUE
            /\ UNCHANGED <<live, refs, coroutines, gcVars>>
    BY <1>1 DEF StartNative, WellBehaved, InCode
  <2>2. n \in 0..Len(stack)
    BY <2>1, StackFacts
  <2>3. stack' \in Seq(Referents) /\ Range(stack') \subseteq Valid /\ Topmost(n) \subseteq Valid
    BY <2>1, <2>2, StackFacts, TopmostFacts
  <2> DEFINE new == [held |-> Topmost(n), locks |-> locks]
  <2>4. new \in NativeRecord /\ new.locks /\ new.held \subseteq Valid'
    BY <2>1, <2>3, StackFacts DEF NativeRecord
  <2> HIDE DEF new
  <2>5. PICK k \in Nat : k = Len(natives) /\ gcLock = k
    BY NativesFacts
  <2>6. natives' = Append(natives, new) /\ live' = live
    BY <2>1 DEF new
  <2>7. /\ natives' \in Seq(NativeRecord) /\ Len(natives') = k + 1
        /\ natives'[k + 1] = new /\ \A i \in 1..k : natives'[i] = natives[i]
    BY <2>4, <2>5, <2>6, NativesFacts
  <2>8. \A i \in 1..(k + 1) : natives'[i].locks /\ natives'[i].held \subseteq Valid'
    <3>1. \A i \in 1..k : natives[i].locks /\ natives[i].held \subseteq Valid
      BY <2>5, NativesFacts
    <3> QED
      BY <2>4, <2>6, <2>7, <3>1
  <2>9. NativeStep
    <3>1. natives' # <<>>
      BY <2>7, EmptyFacts
    <3> QED
      BY <2>1, <2>5, <2>7, <2>8, <3>1 DEF NativeStep, NativeRecord
  <2> QED
    BY <2>1, <2>3, <2>9, CallStep
<1>2. CASE NativeAllocates
  BY <1>2, AllocatesFacts DEF NativeAllocates, InNative
<1>3. CASE PluginAllocates
  BY <1>3, AllocatesFacts DEF PluginAllocates
<1>4. CASE NativeReads
  <2>1. /\ natives # <<>> /\ phase = "run" /\ inNative
        /\ UNCHANGED <<graphVars, gcVars, inNative, gcLock>>
    BY <1>4, NativesFacts DEF NativeReads, InNative
  <2>2. PICK o \in Last(natives).held : \E r \in refs[o] : Hold(Last(natives).held \cup {r})
    BY <1>4 DEF NativeReads
  <2>3. PICK r \in refs[o] : Hold(Last(natives).held \cup {r})
    BY <2>2
  <2>4. Last(natives).held \subseteq Valid /\ r \in Valid
    BY <2>1, <2>2, <2>3, NativesFacts, GraphFacts
  <2>5. NativeStep
    BY <2>1, <2>3, <2>4, StackFacts, HoldFacts DEF graphVars
  <2> QED
    BY <2>1, <2>5, StackFacts, CallStep DEF graphVars, HeapInv, Types, TypeOK
<1>5. CASE NativeWrites
  <2>1. /\ natives # <<>> /\ phase = "run" /\ inNative
        /\ UNCHANGED <<stack, live, coroutines, gcVars, nativeVars>>
    BY <1>5, NativesFacts DEF NativeWrites, InNative
  <2>2. PICK o, r \in Last(natives).held : Writable(o) /\ refs' = [refs EXCEPT ![o] = @ \cup {r}]
    BY <1>5 DEF NativeWrites
  <2>3. o \in live /\ r \in Valid /\ refs[o] \subseteq Valid
    BY <2>1, <2>2, NativesFacts, GraphFacts DEF GraphLive, Writable
  <2>4. GraphStep
    BY <2>1, <2>2, <2>3, StackFacts, GraphFacts, HeapAssumption DEF GraphStep, GraphLive, gcVars
  <2>5. ProgramStep /\ NativeStep
    BY <2>1, SameCollector, SameNatives DEF nativeVars, HeapInv, Types, TypeOK
  <2> QED
    BY <2>4, <2>5, StepKeeps
<1>6. CASE CallBack
  <2>1. /\ natives # <<>> /\ phase = "run" /\ inNative' = FALSE
        /\ UNCHANGED <<live, refs, coroutines, gcVars, natives, gcLock>>
    BY <1>6, NativesFacts DEF CallBack, InNative
  <2>2. stack' \in Seq(Referents) /\ Range(stack') \subseteq Valid
    BY <1>6, <2>1, PushHeldFacts DEF CallBack
  <2>3. NativeStep
    BY <2>1, NativesFacts DEF NativeStep, NativeRecord
  <2> QED
    BY <2>1, <2>2, <2>3, CallStep
<1>7. CASE CallbackReturns
  <2>1. /\ natives # <<>> /\ stack # <<>> /\ phase = "run" /\ inNative' = TRUE
        /\ stack' = Cut(1) /\ Hold(Last(natives).held \cup {Last(stack)})
        /\ UNCHANGED <<live, refs, coroutines, gcVars, gcLock>>
    BY <1>7 DEF CallbackReturns, InCode
  <2>2. 1 \in 0..Len(stack)
    BY <2>1, StackFacts, EmptyFacts
  <2>3. stack' \in Seq(Referents) /\ Range(stack') \subseteq Valid
    BY <2>1, <2>2, StackFacts
  <2>4. Last(natives).held \cup {Last(stack)} \subseteq Valid'
    BY <2>1, StackFacts, NativesFacts
  <2>5. NativeStep
    BY <2>1, <2>4, StackFacts, HoldFacts
  <2> QED
    BY <2>1, <2>3, <2>5, CallStep
<1>8. CASE EndNative
  <2>1. /\ natives # <<>> /\ phase = "run" /\ inNative /\ End
        /\ UNCHANGED <<live, refs, coroutines, gcVars>>
    BY <1>8, NativesFacts DEF EndNative, InNative
  <2>2. stack' \in Seq(Referents) /\ Range(stack') \subseteq Valid
    BY <1>8, <2>1, PushHeldFacts DEF EndNative
  <2>3. NativeStep /\ inNative' \in BOOLEAN
    BY <2>1, EndFacts
  <2> QED
    BY <2>1, <2>2, <2>3, CallStep
<1> QED
  BY <1>1, <1>2, <1>3, <1>4, <1>5, <1>6, <1>7, <1>8 DEF Calling

-----------------------------------------------------------------------------
(* Exceptions and the host *)

LEMMA FailingSafe == ASSUME HeapInv, Failing PROVE HeapInv'
<1>1. CASE Throw
  <2>1. PICK k \in 0..Len(stack) :
            /\ phase = "run" /\ stack # <<>> /\ stack' = Append(CutTo(k), Last(stack))
            /\ UNCHANGED <<live, refs, coroutines, gcVars, nativeVars>>
    BY <1>1 DEF Throw, InCode
  <2>2. /\ CutTo(k) \in Seq(Referents) /\ Range(CutTo(k)) \subseteq Range(stack)
        /\ Last(stack) \in Range(stack) /\ Range(stack) \subseteq Valid /\ live \subseteq Ids
    BY <2>1, StackFacts DEF CutTo
  <2>3. stack' \in Seq(Referents) /\ Range(stack') \subseteq Valid
    BY <2>1, <2>2, PushFacts
  <2>4. NativeStep /\ inNative' \in BOOLEAN
    BY <2>1, SameNatives DEF nativeVars, HeapInv, Types, TypeOK
  <2> QED
    BY <2>1, <2>3, <2>4, CallStep
<1>2. CASE Fail
  <2>1. PICK k \in 0..Len(stack), o \in Ids :
            /\ phase = "run" /\ phase' = phase /\ Track(o, {}) /\ stack' = Append(CutTo(k), o)
            /\ IF inNative THEN End ELSE UNCHANGED nativeVars
            /\ UNCHANGED <<coroutines, marked, pending, unswept, collected, nextCollection>>
    BY <1>2 DEF Fail
  <2>2. stack' \in Seq(Referents) /\ Range(stack') \subseteq Valid \cup {o}
    <3>1. /\ CutTo(k) \in Seq(Referents) /\ Range(CutTo(k)) \subseteq Range(stack)
          /\ Range(stack) \subseteq Valid
      BY <2>1, StackFacts DEF CutTo
    <3> QED
      BY <2>1, <3>1, PushFacts
  <2>3. GraphStep /\ live \subseteq live'
    BY <2>1, <2>2, TrackFacts
  <2>4. NativeStep /\ inNative' \in BOOLEAN
    BY <2>1, <2>3, EndFacts, SameNatives DEF nativeVars, HeapInv, Types, TypeOK
  <2>5. ProgramStep
    BY <2>1, <2>4 DEF HeapInv, Types, TypeOK, ProgramStep
  <2> QED
    BY <2>3, <2>4, <2>5, StepKeeps
<1>3. CASE Unhandled
  <2>1. PICK k \in 0..Len(stack) :
            /\ phase = "run" /\ stack' = CutTo(k) /\ natives' = <<>>
            /\ gcLock' = gcLock - Locks(natives) /\ inNative' = FALSE
            /\ UNCHANGED <<live, refs, coroutines, gcVars>>
    BY <1>3 DEF Unhandled
  <2>2. stack' \in Seq(Referents) /\ Range(stack') \subseteq Valid
    BY <2>1, StackFacts DEF CutTo
  <2>3. gcLock' = 0
    BY <2>1, AllLocks, NativesFacts
  <2>4. NativeStep
    BY <2>1, <2>3 DEF NativeStep
  <2> QED
    BY <2>1, <2>2, <2>4, CallStep
<1>4. CASE Reset
  <2>1. /\ phase = "run" /\ stack' = <<>> /\ live' = {} /\ refs' = [o \in Referents |-> {}]
        /\ coroutines' = {} /\ size' = 0 /\ nextCollection' = FirstCollection
        /\ UNCHANGED <<marked, pending, unswept, phase, collected, nativeVars>>
    BY <1>4 DEF Reset
  <2>2. GraphStep
    BY <2>1, FS_EmptySet DEF GraphStep, Range
  <2>3. NativeStep
    BY <1>4, <2>1 DEF Reset, NativeStep, nativeVars, HeapInv, Types, TypeOK, LockHeld, NativeThere
  <2>4. ProgramStep
    BY <2>1, HeapAssumption DEF ProgramStep, HeapInv, Types, TypeOK, nativeVars
  <2> QED
    BY <2>2, <2>3, <2>4, StepKeeps
<1> QED
  BY <1>1, <1>2, <1>3, <1>4 DEF Failing

-----------------------------------------------------------------------------
(* The theorems *)

LEMMA InitHeap == Init => HeapInv
<1> SUFFICES ASSUME Init PROVE HeapInv
  OBVIOUS
<1>1. /\ stack = <<>> /\ live = {} /\ refs = [o \in Referents |-> {}] /\ coroutines = {}
      /\ marked = {} /\ pending = {} /\ unswept = {} /\ phase = "run"
      /\ size = 0 /\ collected = 0 /\ nextCollection = FirstCollection
      /\ natives = <<>> /\ inNative = FALSE /\ gcLock = 0
  BY DEF Init
<1>2. Types
  <2>1. stack \in Seq(Referents) /\ natives \in Seq([held : SUBSET Referents, locks : BOOLEAN])
    BY <1>1
  <2>2. refs \in [Referents -> SUBSET Referents]
    BY <1>1
  <2>3. \A i \in DOMAIN natives : natives[i].locks
    BY <1>1
  <2>4. size \in Nat /\ collected \in Nat /\ gcLock \in Nat /\ nextCollection \in Nat
    BY <1>1, HeapAssumption
  <2> QED
    BY <1>1, <2>1, <2>2, <2>3, <2>4 DEF Types, TypeOK
<1>3. RootsLive
  BY <1>1 DEF RootsLive, Range
<1>4. Resting /\ Marking /\ Sweeping
  BY <1>1 DEF Resting, GraphLive, Marking, Sweeping
<1>5. SizeCounts
  BY <1>1, FS_EmptySet DEF SizeCounts
<1>6. LockHeld /\ NativeThere
  BY <1>1 DEF LockHeld, NativeThere
<1> QED
  BY <1>2, <1>3, <1>4, <1>5, <1>6 DEF HeapInv

LEMMA StepHeap == ASSUME WellBehaved, HeapInv, [Next]_vars PROVE HeapInv'
<1>1. CASE Next
  BY <1>1, MovingSafe, AllocatingSafe, CollectingSafe, CallingSafe, FailingSafe DEF Next
<1>2. CASE UNCHANGED vars
  BY <1>2, SameReachable
  DEF vars, graphVars, gcVars, nativeVars, HeapInv, Types, TypeOK, RootsLive, Resting, GraphLive,
      Marking, Sweeping, Kept, Closed, SizeCounts, LockHeld, NativeThere
<1> QED
  BY <1>1, <1>2

(* The inductive invariant: outside a collection all references refer to   *)
(* objects; while gc::mark runs, what is marked or pending is reachable    *)
(* and nothing reachable is lost; while gc::sweep runs, what it keeps is   *)
(* exactly what is reachable.                                              *)
THEOREM HeapSafe == ASSUME WellBehaved PROVE Spec => []HeapInv
<1>1. Init => HeapInv
  BY InitHeap
<1>2. HeapInv /\ [Next]_vars => HeapInv'
  BY StepHeap
<1> QED
  BY <1>1, <1>2, PTL DEF Spec

(* The variables keep the types of the members they stand for.             *)
THEOREM HeapTypes == ASSUME WellBehaved PROVE Spec => []TypeOK
<1>1. HeapInv => TypeOK
  BY DEF HeapInv, Types
<1> QED
  BY <1>1, HeapSafe, PTL

(* No reference that code or a native can get at dangles, in whatever      *)
(* order code, natives, callbacks and collections take turns.              *)
THEOREM ReferencesLive == ASSUME WellBehaved PROVE Spec => []NoDangling
<1>1. HeapInv => NoDangling
  <2> SUFFICES ASSUME HeapInv PROVE NoDangling
    OBVIOUS
  <2>1. /\ live \subseteq Ids /\ Range(stack) \subseteq Valid
        /\ \A i \in DOMAIN natives : natives[i].held \subseteq Valid
        /\ phase \in {"run", "mark", "sweep", "alloc", "dead"}
        /\ \A m \in MemberFunctions : refs[m] = {}
    BY DEF HeapInv, Types, TypeOK, RootsLive
  <2> DEFINE roots == Range(stack) \cup Held
  <2>2. roots \subseteq Valid
    BY <2>1 DEF Held
  <2>3. \E os \in SUBSET Valid : roots \subseteq os /\ Closed(os)
    <3>1. CASE phase # "sweep"
      <4>1. Closed(Valid)
        BY <3>1, <2>1 DEF HeapInv, Resting, Marking, GraphLive, Closed
      <4> QED
        BY <4>1, <2>2
    <3>2. CASE phase = "sweep"
      <4>1. natives = <<>> /\ Kept \subseteq live /\ Range(stack) \subseteq Kept /\ Closed(Kept)
        BY <3>2 DEF HeapInv, Sweeping, Kept
      <4>2. Held = {}
        BY <4>1 DEF Held
      <4> QED
        BY <4>1, <4>2
    <3> QED
      BY <3>1, <3>2
  <2>4. PICK os \in SUBSET Valid : roots \subseteq os /\ Closed(os)
    BY <2>3
  <2>5. Reachable(roots) \subseteq os
    BY <2>1, <2>4, ReachableInClosed
  <2>6. \A o \in Reachable(roots) : o \in Valid /\ refs[o] \subseteq Valid
    BY <2>4, <2>5 DEF Closed
  <2> QED
    BY <2>2, <2>6 DEF NoDangling
<1> QED
  BY <1>1, HeapSafe, PTL

(* The heap's count of objects is right, so it never wraps below zero.     *)
THEOREM CountsKept == ASSUME WellBehaved PROVE Spec => []SizeCounts
<1>1. HeapInv => SizeCounts
  BY DEF HeapInv
<1> QED
  BY <1>1, HeapSafe, PTL

(* The lock of the collector is balanced however natives end.              *)
THEOREM LocksReleased == ASSUME WellBehaved PROVE Spec => []LockBalanced
<1>1. HeapInv => LockBalanced
  BY AllLocks, NativesFacts DEF LockBalanced
<1> QED
  BY <1>1, HeapSafe, PTL

(* A collection frees exactly what cannot be reached from the stack.       *)
THEOREM CollectionExact == ASSUME WellBehaved PROVE Spec => CollectsExactly
<1>1. HeapInv /\ [Next]_vars => [phase = "sweep" /\ phase' = "alloc" => live = Reachable(Range(stack))]_vars
  <2> SUFFICES ASSUME HeapInv, Next, phase = "sweep", phase' = "alloc"
               PROVE  live = Reachable(Range(stack))
    BY DEF vars
  <2>1. EndSweep
    BY DEF Next, Moving, Copy, Drop, Overwrite, ReadElement, ReadMember, WriteElement, EraseElement,
           Allocating, BeginAllocation, NewObject, NewCoroutine, AllocateQuietly,
           Collecting, Mark, MarkMember, Sweep, BeginSweep,
           Calling, StartNative, NativeAllocates, PluginAllocates, NativeReads, NativeWrites,
           CallBack, CallbackReturns, EndNative, Failing, Throw, Fail, Unhandled, Reset,
           InCode, InNative
  <2> QED
    BY <2>1, SweptFacts DEF EndSweep
<1> QED
  BY <1>1, HeapSafe, PTL DEF Spec, CollectsExactly

-----------------------------------------------------------------------------
\* The code has 2 and 129: the threshold lies above what a collection has left.
HeapGrows == Growth >= 2 /\ MinCollection >= 1

LEMMA ThresholdAbove ==
    ASSUME HeapGrows, NEW n \in Nat
    PROVE  n < Max2(n * Growth, MinCollection)
<1>1. n > 0 => n * Growth > n
  <2>1. \A g \in Nat : n > 0 /\ g >= 2 => n * g >= n * 2
    OBVIOUS
  <2> QED
    BY <2>1, HeapAssumption DEF HeapGrows
<1>2. \A a, b \in Nat : Max2(a, b) \in Nat /\ Max2(a, b) >= a /\ Max2(a, b) >= b
  BY DEF Max2
<1>3. \A a \in Nat : n * a \in Nat
  OBVIOUS
<1>4. n * Growth \in Nat /\ MinCollection \in Nat /\ MinCollection >= 1
  BY <1>3, HeapAssumption DEF HeapGrows
<1>5. ASSUME NEW product \in Nat, n > 0 => product > n
      PROVE  n < Max2(product, MinCollection)
  BY <1>2, <1>4, <1>5
<1> QED
  BY <1>1, <1>4, <1>5

(* An instruction allocates below the threshold or under the lock, so what *)
(* a collection has left does not make the next allocation collect again   *)
(* (next_collection in collect_garbage).                                   *)
THEOREM RoomAlwaysMade == ASSUME WellBehaved, HeapGrows PROVE Spec => []RoomMade
<1>1. Init => RoomMade
  BY DEF Init, RoomMade
<1>2. HeapInv /\ HeapInv' /\ RoomMade /\ [Next]_vars => RoomMade'
  <2> SUFFICES ASSUME HeapInv, HeapInv', RoomMade, [Next]_vars, phase' = "alloc"
               PROVE  size' < nextCollection' \/ gcLock' > 0
    BY DEF RoomMade
  <2>1. size \in Nat /\ nextCollection \in Nat /\ gcLock \in Nat /\ size' \in Nat
    BY DEF HeapInv, Types, TypeOK
  <2>2. CASE phase = "alloc" /\ UNCHANGED <<size, nextCollection, gcLock>>
    BY <2>2 DEF RoomMade
  <2>3. CASE BeginAllocation
    BY <2>1, <2>3 DEF BeginAllocation, Collects, nativeVars
  <2>4. CASE EndSweep
    BY <2>1, <2>4, ThresholdAbove DEF EndSweep
  <2>5. \/ phase = "alloc" /\ UNCHANGED <<size, nextCollection, gcLock>>
        \/ BeginAllocation \/ EndSweep
    <3>1. CASE UNCHANGED vars
      BY <3>1 DEF vars, gcVars, nativeVars
    <3>2. ~Moving
      BY DEF Moving, Copy, Drop, Overwrite, ReadElement, ReadMember, WriteElement, EraseElement,
             InCode, gcVars
    <3>3. CASE Allocating
      BY <3>3 DEF Allocating, NewObject, NewCoroutine, AllocateQuietly, InCode
    <3>4. CASE Collecting
      BY <3>4 DEF Collecting, Mark, MarkMember, Sweep, BeginSweep
    <3>5. ~Calling
      BY DEF Calling, StartNative, NativeAllocates, PluginAllocates, NativeReads, NativeWrites,
             CallBack, CallbackReturns, EndNative, InCode, InNative, gcVars
    <3>6. ~Failing
      BY DEF Failing, Throw, Fail, Unhandled, Reset, InCode, InNative, gcVars
    <3> QED
      BY <3>1, <3>2, <3>3, <3>4, <3>5, <3>6 DEF Next
  <2> QED
    BY <2>2, <2>3, <2>4, <2>5
<1> QED
  BY <1>1, <1>2, HeapSafe, PTL DEF Spec

-----------------------------------------------------------------------------
(* The work that a collection has left: objects that can still be marked,  *)
(* each of which can bring in references to all the others, then the       *)
(* references to follow, then the objects to sweep.                        *)
Work ==
    LET all == Cardinality(Referents)
    IN CASE phase = "mark"  -> Cardinality(Referents \ marked) * (all + 1) + Cardinality(pending) + all + 2
         [] phase = "sweep" -> Cardinality(unswept) + 1
         [] OTHER           -> 0

\* From the first mark to the end of the sweep nothing happens but steps of
\* the collection, and each leaves less to do (gc::mark and gc::sweep call
\* nothing that allocates or runs code).
CollectionShrinks ==
    [][(phase \in {"mark", "sweep"}) => Work \in Nat /\ Work' \in Nat /\ Work' < Work]_vars

LEMMA OnlyCollecting ==
    ASSUME HeapInv, Next, phase \in {"mark", "sweep"}
    PROVE  Collecting
BY DEF Next, Moving, Copy, Drop, Overwrite, ReadElement, ReadMember, WriteElement, EraseElement,
       Allocating, BeginAllocation, NewObject, NewCoroutine, AllocateQuietly,
       Calling, StartNative, NativeAllocates, PluginAllocates, NativeReads, NativeWrites,
       CallBack, CallbackReturns, EndNative, Failing, Throw, Fail, Unhandled, Reset,
       InCode, InNative

LEMMA Counts ==
    ASSUME NEW S \in SUBSET Referents
    PROVE  /\ Cardinality(Referents) \in Nat /\ Cardinality(S) \in 0..Cardinality(Referents)
           /\ \A o \in S : Cardinality(S) # 0 /\ Cardinality(S \ {o}) = Cardinality(S) - 1
<1>1. IsFiniteSet(Referents) /\ IsFiniteSet(S) /\ Cardinality(S) <= Cardinality(Referents)
  BY HeapAssumption, FS_Union, FS_Subset
<1>2. Cardinality(Referents) \in Nat /\ Cardinality(S) \in Nat
  BY <1>1, FS_CardinalityType
<1>3. \A o \in S : Cardinality(S \ {o}) = Cardinality(S) - 1
  BY <1>1, FS_RemoveElement
<1>4. \A o \in S : Cardinality(S) # 0
  BY <1>1, FS_EmptySet
<1> QED
  BY <1>1, <1>2, <1>3, <1>4


LEMMA MarkShrinks ==
    ASSUME HeapInv, HeapInv', NEW o \in Ids, Mark(o)
    PROVE  Work \in Nat /\ Work' \in Nat /\ Work' < Work
<1>1. PICK n \in Nat : n = Cardinality(Referents)
  BY Counts
<1>2. PICK p, q \in 0..n : p = Cardinality(pending) /\ q = Cardinality(pending')
  <2>1. pending \in SUBSET Referents /\ pending' \in SUBSET Referents
    BY DEF HeapInv, Types, TypeOK
  <2> QED
    BY <1>1, <2>1, Counts
<1>3. PICK x, y \in 0..n : x = Cardinality(Referents \ marked) /\ y = Cardinality(Referents \ marked')
  <2>1. Referents \ marked \in SUBSET Referents /\ Referents \ marked' \in SUBSET Referents
    OBVIOUS
  <2> QED
    BY <1>1, <2>1, Counts
<1>4. PICK a, b \in Nat : a = x * (n + 1) /\ b = y * (n + 1)
  <2>1. x \in Nat /\ y \in Nat /\ n + 1 \in Nat
    BY <1>1, <1>3
  <2> QED
    BY <2>1
<1>5. Work = a + p + n + 2 /\ Work' = b + q + n + 2
  <2>1. phase = "mark" /\ phase' = "mark"
    BY DEF Mark
  <2>2. Work = Cardinality(Referents \ marked) * (Cardinality(Referents) + 1) + Cardinality(pending) + Cardinality(Referents) + 2
    BY <2>1 DEF Work
  <2>3. Work' = Cardinality(Referents \ marked') * (Cardinality(Referents) + 1) + Cardinality(pending') + Cardinality(Referents) + 2
    BY <2>1 DEF Work
  <2> QED
    BY <1>1, <1>2, <1>3, <1>4, <2>2, <2>3
<1>6. CASE o \in marked
  <2>1. marked' = marked /\ pending' = pending \ {o} /\ o \in pending
    BY <1>6 DEF Mark, HeapInv, Types
  <2>2. q = p - 1
    <3>1. pending \in SUBSET Referents
      BY DEF HeapInv, Types, TypeOK
    <3> QED
      BY <1>2, <2>1, <3>1, Counts
  <2>3. a = b
    BY <1>3, <1>4, <2>1
  <2> QED
    BY <1>1, <1>2, <1>4, <1>5, <2>2, <2>3
<1>7. CASE o \notin marked
  <2>1. marked' = marked \cup {o}
    BY DEF Mark, HeapInv, Types
  <2>2. Referents \ marked' = (Referents \ marked) \ {o} /\ o \in Referents \ marked
    BY <1>7, <2>1
  <2>3. y = x - 1
    BY <1>3, <2>2, Counts
  <2>4. b = a - (n + 1)
    BY <1>1, <1>3, <1>4, <2>3
  <2> QED
    BY <1>1, <1>2, <1>4, <1>5, <2>4
<1> QED
  BY <1>6, <1>7

LEMMA SweepShrinks ==
    ASSUME HeapInv, HeapInv', (\E o \in Ids : Sweep(o)) \/ BeginSweep \/ EndSweep
    PROVE  Work \in Nat /\ Work' \in Nat /\ Work' < Work
<1>1. PICK n \in Nat : n = Cardinality(Referents)
  BY Counts
<1>2. PICK p, u, v \in 0..n :
        p = Cardinality(pending) /\ u = Cardinality(unswept) /\ v = Cardinality(unswept')
  <2>1. pending \in SUBSET Referents /\ unswept \in SUBSET Referents /\ unswept' \in SUBSET Referents
    BY DEF HeapInv, Types, TypeOK
  <2> QED
    BY <1>1, <2>1, Counts
<1>3. CASE \E o \in Ids : Sweep(o)
  <2>1. PICK o \in Ids : Sweep(o)
    BY <1>3
  <2>2. phase = "sweep" /\ phase' = "sweep" /\ o \in unswept /\ unswept' = unswept \ {o}
    BY <2>1 DEF Sweep
  <2>3. v = u - 1
    <3>1. unswept \in SUBSET Referents
      BY DEF HeapInv, Types, TypeOK
    <3> QED
      BY <1>2, <2>2, <3>1, Counts
  <2>4. Work = u + 1 /\ Work' = v + 1
    BY <1>2, <2>2 DEF Work
  <2> QED
    BY <1>1, <1>2, <2>3, <2>4
<1>4. CASE BeginSweep
  <2>1. PICK x \in 0..n : x = Cardinality(Referents \ marked)
    <3>1. Referents \ marked \in SUBSET Referents
      OBVIOUS
    <3> QED
      BY <1>1, <3>1, Counts
  <2>2. PICK a \in Nat : a = x * (n + 1)
    <3>1. x \in Nat /\ n + 1 \in Nat
      BY <1>1, <2>1
    <3> QED
      BY <3>1
  <2>3. phase = "mark" /\ phase' = "sweep"
    BY <1>4 DEF BeginSweep
  <2>4. Work = a + p + n + 2
    <3>1. Work = Cardinality(Referents \ marked) * (Cardinality(Referents) + 1) + Cardinality(pending) + Cardinality(Referents) + 2
      BY <2>3 DEF Work
    <3> QED
      BY <1>1, <1>2, <2>1, <2>2, <3>1
  <2>5. Work' = v + 1
    BY <1>2, <2>3 DEF Work
  <2> QED
    BY <1>1, <1>2, <2>2, <2>4, <2>5
<1>5. CASE EndSweep
  <2>1. phase = "sweep" /\ phase' = "alloc"
    BY <1>5 DEF EndSweep
  <2>2. Work = u + 1 /\ Work' = 0
    BY <1>2, <2>1 DEF Work
  <2> QED
    BY <1>1, <1>2, <2>2
<1> QED
  BY <1>3, <1>4, <1>5

LEMMA MarkMemberShrinks ==
    ASSUME HeapInv, NEW m \in MemberFunctions, MarkMember(m)
    PROVE  Work \in Nat /\ Work' \in Nat /\ Work' < Work
<1>1. phase = "mark" /\ phase' = "dead" /\ pending \in SUBSET Referents
  BY DEF MarkMember, HeapInv, Types, TypeOK
<1>2. PICK n \in Nat : n = Cardinality(Referents)
  BY Counts
<1>3. PICK x, p \in 0..n : x = Cardinality(Referents \ marked) /\ p = Cardinality(pending)
  <2>1. Referents \ marked \in SUBSET Referents
    OBVIOUS
  <2> QED
    BY <1>1, <1>2, <2>1, Counts
<1>4. PICK a \in Nat : a = x * (n + 1)
  <2>1. x \in Nat /\ n + 1 \in Nat
    BY <1>2, <1>3
  <2> QED
    BY <2>1
<1>5. Work = a + p + n + 2 /\ Work' = 0
  <2>1. Work = Cardinality(Referents \ marked) * (Cardinality(Referents) + 1) + Cardinality(pending) + Cardinality(Referents) + 2
    BY <1>1 DEF Work
  <2>2. Work' = 0
    BY <1>1 DEF Work
  <2> QED
    BY <1>2, <1>3, <1>4, <2>1, <2>2
<1> QED
  BY <1>3, <1>4, <1>5

\* Marking leads to the sweep, except where a member function is reachable:
\* there it leads to the end of the process (gc::mark_obj).
MarkingDecides ==
    [][phase = "mark" /\ phase' # "mark" => phase' = IF Doomed THEN "dead" ELSE "sweep"]_vars

\* What has been marked when nothing is pending is all that is reachable.
LEMMA MarkingDecided ==
    ASSUME HeapInv, Collecting, phase = "mark", phase' # "mark"
    PROVE  phase' = IF Doomed THEN "dead" ELSE "sweep"
<1>1. /\ Range(stack) \subseteq marked \cup pending
      /\ \A o \in marked : refs[o] \subseteq marked \cup pending
      /\ marked \subseteq live /\ live \subseteq Ids
      /\ marked \cup pending \subseteq Reachable(Range(stack))
  BY DEF HeapInv, Marking, Types, TypeOK
<1>2. CASE BeginSweep
  <2>1. Reachable(Range(stack)) \subseteq marked
    BY <1>1, <1>2, ReachableInClosed DEF BeginSweep, Closed
  <2> QED
    BY <1>1, <1>2, <2>1, HeapAssumption DEF BeginSweep, Doomed
<1>3. CASE \E m \in MemberFunctions : MarkMember(m)
  BY <1>1, <1>3 DEF MarkMember, Doomed
<1> QED
  BY <1>2, <1>3 DEF Collecting, Mark, Sweep, EndSweep

(* A collection ends: mark and sweep run without interruption, and the     *)
(* number of things they have left to do falls with each step (gc::mark,   *)
(* gc::sweep), however objects refer to each other.  It ends with the      *)
(* sweep if no member function can be reached from the stack, and with the *)
(* process if one can (mark_obj of NativeFunctionPointer and Plugin).      *)
THEOREM CollectionRunsDown == ASSUME WellBehaved PROVE Spec => CollectionShrinks /\ MarkingDecides
<1>1. HeapInv /\ HeapInv' /\ [Next]_vars =>
        /\ [(phase \in {"mark", "sweep"}) => Work \in Nat /\ Work' \in Nat /\ Work' < Work]_vars
        /\ [phase = "mark" /\ phase' # "mark" => phase' = IF Doomed THEN "dead" ELSE "sweep"]_vars
  <2> SUFFICES ASSUME HeapInv, HeapInv', Next, phase \in {"mark", "sweep"}
               PROVE  /\ Work \in Nat /\ Work' \in Nat /\ Work' < Work
                      /\ phase = "mark" /\ phase' # "mark" => phase' = IF Doomed THEN "dead" ELSE "sweep"
    OBVIOUS
  <2>1. Collecting
    BY OnlyCollecting
  <2>2. Work \in Nat /\ Work' \in Nat /\ Work' < Work
    BY <2>1, MarkShrinks, MarkMemberShrinks, SweepShrinks DEF Collecting
  <2> QED
    BY <2>1, <2>2, MarkingDecided
<1> QED
  BY <1>1, HeapSafe, PTL DEF Spec, CollectionShrinks, MarkingDecides
=============================================================================
