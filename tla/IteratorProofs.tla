--------------------------- MODULE IteratorProofs ---------------------------
(***************************************************************************)
(* Iterators, for any programs, orders of values, containers, iterators    *)
(* around iterators and changes: no iterator gives an element of a         *)
(* container that was changed since, and the containers stay as the code   *)
(* makes them.                                                             *)
(***************************************************************************)
EXTENDS Iterators, CollectionProofs

-----------------------------------------------------------------------------
(* Iterators around iterators *)

IsIterator(it) ==
    it = [form |-> it.form, of |-> it.of, index |-> it.index, version |-> it.version,
          begin |-> it.begin, end |-> it.end, step |-> it.step]

\* An iterator wraps older ones; what it wraps or iterates over is a sequence.
Nested(its) ==
    /\ IsSequence(its)
    /\ \A i \in 1..Len(its) :
          /\ IsIterator(its[i]) /\ IsSequence(its[i].of)
          /\ Wraps(its[i]) => \A j \in DOMAIN its[i].of : its[i].of[j] \in 1..(i - 1)
          /\ its[i].form = "reversed" => Len(its[i].of) = 1

LEMMA InnerOlder ==
    ASSUME NEW its, Nested(its)
    PROVE  \A i \in 1..Len(its) : \A j \in DOMAIN Inner(its[i]) : Inner(its[i])[j] \in 1..(i - 1)
BY DEF Nested, Inner

\* The values of the first n iterators.
IsGot(its, n, f) ==
    f = [i \in 1..n |-> Value(its[i], [j \in DOMAIN Inner(its[i]) |-> f[Inner(its[i])[j]]])]

LEMMA GotExists ==
    ASSUME NEW its, Nested(its)
    PROVE  \A n \in Nat : n <= Len(its) => \E f : IsGot(its, n, f)
<1>0. PICK N \in Nat : N = Len(its)
  BY SequenceFacts DEF Nested
<1>1. PICK T : T = {n \in Nat : n <= N => \E f : IsGot(its, n, f)}
  OBVIOUS
<1>2. ASSUME NEW n \in Nat, \A k \in 0..(n - 1) : k \in T
      PROVE  n \in T
  <2>1. CASE n = 0
    <3>1. PICK f : f = [i \in 1..n |-> 0]
      OBVIOUS
    <3>2. IsGot(its, n, f)
      BY <2>1, <3>1 DEF IsGot
    <3> QED
      BY <1>1, <3>2
  <2>2. CASE n # 0 /\ n <= N
    <3>1. PICK g : IsGot(its, n - 1, g)
      BY <1>1, <1>2, <2>2
    <3>2. g = [i \in 1..(n - 1) |-> Value(its[i], [j \in DOMAIN Inner(its[i]) |-> g[Inner(its[i])[j]]])]
      BY <3>1 DEF IsGot
    <3>3. PICK v : v = Value(its[n], [j \in DOMAIN Inner(its[n]) |-> g[Inner(its[n])[j]]])
      OBVIOUS
    <3>4. PICK f : f = [i \in 1..n |-> IF i = n THEN v ELSE g[i]]
      OBVIOUS
    <3>5. \A i \in 1..(n - 1) : f[i] = g[i]
      BY <3>4
    <3>6. ASSUME NEW i \in 1..n
          PROVE  [j \in DOMAIN Inner(its[i]) |-> f[Inner(its[i])[j]]] = [j \in DOMAIN Inner(its[i]) |-> g[Inner(its[i])[j]]]
      <4>1. \A j \in DOMAIN Inner(its[i]) : Inner(its[i])[j] \in 1..(n - 1)
        BY <1>0, <2>2, InnerOlder
      <4> QED
        BY <3>5, <4>1
    <3>7. ASSUME NEW i \in 1..n
          PROVE  f[i] = Value(its[i], [j \in DOMAIN Inner(its[i]) |-> f[Inner(its[i])[j]]])
      <4>1. PICK u : u = [j \in DOMAIN Inner(its[i]) |-> g[Inner(its[i])[j]]]
        OBVIOUS
      <4>2. u = [j \in DOMAIN Inner(its[i]) |-> f[Inner(its[i])[j]]]
        BY <3>6, <4>1
      <4>3. f[i] = Value(its[i], u)
        <5>1. CASE i = n
          <6>1. v = Value(its[i], u)
            BY <3>3, <4>1, <5>1
          <6> QED
            BY <3>4, <5>1, <6>1
        <5>2. CASE i # n
          <6>1. i \in 1..(n - 1)
            BY <5>2
          <6>2. g[i] = Value(its[i], u)
            BY <3>2, <4>1, <6>1
          <6> QED
            BY <3>5, <6>1, <6>2
        <5> QED
          BY <5>1, <5>2
      <4> QED
        BY <4>2, <4>3
    <3>8. IsGot(its, n, f)
      BY <3>4, <3>7 DEF IsGot
    <3> QED
      BY <1>1, <3>8
  <2> QED
    BY <1>1, <2>1, <2>2
<1>3. T = Nat
  BY <1>1, <1>2, Induction
<1> QED
  BY <1>0, <1>1, <1>3

LEMMA GotIs ==
    ASSUME NEW its, DOMAIN its = 1..Len(its), NEW g, IsGot(its, Len(its), g)
    PROVE  IsGot(its, Len(its), Got(its))
BY Zenon DEF Got, IsGot

\* What an iterator gives follows from what those it wraps give.
LEMMA GotFacts ==
    ASSUME NEW its, Nested(its)
    PROVE  \A i \in 1..Len(its) :
              Get(its, i) = Value(its[i], [j \in DOMAIN Inner(its[i]) |-> Get(its, Inner(its[i])[j])])
<1>1. DOMAIN its = 1..Len(its) /\ Len(its) \in Nat
  BY SequenceFacts DEF Nested
<1>2. IsGot(its, Len(its), Got(its))
  BY <1>1, GotExists, GotIs
<1> QED
  BY <1>2 DEF IsGot, Get

\* The first n iterators, each with those it is around.
IsBelow(its, n, f) ==
    f = [i \in 1..n |-> {i} \cup UNION {f[Inner(its[i])[j]] : j \in DOMAIN Inner(its[i])}]

LEMMA BelowExists ==
    ASSUME NEW its, Nested(its)
    PROVE  \A n \in Nat : n <= Len(its) => \E f : IsBelow(its, n, f)
<1>0. PICK N \in Nat : N = Len(its)
  BY SequenceFacts DEF Nested
<1>1. PICK T : T = {n \in Nat : n <= N => \E f : IsBelow(its, n, f)}
  OBVIOUS
<1>2. ASSUME NEW n \in Nat, \A k \in 0..(n - 1) : k \in T
      PROVE  n \in T
  <2>1. CASE n = 0
    <3>1. PICK f : f = [i \in 1..n |-> 0]
      OBVIOUS
    <3>2. IsBelow(its, n, f)
      BY <2>1, <3>1 DEF IsBelow
    <3> QED
      BY <1>1, <3>2
  <2>2. CASE n # 0 /\ n <= N
    <3>1. PICK g : IsBelow(its, n - 1, g)
      BY <1>1, <1>2, <2>2
    <3>2. g = [i \in 1..(n - 1) |-> {i} \cup UNION {g[Inner(its[i])[j]] : j \in DOMAIN Inner(its[i])}]
      BY <3>1 DEF IsBelow
    <3>3. PICK v : v = {n} \cup UNION {g[Inner(its[n])[j]] : j \in DOMAIN Inner(its[n])}
      OBVIOUS
    <3>4. PICK f : f = [i \in 1..n |-> IF i = n THEN v ELSE g[i]]
      OBVIOUS
    <3>5. \A i \in 1..(n - 1) : f[i] = g[i]
      BY <3>4
    <3>6. ASSUME NEW i \in 1..n
          PROVE  {f[Inner(its[i])[j]] : j \in DOMAIN Inner(its[i])} = {g[Inner(its[i])[j]] : j \in DOMAIN Inner(its[i])}
      <4>1. \A j \in DOMAIN Inner(its[i]) : Inner(its[i])[j] \in 1..(n - 1)
        BY <1>0, <2>2, InnerOlder
      <4> QED
        BY <3>5, <4>1
    <3>7. ASSUME NEW i \in 1..n
          PROVE  f[i] = {i} \cup UNION {f[Inner(its[i])[j]] : j \in DOMAIN Inner(its[i])}
      <4>1. PICK u : u = {g[Inner(its[i])[j]] : j \in DOMAIN Inner(its[i])}
        OBVIOUS
      <4>2. u = {f[Inner(its[i])[j]] : j \in DOMAIN Inner(its[i])}
        BY <3>6, <4>1
      <4>3. f[i] = {i} \cup UNION u
        <5>1. CASE i = n
          <6>1. v = {i} \cup UNION u
            BY <3>3, <4>1, <5>1
          <6> QED
            BY <3>4, <5>1, <6>1
        <5>2. CASE i # n
          <6>1. i \in 1..(n - 1)
            BY <5>2
          <6>2. g[i] = {i} \cup UNION u
            BY <3>2, <4>1, <6>1
          <6> QED
            BY <3>5, <6>1, <6>2
        <5> QED
          BY <5>1, <5>2
      <4> QED
        BY <4>2, <4>3
    <3>8. IsBelow(its, n, f)
      BY <3>4, <3>7 DEF IsBelow
    <3> QED
      BY <1>1, <3>8
  <2> QED
    BY <1>1, <2>1, <2>2
<1>3. T = Nat
  BY <1>1, <1>2, Induction
<1> QED
  BY <1>0, <1>1, <1>3

LEMMA BelowIs ==
    ASSUME NEW its, DOMAIN its = 1..Len(its), NEW g, IsBelow(its, Len(its), g)
    PROVE  IsBelow(its, Len(its), Belows(its))
BY Zenon DEF Belows, IsBelow

LEMMA BelowFacts ==
    ASSUME NEW its, Nested(its)
    PROVE  \A i \in 1..Len(its) :
              Below(its, i) = {i} \cup UNION {Below(its, Inner(its[i])[j]) : j \in DOMAIN Inner(its[i])}
<1>1. DOMAIN its = 1..Len(its) /\ Len(its) \in Nat
  BY SequenceFacts DEF Nested
<1>2. IsBelow(its, Len(its), Belows(its))
  BY <1>1, BelowExists, BelowIs
<1> QED
  BY <1>2 DEF IsBelow, Below

LEMMA StaleGivesNone ==
    ASSUME NEW it, Stale(it), NEW inner
    PROVE  ~IsElement(Value(it, inner))
<1>1. it.form \in {"contiguous", "map"}
  BY DEF Stale
<1>2. Value(it, inner) = OutOfRange
  BY <1>1 DEF Value
<1>3. IsFailure(OutOfRange)
  BY DEF IsFailure, OutOfRange, Raise, Scalar, Object, ValueType
<1> QED
  BY <1>2, <1>3 DEF IsElement

LEMMA CombinedGivesAll ==
    ASSUME NEW it, it.form = "combined", NEW n \in Nat, NEW inner, DOMAIN inner = 1..n,
           IsElement(Value(it, inner)), NEW j \in 1..n
    PROVE  IsElement(inner[j])
<1>1. PICK bad : bad = {k \in DOMAIN inner : ~IsElement(inner[k])}
  OBVIOUS
<1>2. ASSUME bad # {} PROVE FALSE
  <2>1. bad \subseteq Nat /\ bad \subseteq 1..n
    BY <1>1
  <2>2. First(bad) \in bad
    <3>1. \E k \in bad : \A l \in bad : k <= l
      BY <1>2, <2>1, Least
    <3> QED
      BY <3>1 DEF First
  <2>3. Value(it, inner) = inner[First(bad)]
    BY <1>1, <1>2 DEF Value
  <2> QED
    BY <1>1, <2>2, <2>3
<1> QED
  BY <1>1, <1>2

(* An iterator gives an element only if none of those it is around is      *)
(* stale, however deep they are wrapped.                                   *)
LEMMA FreshBelow ==
    ASSUME NEW its, Nested(its)
    PROVE  \A i \in 1..Len(its) :
              IsElement(Get(its, i)) => \A j \in Below(its, i) : j \in 1..Len(its) /\ ~Stale(its[j])
<1>0. PICK N \in Nat : N = Len(its)
  BY SequenceFacts DEF Nested
<1>1. PICK T : T = {i \in Nat : i \in 1..N =>
                       (IsElement(Get(its, i)) => \A j \in Below(its, i) : j \in 1..N /\ ~Stale(its[j]))}
  OBVIOUS
<1>2. ASSUME NEW i \in Nat, \A k \in 0..(i - 1) : k \in T
      PROVE  i \in T
  <2> SUFFICES ASSUME i \in 1..N, IsElement(Get(its, i)), NEW j \in Below(its, i)
               PROVE  j \in 1..N /\ ~Stale(its[j])
    BY <1>1
  <2>1. PICK inner : /\ inner = [k \in DOMAIN Inner(its[i]) |-> Get(its, Inner(its[i])[k])]
                     /\ Get(its, i) = Value(its[i], inner)
    BY <1>0, GotFacts
  <2>2. ~Stale(its[i])
    BY <2>1, StaleGivesNone
  <2>3. CASE j = i
    BY <2>2, <2>3
  <2>4. CASE j # i
    <3>1. PICK k \in DOMAIN Inner(its[i]) : j \in Below(its, Inner(its[i])[k])
      BY <1>0, <2>4, BelowFacts
    <3>2. Wraps(its[i]) /\ Inner(its[i]) = its[i].of
      BY <3>1 DEF Inner
    <3>3. PICK m \in Nat : m = Len(its[i].of) /\ DOMAIN its[i].of = 1..m /\ (its[i].form = "reversed" => m = 1)
      BY <1>0, SequenceFacts DEF Nested
    <3>4. k \in 1..m /\ DOMAIN inner = 1..m /\ inner[k] = Get(its, its[i].of[k])
      BY <2>1, <3>1, <3>2, <3>3
    <3>5. IsElement(inner[k])
      <4>1. CASE its[i].form = "reversed"
        <5>1. Get(its, i) = inner[1]
          BY <2>1, <4>1 DEF Value
        <5> QED
          BY <3>3, <3>4, <4>1, <5>1
      <4>2. CASE its[i].form = "combined"
        BY <2>1, <3>4, <4>2, CombinedGivesAll
      <4> QED
        BY <3>2, <4>1, <4>2 DEF Wraps
    <3>6. its[i].of[k] \in 1..(i - 1)
      BY <1>0, <3>2, <3>3, <3>4 DEF Nested
    <3>7. its[i].of[k] \in T /\ its[i].of[k] \in 1..N
      BY <1>2, <3>6
    <3> QED
      BY <1>1, <3>1, <3>2, <3>4, <3>5, <3>7
  <2> QED
    BY <2>3, <2>4
<1>3. T = Nat
  BY <1>1, <1>2, Induction
<1> QED
  BY <1>0, <1>1, <1>3

-----------------------------------------------------------------------------
(* Moves *)

\* The same iterators, elsewhere.
Alike(its, others) ==
    /\ IsSequence(others) /\ Len(others) = Len(its)
    /\ \A i \in 1..Len(its) :
          /\ IsIterator(others[i]) /\ others[i].form = its[i].form
          /\ others[i].of = its[i].of /\ others[i].version = its[i].version
          /\ others[i].begin = its[i].begin /\ others[i].end = its[i].end /\ others[i].step = its[i].step

LEMMA AlikeItself ==
    ASSUME NEW its, Nested(its)
    PROVE  Alike(its, its)
BY DEF Nested, Alike

LEMMA AlikeTransitive ==
    ASSUME NEW a, NEW b, NEW c, Alike(a, b), Alike(b, c)
    PROVE  Alike(a, c)
BY DEF Alike

LEMMA AlikeMoved ==
    ASSUME NEW its, NEW others, Alike(its, others), NEW k, NEW index, NEW thrown
    PROVE  Alike(its, At0(others, k, index, thrown).iters)
<1>1. PICK y : y = [others[k] EXCEPT !.index = index]
  OBVIOUS
<1>2. PICK o : o = [others EXCEPT ![k] = y]
  OBVIOUS
<1>3. At0(others, k, index, thrown).iters = o
  BY <1>1, <1>2 DEF At0
<1>4. IsSequence(others) /\ Len(others) = Len(its)
  BY DEF Alike
<1>5. IsSequence(o) /\ Len(o) = Len(others)
  BY <1>2, <1>4, OverwrittenSequence
<1>6. DOMAIN others = 1..Len(its)
  BY <1>4, SequenceFacts
<1>7. ASSUME NEW i \in 1..Len(its)
      PROVE  /\ IsIterator(o[i]) /\ o[i].form = its[i].form
             /\ o[i].of = its[i].of /\ o[i].version = its[i].version
             /\ o[i].begin = its[i].begin /\ o[i].end = its[i].end /\ o[i].step = its[i].step
  <2>1. /\ IsIterator(others[i]) /\ others[i].form = its[i].form
        /\ others[i].of = its[i].of /\ others[i].version = its[i].version
        /\ others[i].begin = its[i].begin /\ others[i].end = its[i].end /\ others[i].step = its[i].step
    BY DEF Alike
  <2>2. i \in DOMAIN others
    BY <1>6
  <2>3. CASE i = k
    <3>1. PICK it : it = others[i] /\ IsIterator(it) /\ it.form = its[i].form
                    /\ it.of = its[i].of /\ it.version = its[i].version
                    /\ it.begin = its[i].begin /\ it.end = its[i].end /\ it.step = its[i].step
      BY <2>1
    <3>2. o[i] = [it EXCEPT !.index = index]
      BY <1>1, <1>2, <2>2, <2>3, <3>1
    <3>3. PICK f, g, x, v, b, e, s : /\ f = it.form /\ g = it.of /\ v = it.version
             /\ b = it.begin /\ e = it.end /\ s = it.step
             /\ it = [form |-> f, of |-> g, index |-> x, version |-> v, begin |-> b, end |-> e, step |-> s]
      BY <3>1 DEF IsIterator
    <3>4. o[i] = [form |-> f, of |-> g, index |-> index, version |-> v, begin |-> b, end |-> e, step |-> s]
      BY <3>2, <3>3
    <3> QED
      BY <3>1, <3>3, <3>4 DEF IsIterator
  <2>4. CASE i # k
    <3>1. o[i] = others[i]
      BY <1>2, <2>2, <2>4
    <3> QED
      BY <2>1, <3>1
  <2> QED
    BY <2>3, <2>4
<1> QED
  BY <1>3, <1>4, <1>5, <1>7 DEF Alike

\* What a move of the first n iterators moves.
IsMoves(its, n, f) ==
    f = [i \in 1..n |-> MovesOf(its[i], i, [j \in DOMAIN Inner(its[i]) |-> f[Inner(its[i])[j]]])]

LEMMA MovesExist ==
    ASSUME NEW its, Nested(its)
    PROVE  \A n \in Nat : n <= Len(its) => \E f : IsMoves(its, n, f)
<1>0. PICK N \in Nat : N = Len(its)
  BY SequenceFacts DEF Nested
<1>1. PICK T : T = {n \in Nat : n <= N => \E f : IsMoves(its, n, f)}
  OBVIOUS
<1>2. ASSUME NEW n \in Nat, \A k \in 0..(n - 1) : k \in T
      PROVE  n \in T
  <2>1. CASE n = 0
    <3>1. PICK f : f = [i \in 1..n |-> 0]
      OBVIOUS
    <3>2. IsMoves(its, n, f)
      BY <2>1, <3>1 DEF IsMoves
    <3> QED
      BY <1>1, <3>2
  <2>2. CASE n # 0 /\ n <= N
    <3>1. PICK g : IsMoves(its, n - 1, g)
      BY <1>1, <1>2, <2>2
    <3>2. g = [i \in 1..(n - 1) |-> MovesOf(its[i], i, [j \in DOMAIN Inner(its[i]) |-> g[Inner(its[i])[j]]])]
      BY <3>1 DEF IsMoves
    <3>3. PICK v : v = MovesOf(its[n], n, [j \in DOMAIN Inner(its[n]) |-> g[Inner(its[n])[j]]])
      OBVIOUS
    <3>4. PICK f : f = [i \in 1..n |-> IF i = n THEN v ELSE g[i]]
      OBVIOUS
    <3>5. \A i \in 1..(n - 1) : f[i] = g[i]
      BY <3>4
    <3>6. ASSUME NEW i \in 1..n
          PROVE  [j \in DOMAIN Inner(its[i]) |-> f[Inner(its[i])[j]]] = [j \in DOMAIN Inner(its[i]) |-> g[Inner(its[i])[j]]]
      <4>1. \A j \in DOMAIN Inner(its[i]) : Inner(its[i])[j] \in 1..(n - 1)
        BY <1>0, <2>2, InnerOlder
      <4> QED
        BY <3>5, <4>1
    <3>7. ASSUME NEW i \in 1..n
          PROVE  f[i] = MovesOf(its[i], i, [j \in DOMAIN Inner(its[i]) |-> f[Inner(its[i])[j]]])
      <4>1. PICK u : u = [j \in DOMAIN Inner(its[i]) |-> g[Inner(its[i])[j]]]
        OBVIOUS
      <4>2. u = [j \in DOMAIN Inner(its[i]) |-> f[Inner(its[i])[j]]]
        BY <3>6, <4>1
      <4>3. f[i] = MovesOf(its[i], i, u)
        <5>1. CASE i = n
          <6>1. v = MovesOf(its[i], i, u)
            BY <3>3, <4>1, <5>1
          <6> QED
            BY <3>4, <5>1, <6>1
        <5>2. CASE i # n
          <6>1. i \in 1..(n - 1)
            BY <5>2
          <6>2. g[i] = MovesOf(its[i], i, u)
            BY <3>2, <4>1, <6>1
          <6> QED
            BY <3>5, <6>1, <6>2
        <5> QED
          BY <5>1, <5>2
      <4> QED
        BY <4>2, <4>3
    <3>8. IsMoves(its, n, f)
      BY <3>4, <3>7 DEF IsMoves
    <3> QED
      BY <1>1, <3>8
  <2> QED
    BY <1>1, <2>1, <2>2
<1>3. T = Nat
  BY <1>1, <1>2, Induction
<1> QED
  BY <1>0, <1>1, <1>3

LEMMA MovesAre ==
    ASSUME NEW its, DOMAIN its = 1..Len(its), NEW g, IsMoves(its, Len(its), g)
    PROVE  IsMoves(its, Len(its), AllMoves(its))
BY Zenon DEF AllMoves, IsMoves

LEMMA MovesFacts ==
    ASSUME NEW its, Nested(its)
    PROVE  \A i \in 1..Len(its) :
              Moves(its, i) = MovesOf(its[i], i, [j \in DOMAIN Inner(its[i]) |-> Moves(its, Inner(its[i])[j])])
<1>1. DOMAIN its = 1..Len(its) /\ Len(its) \in Nat
  BY SequenceFacts DEF Nested
<1>2. IsMoves(its, Len(its), AllMoves(its))
  BY <1>1, MovesExist, MovesAre
<1> QED
  BY <1>2 DEF IsMoves, Moves

LEMMA MovesSequence ==
    ASSUME NEW its, Nested(its)
    PROVE  \A i \in 1..Len(its) : IsSequence(Moves(its, i))
<1>0. PICK N \in Nat : N = Len(its)
  BY SequenceFacts DEF Nested
<1>1. PICK T : T = {i \in Nat : i \in 1..N => IsSequence(Moves(its, i))}
  OBVIOUS
<1>2. ASSUME NEW i \in Nat, \A k \in 0..(i - 1) : k \in T
      PROVE  i \in T
  <2> SUFFICES ASSUME i \in 1..N
               PROVE  IsSequence(Moves(its, i))
    BY <1>1
  <2>1. PICK inner : /\ inner = [k \in DOMAIN Inner(its[i]) |-> Moves(its, Inner(its[i])[k])]
                     /\ Moves(its, i) = MovesOf(its[i], i, inner)
    BY <1>0, MovesFacts
  <2>2. PICK m \in Nat : m = Len(its[i].of) /\ DOMAIN its[i].of = 1..m /\ (its[i].form = "reversed" => m = 1)
    BY <1>0, SequenceFacts DEF Nested
  <2>3. ASSUME Wraps(its[i])
        PROVE  inner = [k \in 1..m |-> inner[k]] /\ \A k \in 1..m : IsSequence(inner[k])
    <3>1. Inner(its[i]) = its[i].of
      BY <2>3 DEF Inner
    <3>2. inner = [k \in 1..m |-> Moves(its, its[i].of[k])]
      BY <2>1, <2>2, <3>1
    <3>3. ASSUME NEW k \in 1..m PROVE IsSequence(inner[k])
      <4>1. its[i].of[k] \in 1..(i - 1)
        BY <1>0, <2>2, <2>3 DEF Nested
      <4>2. its[i].of[k] \in T /\ its[i].of[k] \in 1..N
        BY <1>2, <4>1
      <4>3. inner[k] = Moves(its, its[i].of[k])
        BY <3>2
      <4> QED
        BY <1>1, <4>2, <4>3
    <3> QED
      BY <3>2, <3>3
  <2>4. CASE its[i].form = "reversed"
    <3>1. IsSequence(inner[1])
      BY <2>2, <2>3, <2>4 DEF Wraps
    <3>2. PICK n \in Nat : n = Len(inner[1]) /\ DOMAIN inner[1] = 1..n
      BY <3>1, SequenceFacts
    <3>3. PICK b : b = Backwards(inner[1])
      OBVIOUS
    <3>4. b = [k \in 1..n |-> b[k]]
      BY <3>2, <3>3 DEF Backwards
    <3>5. IsSequence(b)
      BY <3>4, FunctionIsSequence
    <3> QED
      BY <2>1, <2>4, <3>3, <3>5 DEF MovesOf
  <2>5. CASE its[i].form = "combined"
    <3>1. Len(inner) = m /\ IsSequence(inner) /\ \A k \in 1..m : IsSequence(inner[k])
      BY <2>3, <2>5, FunctionIsSequence DEF Wraps
    <3>2. IsSequence(FlattenSeq(inner))
      BY <3>1, FlattenSequence
    <3> QED
      BY <2>1, <2>5, <3>2 DEF MovesOf
  <2>6. CASE ~Wraps(its[i])
    <3>1. Moves(its, i) = <<[at |-> i, by |-> 1]>>
      BY <2>1, <2>6 DEF MovesOf, Wraps
    <3> QED
      BY <3>1, OneElement
  <2> QED
    BY <2>4, <2>5, <2>6 DEF Wraps
<1>3. T = Nat
  BY <1>1, <1>2, Induction
<1> QED
  BY <1>0, <1>1, <1>3

LEMMA AloneAlike ==
    ASSUME NEW its, NEW others, Alike(its, others), NEW i, NEW n, NEW o \in MovedAlone(others, i, n)
    PROVE  Alike(its, o.iters)
<1>1. \E index, thrown : o = At0(others, i, index, thrown)
  BY DEF MovedAlone
<1> QED
  BY <1>1, AlikeMoved

IsAfter(its, moves, n, m, f) ==
    f = [k \in 0..m |-> IF k = 0 THEN {[iters |-> its, thrown |-> Null]}
                        ELSE UNION {MovedOn(o, moves[k], n) : o \in f[k - 1]}]

LEMMA AfterExists ==
    ASSUME NEW its, NEW moves, NEW by
    PROVE  \A n \in Nat : \E f : IsAfter(its, moves, by, n, f)
<1>1. PICK T : T = {n \in Nat : \E f : IsAfter(its, moves, by, n, f)}
  OBVIOUS
<1>0. PICK start : start = {[iters |-> its, thrown |-> Null]}
  OBVIOUS
<1>2. ASSUME NEW n \in Nat, \A k \in 0..(n - 1) : k \in T
      PROVE  n \in T
  <2>1. CASE n = 0
    <3>1. PICK f : f = [i \in 0..n |-> start]
      OBVIOUS
    <3>2. IsAfter(its, moves, by, n, f)
      BY <1>0, <2>1, <3>1 DEF IsAfter
    <3> QED
      BY <1>1, <3>2
  <2>2. CASE n # 0
    <3>1. PICK g : IsAfter(its, moves, by, n - 1, g)
      BY <1>1, <1>2, <2>2
    <3>2. g = [i \in 0..(n - 1) |-> IF i = 0 THEN start ELSE UNION {MovedOn(o, moves[i], by) : o \in g[i - 1]}]
      BY <1>0, <3>1, Zenon DEF IsAfter
    <3>3. PICK v : v = UNION {MovedOn(o, moves[n], by) : o \in g[n - 1]}
      OBVIOUS
    <3>4. PICK f : f = [i \in 0..n |-> IF i = n THEN v ELSE g[i]]
      OBVIOUS
    <3>5. \A i \in 0..(n - 1) : f[i] = g[i]
      BY <3>4
    <3>6. ASSUME NEW i \in 0..n
          PROVE  f[i] = IF i = 0 THEN start ELSE UNION {MovedOn(o, moves[i], by) : o \in f[i - 1]}
      <4>1. CASE i = n
        <5>1. f[i] = v /\ i # 0
          BY <2>2, <3>4, <4>1
        <5>2. f[n - 1] = g[n - 1]
          BY <2>2, <3>5
        <5> QED
          BY <3>3, <4>1, <5>1, <5>2, Zenon
      <4>2. CASE i # n
        <5>1. i \in 0..(n - 1) /\ f[i] = g[i]
          BY <3>5, <4>2
        <5>2. i # 0 => f[i - 1] = g[i - 1]
          BY <3>5, <5>1
        <5>3. g[i] = IF i = 0 THEN start ELSE UNION {MovedOn(o, moves[i], by) : o \in g[i - 1]}
          BY <3>2, <5>1, Zenon
        <5> QED
          BY <5>1, <5>2, <5>3, Zenon
      <4> QED
        BY <4>1, <4>2
    <3>7. IsAfter(its, moves, by, n, f)
      BY <1>0, <3>4, <3>6, Zenon DEF IsAfter
    <3> QED
      BY <1>1, <3>7
  <2> QED
    BY <2>1, <2>2
<1>3. T = Nat
  BY <1>1, <1>2, Induction
<1> QED
  BY <1>1, <1>3

LEMMA MovedIs ==
    ASSUME NEW its, NEW i, NEW n, NEW g, IsAfter(its, Moves(its, i), n, Len(Moves(its, i)), g)
    PROVE  \E f : /\ IsAfter(its, Moves(its, i), n, Len(Moves(its, i)), f)
                  /\ Moved(its, i, n) = f[Len(Moves(its, i))]
BY Zenon DEF Moved, IsAfter

\* Whatever a move moves, it moves nothing else of an iterator.
LEMMA MovedAlike ==
    ASSUME NEW its, Nested(its), NEW i \in 1..Len(its), NEW n, NEW out \in Moved(its, i, n)
    PROVE  Alike(its, out.iters)
<1>0. PICK moves : moves = Moves(its, i)
  OBVIOUS
<1>1. PICK m \in Nat : moves = Moves(its, i) /\ m = Len(moves)
  BY <1>0, MovesSequence, SequenceFacts
<1>2. PICK f : IsAfter(its, moves, n, m, f) /\ Moved(its, i, n) = f[m]
  <2>1. \E g : IsAfter(its, moves, n, m, g)
    BY <1>1, AfterExists
  <2> QED
    BY <1>1, <2>1, MovedIs
<1>3. \A k \in 0..m : f[k] = IF k = 0 THEN {[iters |-> its, thrown |-> Null]}
                             ELSE UNION {MovedOn(o, moves[k], n) : o \in f[k - 1]}
  BY <1>2, Zenon DEF IsAfter
<1>4. PICK T : T = {k \in Nat : k \in 0..m => \A o \in f[k] : Alike(its, o.iters)}
  OBVIOUS
<1>5. ASSUME NEW k \in Nat, \A j \in 0..(k - 1) : j \in T
      PROVE  k \in T
  <2> SUFFICES ASSUME k \in 0..m, NEW o \in f[k]
               PROVE  Alike(its, o.iters)
    BY <1>4
  <2>1. CASE k = 0
    <3>1. o = [iters |-> its, thrown |-> Null]
      BY <1>3, <2>1
    <3> QED
      BY <3>1, AlikeItself
  <2>2. CASE k # 0
    <3>0. f[k] = UNION {MovedOn(b, moves[k], n) : b \in f[k - 1]}
      BY <1>3, <2>2, Zenon
    <3>1. PICK before \in f[k - 1] : o \in MovedOn(before, moves[k], n)
      BY <3>0, Zenon
    <3>2. Alike(its, before.iters)
      BY <1>4, <1>5, <2>2, <3>1
    <3>3. CASE before.thrown # Null
      <4>1. o = before
        BY <3>1, <3>3 DEF MovedOn
      <4> QED
        BY <3>2, <4>1
    <3>4. CASE before.thrown = Null
      <4>1. o \in MovedAlone(before.iters, moves[k].at, n * moves[k].by)
        BY <3>1, <3>4 DEF MovedOn
      <4> QED
        BY <3>2, <4>1, AloneAlike
    <3> QED
      BY <3>3, <3>4
  <2> QED
    BY <2>1, <2>2
<1>6. T = Nat
  BY <1>4, <1>5, Induction
<1> QED
  BY <1>2, <1>4, <1>6

LEMMA NextAlike ==
    ASSUME NEW its, Nested(its), NEW i \in 1..Len(its), NEW out \in Next1(its, i)
    PROVE  Alike(its, out.iters)
<1>1. CASE out.iters = its
  BY <1>1, AlikeItself
<1>2. CASE \E o \in Moved(its, i, 1) : out.iters = o.iters
  BY <1>2, MovedAlike
<1> QED
  BY <1>1, <1>2 DEF Next1

-----------------------------------------------------------------------------
(* The invariant *)

\* Iterators over n containers, one for each that has a version.
Placed(its, n) ==
    \A i \in 1..Len(its) :
        /\ ~Wraps(its[i]) => \A j \in DOMAIN its[i].of : its[i].of[j] \in 1..n
        /\ its[i].form \in {"contiguous", "map"} => Len(its[i].of) = 1

HeapOK == IsSequence(heap) /\ \A a \in 1..Len(heap) : WellMade(heap[a])
VersionsOK ==
    /\ IsSequence(version) /\ Len(version) = Len(heap)
    /\ \A a \in 1..Len(heap) : version[a] \in 0..MaxVersion
EditsOK == history.edits \in [1..Len(heap) -> Nat]
IteratorsOK ==
    /\ Nested(iters) /\ Placed(iters, Len(heap))
    /\ IsSequence(history.made) /\ Len(history.made) = Len(iters)
\* The array of a callback loop has as many elements as at the beginning,
\* unless some were added or removed since.
LoopOK ==
    loop # NoLoop =>
        /\ loop.of \in 1..Len(heap) /\ heap[loop.of].k = "array"
        /\ loop.form \in {"range", "indexed"}
        /\ loop.edits \in Nat /\ loop.edits <= history.edits[loop.of]
        /\ loop.edits = history.edits[loop.of] => Len(heap[loop.of].subs) = loop.end
IInv == HeapOK /\ VersionsOK /\ EditsOK /\ IteratorsOK /\ LoopOK

\* An iterator whose version is the container's was made after the last
\* change of the container's shape.
Tells(its, made, ver, edits) ==
    \A i \in 1..Len(its) :
        its[i].form \in {"contiguous", "map"} =>
            LET a == its[i].of[1]
            IN /\ a \in DOMAIN made[i] /\ its[i].version \in Nat /\ its[i].version <= ver[a]
               /\ its[i].version = ver[a] => edits[a] = made[i][a]
VersionsTell == Tells(iters, history.made, version, history.edits)

LEMMA AlikeNested ==
    ASSUME NEW its, Nested(its), NEW n, Placed(its, n), NEW others, Alike(its, others)
    PROVE  Nested(others) /\ Placed(others, n)
<1>1. \A i \in 1..Len(its) : Wraps(others[i]) = Wraps(its[i])
  BY DEF Alike, Wraps
<1>2. Nested(others)
  BY <1>1 DEF Nested, Alike
<1>3. Placed(others, n)
  BY <1>1 DEF Placed, Alike
<1> QED
  BY <1>2, <1>3

LEMMA AppendNested ==
    ASSUME NEW its, Nested(its), NEW n, Placed(its, n),
           NEW it, IsIterator(it), IsSequence(it.of),
           Wraps(it) => \A j \in DOMAIN it.of : it.of[j] \in 1..Len(its),
           ~Wraps(it) => \A j \in DOMAIN it.of : it.of[j] \in 1..n,
           it.form \in {"reversed", "contiguous", "map"} => Len(it.of) = 1
    PROVE  Nested(Append(its, it)) /\ Placed(Append(its, it), n)
<1>1. PICK m \in Nat : m = Len(its)
  BY SequenceFacts DEF Nested
<1>2. PICK s : s = Append(its, it)
  OBVIOUS
<1>3. /\ IsSequence(s) /\ Len(s) = m + 1
      /\ \A i \in 1..m : s[i] = its[i]
      /\ s[m + 1] = it
  BY <1>1, <1>2, AppendSequence DEF Nested
<1>4. ASSUME NEW i \in 1..(m + 1)
      PROVE  /\ IsIterator(s[i]) /\ IsSequence(s[i].of)
             /\ Wraps(s[i]) => \A j \in DOMAIN s[i].of : s[i].of[j] \in 1..(i - 1)
             /\ s[i].form = "reversed" => Len(s[i].of) = 1
             /\ ~Wraps(s[i]) => \A j \in DOMAIN s[i].of : s[i].of[j] \in 1..n
             /\ s[i].form \in {"contiguous", "map"} => Len(s[i].of) = 1
  <2>1. CASE i = m + 1
    BY <1>1, <1>3, <2>1
  <2>2. CASE i # m + 1
    <3>1. i \in 1..m /\ s[i] = its[i]
      BY <1>3, <2>2
    <3> QED
      BY <1>1, <3>1 DEF Nested, Placed
  <2> QED
    BY <2>1, <2>2
<1>5. Nested(s)
  BY <1>3, <1>4 DEF Nested
<1>6. Placed(s, n)
  BY <1>3, <1>4 DEF Placed
<1> QED
  BY <1>2, <1>5, <1>6

-----------------------------------------------------------------------------
(* Steps *)

LEMMA RecordedFacts ==
    ASSUME NEW taken, NEW pristine, NEW made, Recorded(taken, pristine, made)
    PROVE  history'.edits = RecordEdits /\ history'.made = made
BY DEF Recorded

LEMMA EditsFacts ==
    ASSUME HeapOK, EditsOK, IsSequence(heap'), Len(heap) <= Len(heap'), history'.edits = RecordEdits
    PROVE  /\ EditsOK'
           /\ \A a \in 1..Len(heap) :
                 history'.edits[a] = history.edits[a] + (IF Shape(heap'[a]) # Shape(heap[a]) THEN 1 ELSE 0)
<1>1. PICK m \in Nat, n \in Nat :
          m = Len(heap) /\ n = Len(heap') /\ DOMAIN heap = 1..m /\ DOMAIN heap' = 1..n /\ m <= n
  BY SequenceFacts DEF HeapOK
<1>2. PICK e : e = history'.edits
  OBVIOUS
<1>3. e = [a \in 1..n |-> IF a \notin 1..m THEN 0 ELSE history.edits[a] + (IF Edited(a) THEN 1 ELSE 0)]
  BY <1>1, <1>2 DEF RecordEdits
<1>4. \A a \in 1..m : history.edits[a] \in Nat
  BY <1>1 DEF EditsOK
<1>5. \A a \in 1..n : e[a] \in Nat
  BY <1>3, <1>4
<1>6. e \in [1..n -> Nat]
  BY <1>3, <1>5
<1>7. EditsOK'
  BY <1>1, <1>2, <1>6 DEF EditsOK
<1>8. ASSUME NEW a \in 1..m
      PROVE  e[a] = history.edits[a] + (IF Shape(heap'[a]) # Shape(heap[a]) THEN 1 ELSE 0)
  <2>1. Edited(a) = (Shape(heap'[a]) # Shape(heap[a]))
    BY <1>1 DEF Edited
  <2>2. a \in 1..n
    BY <1>1
  <2> QED
    BY <1>3, <2>1, <2>2
<1> QED
  BY <1>1, <1>2, <1>7, <1>8

\* Nothing is edited while the containers stay as they are.
LEMMA EditsStay ==
    ASSUME HeapOK, EditsOK, heap' = heap, history'.edits = RecordEdits
    PROVE  history'.edits = history.edits
<1>1. PICK m \in Nat : m = Len(heap) /\ DOMAIN heap = 1..m
  BY SequenceFacts DEF HeapOK
<1>2. EditsOK' /\ \A a \in 1..m : history'.edits[a] = history.edits[a] + 0
  <2>1. IsSequence(heap') /\ Len(heap) <= Len(heap')
    BY <1>1 DEF HeapOK
  <2> QED
    BY <1>1, <2>1, EditsFacts
<1>3. history.edits \in [1..m -> Nat] /\ history'.edits \in [1..m -> Nat]
  BY <1>1, <1>2 DEF EditsOK
<1>4. \A a \in 1..m : history'.edits[a] = history.edits[a]
  BY <1>2, <1>3
<1> QED
  BY <1>3, <1>4

\* A step that changes the container with address a, or none.
LEMMA ContainersStep ==
    ASSUME IInv, HeapOK', VersionsOK', Len(heap) <= Len(heap'),
           \A a \in 1..Len(heap) : heap'[a].k = heap[a].k,
           loop' = loop, SameIterators
    PROVE  IInv'
<1>1. PICK m \in Nat, n \in Nat :
          m = Len(heap) /\ n = Len(heap') /\ DOMAIN heap = 1..m /\ DOMAIN heap' = 1..n /\ m <= n
  BY SequenceFacts DEF HeapOK, IInv
<1>2. iters' = iters /\ history'.edits = RecordEdits /\ history'.made = history.made
  BY RecordedFacts DEF SameIterators
<1>3. /\ EditsOK'
      /\ \A a \in 1..m :
            history'.edits[a] = history.edits[a] + (IF Shape(heap'[a]) # Shape(heap[a]) THEN 1 ELSE 0)
  BY <1>1, <1>2, EditsFacts DEF IInv, HeapOK
<1>4. IteratorsOK'
  <2>1. Placed(iters, m) => Placed(iters, n)
    BY <1>1 DEF Placed
  <2> QED
    BY <1>1, <1>2, <2>1 DEF IteratorsOK, IInv
<1>5. LoopOK'
  <2> SUFFICES ASSUME loop # NoLoop
               PROVE  /\ loop.of \in 1..n /\ heap'[loop.of].k = "array"
                      /\ loop.form \in {"range", "indexed"}
                      /\ loop.edits \in Nat /\ loop.edits <= history'.edits[loop.of]
                      /\ loop.edits = history'.edits[loop.of] => Len(heap'[loop.of].subs) = loop.end
    BY <1>1 DEF LoopOK
  <2>1. /\ loop.of \in 1..m /\ heap[loop.of].k = "array"
        /\ loop.form \in {"range", "indexed"}
        /\ loop.edits \in Nat /\ loop.edits <= history.edits[loop.of]
        /\ loop.edits = history.edits[loop.of] => Len(heap[loop.of].subs) = loop.end
    BY <1>1 DEF IInv, LoopOK
  <2>2. loop.of \in 1..n /\ heap'[loop.of].k = "array"
    BY <1>1, <2>1
  <2>3. history.edits[loop.of] \in Nat
    BY <1>1, <2>1 DEF IInv, EditsOK
  <2>4. CASE Shape(heap'[loop.of]) = Shape(heap[loop.of])
    <3>1. DOMAIN heap'[loop.of].subs = DOMAIN heap[loop.of].subs
      BY <2>1, <2>2, <2>4 DEF Shape
    <3>2. WellMade(heap[loop.of]) /\ WellMade(heap'[loop.of])
      BY <1>1, <2>1, <2>2 DEF IInv, HeapOK
    <3>3. Len(heap'[loop.of].subs) = Len(heap[loop.of].subs)
      <4>1. PICK k \in Nat, l \in Nat : /\ k = Len(heap[loop.of].subs) /\ l = Len(heap'[loop.of].subs)
                                         /\ 1..k = 1..l
        BY <3>1, <3>2, SequenceFacts DEF WellMade
      <4>2. k = l
        BY <4>1
      <4> QED
        BY <4>1, <4>2
    <3>4. history'.edits[loop.of] = history.edits[loop.of]
      BY <1>3, <2>1, <2>3, <2>4
    <3> QED
      BY <2>1, <2>2, <3>3, <3>4
  <2>5. CASE Shape(heap'[loop.of]) # Shape(heap[loop.of])
    <3>1. history'.edits[loop.of] = history.edits[loop.of] + 1
      BY <1>3, <2>1, <2>5
    <3> QED
      BY <2>1, <2>2, <2>3, <3>1
  <2> QED
    BY <2>4, <2>5
<1> QED
  BY <1>3, <1>4, <1>5 DEF IInv

\* The iterators of a container without a new shape or with a new version.
LEMMA ContainersTell ==
    ASSUME IInv, VersionsTell, HeapOK', VersionsOK', Len(heap) <= Len(heap'), SameIterators,
           \A a \in 1..Len(heap) :
              version[a] <= version'[a] /\ (version[a] = version'[a] => Shape(heap'[a]) = Shape(heap[a]))
    PROVE  VersionsTell'
<1>1. PICK m \in Nat : m = Len(heap) /\ DOMAIN heap = 1..m
  BY SequenceFacts DEF HeapOK, IInv
<1>2. iters' = iters /\ history'.edits = RecordEdits /\ history'.made = history.made
  BY RecordedFacts DEF SameIterators
<1>3. \A a \in 1..m :
            history'.edits[a] = history.edits[a] + (IF Shape(heap'[a]) # Shape(heap[a]) THEN 1 ELSE 0)
  BY <1>1, <1>2, EditsFacts DEF IInv, HeapOK
<1>4. ASSUME NEW i \in 1..Len(iters), iters[i].form \in {"contiguous", "map"}, NEW a, a = iters[i].of[1]
      PROVE  /\ a \in DOMAIN history.made[i] /\ iters[i].version \in Nat /\ iters[i].version <= version'[a]
             /\ iters[i].version = version'[a] => history'.edits[a] = history.made[i][a]
  <2>1. /\ a \in DOMAIN history.made[i] /\ iters[i].version \in Nat /\ iters[i].version <= version[a]
        /\ iters[i].version = version[a] => history.edits[a] = history.made[i][a]
    BY <1>4 DEF VersionsTell, Tells
  <2>2. a \in 1..m
    <3>1. Len(iters[i].of) = 1 /\ IsSequence(iters[i].of) /\ ~Wraps(iters[i])
      BY <1>4 DEF IInv, IteratorsOK, Placed, Nested, Wraps
    <3>2. 1 \in DOMAIN iters[i].of
      BY <3>1, SequenceFacts
    <3> QED
      BY <1>1, <1>4, <3>1, <3>2 DEF IInv, IteratorsOK, Placed
  <2>3. version[a] \in Nat /\ version'[a] \in Nat /\ history.edits[a] \in Nat
    <3>1. Len(heap') \in Nat /\ a \in 1..Len(heap')
      BY <1>1, <2>2, SequenceFacts DEF HeapOK
    <3> QED
      BY <1>1, <2>2, <3>1 DEF IInv, VersionsOK, EditsOK
  <2>4. version[a] <= version'[a] /\ (version[a] = version'[a] => Shape(heap'[a]) = Shape(heap[a]))
    BY <1>1, <2>2
  <2>5. version[a] = version'[a] => history'.edits[a] = history.edits[a]
    BY <1>3, <2>2, <2>3, <2>4
  <2> QED
    BY <2>1, <2>3, <2>4, <2>5
<1> QED
  BY <1>2, <1>4 DEF VersionsTell, Tells

LEMMA NewStep ==
    ASSUME IInv, NEW c, WellMade(c), NEW v \in 0..MaxVersion, New(c, v)
    PROVE  IInv' /\ (VersionsTell => VersionsTell')
<1>1. PICK m \in Nat : m = Len(heap) /\ DOMAIN heap = 1..m
  BY SequenceFacts DEF HeapOK, IInv
<1>2. /\ IsSequence(heap') /\ Len(heap') = m + 1
      /\ \A a \in 1..m : heap'[a] = heap[a]
      /\ heap'[m + 1] = c
  BY <1>1, AppendSequence DEF New, IInv, HeapOK
<1>3. /\ IsSequence(version') /\ Len(version') = m + 1
      /\ \A a \in 1..m : version'[a] = version[a]
      /\ version'[m + 1] = v
  BY <1>1, AppendSequence DEF New, IInv, VersionsOK
<1>4. HeapOK'
  <2>1. ASSUME NEW a \in 1..(m + 1) PROVE WellMade(heap'[a])
    <3>1. CASE a = m + 1
      BY <1>2, <3>1
    <3>2. CASE a # m + 1
      <4>1. a \in 1..m
        BY <3>2
      <4> QED
        BY <1>1, <1>2, <4>1 DEF IInv, HeapOK
    <3> QED
      BY <3>1, <3>2
  <2> QED
    BY <1>2, <2>1 DEF HeapOK
<1>5. VersionsOK'
  <2>1. ASSUME NEW a \in 1..(m + 1) PROVE version'[a] \in 0..MaxVersion
    <3>1. CASE a = m + 1
      BY <1>3, <3>1
    <3>2. CASE a # m + 1
      <4>1. a \in 1..m
        BY <3>2
      <4> QED
        BY <1>1, <1>3, <4>1 DEF IInv, VersionsOK
    <3> QED
      BY <3>1, <3>2
  <2> QED
    BY <1>2, <1>3, <2>1 DEF VersionsOK
<1>6. SameIterators /\ loop' = loop /\ Len(heap) <= Len(heap')
  BY <1>1, <1>2 DEF New
<1>7. IInv'
  BY <1>1, <1>2, <1>4, <1>5, <1>6, ContainersStep
<1>8. \A a \in 1..m : version[a] <= version'[a] /\ Shape(heap'[a]) = Shape(heap[a])
  <2>1. \A a \in 1..m : version[a] \in Nat
    BY <1>1 DEF IInv, VersionsOK
  <2> QED
    BY <1>2, <1>3, <2>1
<1> QED
  BY <1>1, <1>4, <1>5, <1>6, <1>7, <1>8, ContainersTell

\* An outcome that leaves a container as the code makes them.
Fits(c, o) ==
    /\ IsSequence(o.subs)
    /\ c.k = "struct" =>
          /\ IsSequence(o.ids) /\ Len(o.ids) = Len(o.subs)
          /\ \A i, j \in DOMAIN o.ids : o.ids[i] = o.ids[j] => i = j

LEMMA ValueFields ==
    ASSUME NEW k, NEW n, NEW e, NEW s, NEW t, NEW x,
           x = [k |-> k, n |-> n, d |-> e, subs |-> s, ids |-> t]
    PROVE  /\ x.k = k /\ x.subs = s /\ x.ids = t
           /\ x = [Object(x.k, x.n, x.subs, x.ids) EXCEPT !.d = x.d]
BY DEF Object

Rewritten(c, o) == [c EXCEPT !.subs = o.subs, !.ids = o.ids]
LEMMA RewrittenFields ==
    ASSUME NEW c, WellMade(c), NEW o, NEW x, x = Rewritten(c, o)
    PROVE  /\ x.k = c.k /\ x.subs = o.subs /\ x.ids = o.ids
           /\ x = [Object(x.k, x.n, x.subs, x.ids) EXCEPT !.d = x.d]
<1>1. PICK k, n, e, s, t : c = [k |-> k, n |-> n, d |-> e, subs |-> s, ids |-> t]
  BY DEF WellMade, Object
<1>2. PICK u, v : u = o.subs /\ v = o.ids
  OBVIOUS
<1>3. x = [k |-> k, n |-> n, d |-> e, subs |-> u, ids |-> v]
  BY <1>1, <1>2 DEF Rewritten
<1>4. /\ x.k = k /\ x.subs = u /\ x.ids = v
      /\ x = [Object(x.k, x.n, x.subs, x.ids) EXCEPT !.d = x.d]
  BY <1>3, ValueFields
<1>5. c.k = k
  BY <1>1
<1> QED
  BY <1>2, <1>4, <1>5

LEMMA FitsWellMade ==
    ASSUME NEW c, WellMade(c), NEW o, Fits(c, o), NEW x, x = Rewritten(c, o)
    PROVE  WellMade(x) /\ x.k = c.k /\ x.subs = o.subs /\ x.ids = o.ids
BY RewrittenFields DEF WellMade, Fits

LEMMA ApplyStep ==
    ASSUME IInv, NEW a \in 1..Len(heap), NEW o, Fits(heap[a], o), Apply(a, o)
    PROVE  /\ IInv'
           /\ heap'[a].subs = o.subs /\ heap'[a].ids = o.ids
           /\ VersionsTell /\ (o.bumped \/ SameShape(heap[a], o)) => VersionsTell'
<1>1. PICK m \in Nat : m = Len(heap) /\ DOMAIN heap = 1..m
  BY SequenceFacts DEF HeapOK, IInv
<1>2. PICK d : d = Rewritten(heap[a], o)
  OBVIOUS
<1>3. heap' = [heap EXCEPT ![a] = d]
  BY <1>1, <1>2 DEF Apply, Rewritten
<1>4. WellMade(d) /\ d.k = heap[a].k /\ d.subs = o.subs /\ d.ids = o.ids
  <2>1. WellMade(heap[a])
    BY DEF IInv, HeapOK
  <2>2. PICK c : c = heap[a]
    OBVIOUS
  <2>3. WellMade(c) /\ Fits(c, o) /\ d = Rewritten(c, o)
    BY <1>2, <2>1, <2>2
  <2>4. WellMade(d) /\ d.k = c.k /\ d.subs = o.subs /\ d.ids = o.ids
    BY <2>3, FitsWellMade
  <2> QED
    BY <2>2, <2>4
<1>5. /\ IsSequence(heap') /\ Len(heap') = m
      /\ \A b \in 1..m : heap'[b] = IF b = a THEN d ELSE heap[b]
  BY <1>1, <1>3, OverwrittenSequence DEF IInv, HeapOK
<1>6. HeapOK'
  BY <1>1, <1>4, <1>5 DEF IInv, HeapOK
<1>7. PICK w : w = version[a] + (IF o.bumped THEN 1 ELSE 0)
  OBVIOUS
<1>8. version[a] \in Nat /\ w \in 0..MaxVersion /\ version[a] <= w /\ (version[a] = w => ~o.bumped)
  BY <1>7, ProgramsAssumption DEF IInv, VersionsOK, Apply
<1>9. /\ IsSequence(version') /\ Len(version') = m
      /\ \A b \in 1..m : version'[b] = IF b = a THEN w ELSE version[b]
  <2>1. version' = [version EXCEPT ![a] = w]
    BY <1>7 DEF Apply
  <2>2. IsSequence(version) /\ Len(version) = m
    BY <1>1 DEF IInv, VersionsOK
  <2>3. IsSequence(version') /\ Len(version') = m
    BY <2>1, <2>2, OverwrittenSequence
  <2>4. \A b \in 1..m : version'[b] = IF b = a THEN w ELSE version[b]
    BY <2>1, <2>2, SequenceFacts
  <2> QED
    BY <2>3, <2>4
<1>10. VersionsOK'
  BY <1>1, <1>5, <1>8, <1>9 DEF IInv, VersionsOK
<1>11. SameIterators /\ loop' = loop /\ Len(heap) <= Len(heap')
  BY <1>1, <1>5 DEF Apply
<1>12. \A b \in 1..m : heap'[b].k = heap[b].k
  BY <1>4, <1>5
<1>13. IInv'
  BY <1>1, <1>6, <1>10, <1>11, <1>12, ContainersStep
<1>14. ASSUME VersionsTell, o.bumped \/ SameShape(heap[a], o)
       PROVE  VersionsTell'
  <2>1. SameShape(heap[a], o) => Shape(d) = Shape(heap[a])
    BY <1>4 DEF SameShape, Shape, KeysOf
  <2>2. ASSUME NEW b \in 1..m
        PROVE  version[b] <= version'[b] /\ (version[b] = version'[b] => Shape(heap'[b]) = Shape(heap[b]))
    <3>1. CASE b = a
      BY <1>1, <1>5, <1>8, <1>9, <1>14, <2>1, <3>1
    <3>2. CASE b # a
      <4>1. version[b] \in Nat
        BY <1>1 DEF IInv, VersionsOK
      <4> QED
        BY <1>5, <1>9, <3>2, <4>1
    <3> QED
      BY <3>1, <3>2
  <2> QED
    BY <1>1, <1>6, <1>10, <1>11, <1>14, <2>2, ContainersTell
<1>15. heap'[a].subs = o.subs /\ heap'[a].ids = o.ids
  BY <1>1, <1>4, <1>5
<1> QED
  BY <1>13, <1>14, <1>15

\* What holds of containers and loop while only iterators are moved or made.
LEMMA HeapStays ==
    ASSUME IInv, UNCHANGED <<heap, version, loop>>, history'.edits = RecordEdits
    PROVE  HeapOK' /\ VersionsOK' /\ EditsOK' /\ LoopOK' /\ history'.edits = history.edits
<1>1. history'.edits = history.edits
  BY EditsStay DEF IInv
<1> QED
  BY <1>1 DEF IInv, HeapOK, VersionsOK, EditsOK, LoopOK

LEMMA AlikeTells ==
    ASSUME NEW its, NEW made, Tells(its, made, version, history.edits), NEW others, Alike(its, others)
    PROVE  Tells(others, made, version, history.edits)
BY DEF Tells, Alike

LEMMA MovedToStep ==
    ASSUME IInv, NEW its, Alike(iters, its), NEW taken, NEW pristine, MovedTo(its, taken, pristine)
    PROVE  IInv' /\ (VersionsTell => VersionsTell')
<1>1. /\ UNCHANGED <<heap, version, loop>> /\ iters' = its
      /\ history'.edits = RecordEdits /\ history'.made = history.made
  BY RecordedFacts DEF MovedTo
<1>2. HeapOK' /\ VersionsOK' /\ EditsOK' /\ LoopOK' /\ history'.edits = history.edits
  BY <1>1, HeapStays
<1>3. Nested(its) /\ Placed(its, Len(heap)) /\ Len(its) = Len(iters)
  BY AlikeNested DEF IInv, IteratorsOK, Alike
<1>4. IteratorsOK'
  BY <1>1, <1>3 DEF IInv, IteratorsOK
<1>5. VersionsTell => Tells(its, history.made, version, history.edits)
  BY AlikeTells DEF VersionsTell
<1> QED
  BY <1>1, <1>2, <1>4, <1>5 DEF IInv, VersionsTell

LEMMA NewIteratorStep ==
    ASSUME IInv, NEW its, Alike(iters, its), NEW it, NEW taken, NEW pristine,
           NewIterator(its, it, taken, pristine),
           IsIterator(it), IsSequence(it.of),
           Wraps(it) => \A j \in DOMAIN it.of : it.of[j] \in 1..Len(iters),
           ~Wraps(it) => \A j \in DOMAIN it.of : it.of[j] \in 1..Len(heap),
           it.form \in {"reversed", "contiguous", "map"} => Len(it.of) = 1
    PROVE  /\ IInv'
           /\ VersionsTell /\ (it.form \in {"contiguous", "map"} =>
                                   it.version \in Nat /\ it.version <= version[it.of[1]]) => VersionsTell'
<1>1. /\ UNCHANGED <<heap, version, loop>> /\ iters' = Append(its, it)
      /\ history'.edits = RecordEdits /\ history'.made = Append(history.made, history.edits)
  BY RecordedFacts DEF NewIterator
<1>2. HeapOK' /\ VersionsOK' /\ EditsOK' /\ LoopOK' /\ history'.edits = history.edits
  BY <1>1, HeapStays
<1>3. PICK n \in Nat : n = Len(iters) /\ n = Len(its)
  BY SequenceFacts DEF Alike
<1>4. Nested(its) /\ Placed(its, Len(heap))
  BY AlikeNested DEF IInv, IteratorsOK
<1>5. Nested(Append(its, it)) /\ Placed(Append(its, it), Len(heap))
  BY <1>3, <1>4, AppendNested
<1>6. /\ IsSequence(history'.made) /\ Len(history'.made) = n + 1
      /\ \A i \in 1..n : history'.made[i] = history.made[i]
      /\ history'.made[n + 1] = history.edits
  BY <1>1, <1>3, AppendSequence DEF IInv, IteratorsOK
<1>7. /\ Len(iters') = n + 1 /\ \A i \in 1..n : iters'[i] = its[i]
      /\ iters'[n + 1] = it
  BY <1>1, <1>3, AppendSequence DEF Alike
<1>8. IteratorsOK'
  BY <1>1, <1>5, <1>6, <1>7 DEF IteratorsOK
<1>9. ASSUME VersionsTell,
             it.form \in {"contiguous", "map"} => it.version \in Nat /\ it.version <= version[it.of[1]]
      PROVE  VersionsTell'
  <2>1. Tells(its, history.made, version, history.edits)
    BY <1>9, AlikeTells DEF VersionsTell
  <2>2. ASSUME NEW i \in 1..(n + 1), iters'[i].form \in {"contiguous", "map"}, NEW a, a = iters'[i].of[1]
        PROVE  /\ a \in DOMAIN history'.made[i] /\ iters'[i].version \in Nat
               /\ iters'[i].version <= version[a]
               /\ iters'[i].version = version[a] => history.edits[a] = history'.made[i][a]
    <3>1. CASE i = n + 1
      <4>1. iters'[i] = it /\ history'.made[i] = history.edits
        BY <1>6, <1>7, <3>1
      <4>2. 1 \in DOMAIN it.of /\ ~Wraps(it)
        BY <2>2, <4>1, SequenceFacts DEF Wraps
      <4>3. a \in DOMAIN history.edits
        BY <2>2, <4>1, <4>2 DEF IInv, EditsOK
      <4> QED
        BY <1>9, <2>2, <4>1, <4>3
    <3>2. CASE i # n + 1
      <4>1. i \in 1..n /\ iters'[i] = its[i] /\ history'.made[i] = history.made[i]
        BY <1>6, <1>7, <3>2
      <4> QED
        BY <1>3, <2>1, <2>2, <4>1 DEF Tells
    <3> QED
      BY <3>1, <3>2
  <2>3. Tells(iters', history'.made, version, history.edits)
    <3>1. PICK s, made : s = iters' /\ made = history'.made
      OBVIOUS
    <3>2. Len(s) = n + 1
      BY <1>7, <3>1
    <3>3. \A i \in 1..(n + 1) :
             s[i].form \in {"contiguous", "map"} =>
                \A a : a = s[i].of[1] =>
                   /\ a \in DOMAIN made[i] /\ s[i].version \in Nat /\ s[i].version <= version[a]
                   /\ s[i].version = version[a] => history.edits[a] = made[i][a]
      BY <2>2, <3>1, Zenon
    <3>4. Tells(s, made, version, history.edits)
      BY <3>2, <3>3 DEF Tells
    <3> QED
      BY <3>1, <3>4
  <2> QED
    BY <1>1, <1>2, <2>3 DEF VersionsTell
<1> QED
  BY <1>2, <1>8, <1>9 DEF IInv

LEMMA QuietStep ==
    ASSUME IInv, UNCHANGED <<heap, version>>, SameIterators, LoopOK'
    PROVE  IInv' /\ (VersionsTell => VersionsTell')
<1>1. iters' = iters /\ history'.edits = RecordEdits /\ history'.made = history.made
  BY RecordedFacts DEF SameIterators
<1>2. history'.edits = history.edits
  BY <1>1, EditsStay DEF IInv
<1> QED
  BY <1>1, <1>2 DEF IInv, HeapOK, VersionsOK, EditsOK, IteratorsOK, VersionsTell

LEMMA DieStep ==
    ASSUME IInv, Die
    PROVE  IInv' /\ (VersionsTell => VersionsTell')
<1>1. UNCHANGED <<heap, version, loop>> /\ SameIterators /\ history'.edits = RecordEdits
  BY RecordedFacts DEF Die, SameIterators
<1>2. LoopOK'
  BY <1>1, HeapStays
<1> QED
  BY <1>1, <1>2, QuietStep

-----------------------------------------------------------------------------
(* The steps of Next *)

LEMMA SoundFits ==
    ASSUME NEW c, NEW o, Sound(c, o)
    PROVE  Fits(c, o) /\ (o.bumped \/ SameShape(c, o))
BY DEF Sound, Fits

LEMMA SoundStep ==
    ASSUME IInv, NEW a \in 1..Len(heap), NEW o, Sound(heap[a], o), Apply(a, o)
    PROVE  IInv' /\ (VersionsTell => VersionsTell')
BY SoundFits, ApplyStep

LEMMA PushStep ==
    ASSUME IInv, NEW a \in 1..Len(heap), NEW x, PushTo(a, x) \/ PopFrom(a)
    PROVE  IInv' /\ (VersionsTell => VersionsTell')
<1>1. PICK c : c = heap[a] /\ WellMade(c)
  BY DEF IInv, HeapOK
<1>2. /\ Sound(c, Push(c, x)) /\ Sound(c, InsertFront(c, x)) /\ Sound(c, InsertBack(c, x))
      /\ Sound(c, Pop(c)) /\ Sound(c, RemoveFront(c)) /\ Sound(c, RemoveBack(c))
  BY <1>1, FunctionsSound
<1>3. PICK o : Apply(a, o) /\ Sound(c, o)
  BY <1>1, <1>2 DEF PushTo, PopFrom
<1> QED
  BY <1>1, <1>3, SoundStep

LEMMA InsertStep ==
    ASSUME IInv, NEW a \in 1..Len(heap), NEW key, NEW x, InsertInto(a, key, x) \/ RemoveFrom(a, key)
    PROVE  IInv' /\ (VersionsTell => VersionsTell')
<1>1. PICK c : c = heap[a] /\ WellMade(c)
  BY DEF IInv, HeapOK
<1>2. Sound(c, Insert(c, key, x)) /\ Sound(c, RemoveKey(c, key))
  BY <1>1, FunctionsSound
<1>3. c.k = "array" => Sound(c, MemberInsert(c, key.n, x)) /\ Sound(c, MemberErase(c, key.n))
  BY <1>1, ArraysSound
<1>4. c.k = "map" => Sound(c, MapMemberErase(c, key))
  BY <1>1, MapsSound
<1>5. PICK o : Apply(a, o) /\ Sound(c, o)
  BY <1>1, <1>2, <1>3, <1>4 DEF InsertInto, RemoveFrom
<1> QED
  BY <1>1, <1>5, SoundStep

LEMMA RearrangeStep ==
    ASSUME IInv, NEW a \in 1..Len(heap), NEW x, Rearrange(a, x)
    PROVE  IInv' /\ (VersionsTell => VersionsTell')
<1>1. PICK c : c = heap[a] /\ WellMade(c) /\ c.k = "array"
  BY DEF IInv, HeapOK, Rearrange
<1>2. /\ \A sign : \A o \in Sorted(c, sign) : Sound(c, o)
      /\ Sound(c, ReverseInPlace(c)) /\ Sound(c, Fill(c, x))
  BY <1>1, ArraysSound
<1>3. PICK o : Apply(a, o) /\ Sound(c, o)
  BY <1>1, <1>2 DEF Rearrange
<1> QED
  BY <1>1, <1>3, SoundStep

LEMMA MemberStep ==
    ASSUME IInv, NEW a \in 1..Len(heap), NEW id, NEW x, WriteMember(a, id, x)
    PROVE  IInv' /\ (VersionsTell => VersionsTell') /\ MemberRead(heap'[a], id) = x
<1>1. PICK c : c = heap[a] /\ WellMade(c) /\ c.k = "struct"
  BY DEF IInv, HeapOK, WriteMember
<1>2. PICK o : o = MemberWrite(c, id, x)
  OBVIOUS
<1>3. Sound(c, o) /\ \A d : d.subs = o.subs /\ d.ids = o.ids => MemberRead(d, id) = x
  BY <1>1, <1>2, MembersSound
<1>4. Apply(a, o)
  BY <1>1, <1>2 DEF WriteMember
<1>5. heap'[a].subs = o.subs /\ heap'[a].ids = o.ids
  BY <1>1, <1>3, <1>4, SoundFits, ApplyStep
<1>6. IInv' /\ (VersionsTell => VersionsTell')
  BY <1>1, <1>3, <1>4, SoundStep
<1> QED
  BY <1>3, <1>5, <1>6

\* The plugin interface may add a key to a map without a new version.
LEMMA WriteStep ==
    ASSUME IInv, NEW a \in 1..Len(heap), NEW key, NEW x, WriteInto(a, key, x)
    PROVE  IInv' /\ ("map_put" \notin Quirks /\ VersionsTell => VersionsTell')
<1>1. PICK c : c = heap[a] /\ WellMade(c)
  BY DEF IInv, HeapOK
<1>2. /\ Sound(c, AtWrite(c, key, x))
      /\ c.k = "array" => Sound(c, PluginArrayPut(c, key.n, x))
      /\ c.k = "map" /\ MapContains(c, key) => Sound(c, PluginMapPut(c, key, x))
  BY <1>1, WritesSound
<1>3. CASE \E o : Apply(a, o) /\ Sound(c, o)
  BY <1>1, <1>3, SoundStep
<1>4. CASE c.k = "map" /\ "map_put" \in Quirks /\ Apply(a, PluginMapPut(c, key, x))
  <2>1. PICK o, p : o = MapAssign(c, key, x) /\ p = PluginMapPut(c, key, x)
    OBVIOUS
  <2>2. Sound(c, o)
    BY <1>1, <1>4, <2>1, MapsSound
  <2>3. p.subs = o.subs /\ p.ids = o.ids
    <3>1. p = [o EXCEPT !.bumped = FALSE]
      BY <2>1 DEF PluginMapPut
    <3>2. PICK v, s, t, b : o = [value |-> v, subs |-> s, ids |-> t, bumped |-> b]
      BY <2>2 DEF Sound, IsOutcome
    <3> QED
      BY <3>1, <3>2
  <2>4. Fits(c, p)
    BY <2>2, <2>3 DEF Sound, Fits
  <2> QED
    BY <1>1, <1>4, <2>1, <2>4, ApplyStep
<1> QED
  BY <1>1, <1>2, <1>3, <1>4 DEF WriteInto

LEMMA DeriveStep ==
    ASSUME IInv, NEW a \in 1..Len(heap), Derive(a) \/ CloneContainer(a)
    PROVE  IInv' /\ (VersionsTell => VersionsTell')
<1>0. PICK c : c = heap[a] /\ WellMade(c)
  BY DEF IInv, HeapOK
<1>1. ASSUME Derive(a)
      PROVE  IInv' /\ (VersionsTell => VersionsTell')
  <2>1. PICK d \in Derived(a) : New(d, 0)
    BY <1>1 DEF Derive
  <2>2. /\ WellMade(MapKeys(c)) /\ WellMade(MapValues(c)) /\ WellMade(Reversed(c))
        /\ WellMade(Container("array", c.subs))
    BY <1>0, DerivedWellMade
  <2>3. \A b, e : Slice(c, b, e) # OutOfRange => WellMade(Slice(c, b, e))
    BY <1>0, DerivedWellMade
  <2>4. ASSUME c.k = "map", NEW b \in DOMAIN heap
        PROVE  WellMade(Merged(c, heap[b]))
    <3>1. WellMade(heap[b])
      BY SequenceFacts DEF IInv, HeapOK
    <3> QED
      BY <1>0, <2>4, <3>1, MergedWellMade DEF WellMade
  <2>5. WellMade(d)
    <3>1. CASE c.k = "map"
      <4>1. d \in {MapKeys(c), MapValues(c)} \cup {Merged(c, heap[b]) : b \in {b \in DOMAIN heap : heap[b].k = "map"}}
        BY <1>0, <2>1, <3>1 DEF Derived
      <4> QED
        BY <2>2, <2>4, <3>1, <4>1
    <3>2. CASE c.k = "array"
      <4>1. d \in {Reversed(c)} \cup ({Prefix(c, 1), Suffix(c, 1)} \ {OutOfRange})
        BY <1>0, <2>1, <3>2 DEF Derived
      <4> QED
        BY <2>2, <2>3, <4>1 DEF Prefix, Suffix
    <3>3. CASE c.k \in {"tuple", "queue", "stack"}
      <4>1. d = Container("array", c.subs)
        BY <1>0, <2>1, <3>3 DEF Derived
      <4> QED
        BY <2>2, <4>1
    <3>4. CASE c.k \notin {"map", "array", "tuple", "queue", "stack"}
      <4>1. Derived(a) = {}
        BY <1>0, <3>4 DEF Derived
      <4> QED
        BY <2>1, <4>1
    <3> QED
      BY <3>1, <3>2, <3>3, <3>4
  <2>6. 0 \in 0..MaxVersion
    BY ProgramsAssumption
  <2> QED
    BY <2>1, <2>5, <2>6, NewStep
<1>2. ASSUME CloneContainer(a)
      PROVE  IInv' /\ (VersionsTell => VersionsTell')
  <2>1. New(c, version[a]) /\ version[a] \in 0..MaxVersion
    BY <1>0, <1>2 DEF CloneContainer, IInv, VersionsOK
  <2> QED
    BY <1>0, <2>1, NewStep
<1> QED
  BY <1>1, <1>2

NoQuirks == "map_put" \notin Quirks

LEMMA ContainerSteps ==
    ASSUME IInv, ContainerStep
    PROVE  IInv' /\ (NoQuirks /\ VersionsTell => VersionsTell')
<1>1. PICK a \in 1..Len(heap) :
          \/ Derive(a) \/ CloneContainer(a) \/ PopFrom(a)
          \/ \E x \in Elements :
                \/ PushTo(a, x) \/ Rearrange(a, x)
                \/ \E id \in MemberIds : WriteMember(a, id, x)
                \/ \E key \in Indices : InsertInto(a, key, x) \/ WriteInto(a, key, x)
          \/ \E key \in Indices : RemoveFrom(a, key)
  <2>1. DOMAIN heap = 1..Len(heap)
    BY SequenceFacts DEF IInv, HeapOK
  <2> QED
    BY <2>1 DEF ContainerStep
<1>2. CASE Derive(a) \/ CloneContainer(a)
  BY <1>2, DeriveStep
<1>3. CASE PopFrom(a) \/ \E x \in Elements : PushTo(a, x)
  BY <1>3, PushStep
<1>4. CASE \E x \in Elements : Rearrange(a, x)
  BY <1>4, RearrangeStep
<1>5. CASE \E x \in Elements, id \in MemberIds : WriteMember(a, id, x)
  BY <1>5, MemberStep
<1>6. CASE \/ \E x \in Elements, key \in Indices : InsertInto(a, key, x)
           \/ \E key \in Indices : RemoveFrom(a, key)
  BY <1>6, InsertStep
<1>7. CASE \E x \in Elements, key \in Indices : WriteInto(a, key, x)
  BY <1>7, WriteStep DEF NoQuirks
<1> QED
  BY <1>1, <1>2, <1>3, <1>4, <1>5, <1>6, <1>7

LEMMA NewFields ==
    ASSUME NEW form, NEW of
    PROVE  /\ Iterator(form, of) = [form |-> form, of |-> of, index |-> 0, version |-> 0,
                                     begin |-> 0, end |-> 0, step |-> 0]
           /\ IsIterator(Iterator(form, of)) /\ Iterator(form, of).form = form /\ Iterator(form, of).of = of
BY DEF Iterator, IsIterator

LEMMA IterStep ==
    ASSUME IInv, NEW a \in 1..Len(heap), Iter(a)
    PROVE  IInv' /\ (VersionsTell => VersionsTell')
<1>1. PICK form, it : form = FormOf(heap[a].k) /\ it = Over(form, a)
  OBVIOUS
<1>2. form \in {"contiguous", "string", "map", "coroutine"}
  BY <1>1 DEF Iter, FormOf
<1>3. PICK v : v = version[a] /\ v \in Nat
  BY DEF IInv, VersionsOK
<1>4. it = [form |-> form, of |-> <<a>>, index |-> 0, version |-> v, begin |-> 0, end |-> 0, step |-> 0]
  BY <1>1, <1>3 DEF Over, Iterator
<1>5. IsIterator(it) /\ it.form = form /\ it.of = <<a>> /\ it.version = v
  BY <1>4 DEF IsIterator
<1>6. IsSequence(<<a>>) /\ Len(<<a>>) = 1 /\ <<a>>[1] = a /\ DOMAIN <<a>> = {1}
  BY OneElement
<1>7. ~Wraps(it)
  BY <1>2, <1>5 DEF Wraps
<1>8. NewIterator(iters, it, 0, Append(history.pristine, TRUE))
  BY <1>1 DEF Iter
<1>9. Alike(iters, iters)
  BY AlikeItself DEF IInv, IteratorsOK
<1>10. it.version <= version[it.of[1]] /\ it.version \in Nat
  BY <1>3, <1>5, <1>6
<1>11. IsSequence(it.of) /\ Len(it.of) = 1 /\ \A j \in DOMAIN it.of : it.of[j] \in 1..Len(heap)
  BY <1>5, <1>6
<1> QED
  BY <1>5, <1>7, <1>8, <1>9, <1>10, <1>11, NewIteratorStep

LEMMA RangeStep ==
    ASSUME IInv, NEW begin, NEW end, NEW step, RangeIter(begin, end, step)
    PROVE  IInv' /\ (VersionsTell => VersionsTell')
<1>1. PICK it : it = RangeOver(begin, end, step)
  OBVIOUS
<1>2. it = [form |-> "range", of |-> <<>>, index |-> begin, version |-> 0,
            begin |-> begin, end |-> end, step |-> step]
  BY <1>1 DEF RangeOver, Iterator
<1>3. IsIterator(it) /\ it.form = "range" /\ it.of = <<>>
  BY <1>2 DEF IsIterator
<1>4. IsSequence(<<>>) /\ DOMAIN <<>> = {}
  <2>1. <<>> \in Seq({}) /\ DOMAIN <<>> = {}
    OBVIOUS
  <2> QED
    BY <2>1, SequenceOf
<1>5. NewIterator(iters, it, 0, Append(history.pristine, step # 0))
  BY <1>1 DEF RangeIter
<1>6. Alike(iters, iters)
  BY AlikeItself DEF IInv, IteratorsOK
<1>7. ~Wraps(it) /\ IsSequence(it.of) /\ DOMAIN it.of = {}
  BY <1>3, <1>4 DEF Wraps
<1> QED
  BY <1>3, <1>5, <1>6, <1>7, NewIteratorStep

LEMMA CombinedStep ==
    ASSUME IInv, NEW i \in 1..Len(iters), NEW j \in 1..Len(iters), Combined(<<i, j>>)
    PROVE  IInv' /\ (VersionsTell => VersionsTell')
<1>1. PICK of, it : of = <<i, j>> /\ it = Iterator("combined", of)
  OBVIOUS
<1>2. IsIterator(it) /\ it.form = "combined" /\ it.of = of
  BY <1>1, NewFields
<1>3. IsSequence(of) /\ \A k \in DOMAIN of : of[k] \in 1..Len(iters)
  <2>1. of \in Seq(1..Len(iters))
    BY <1>1
  <2> QED
    BY <2>1, SequenceOf
<1>4. NewIterator(iters, it, 0, Append(history.pristine, Untouched(of)))
  BY <1>1 DEF Combined
<1>5. Alike(iters, iters)
  BY AlikeItself DEF IInv, IteratorsOK
<1>6. Wraps(it) /\ it.form \notin {"reversed", "contiguous", "map"}
  BY <1>2 DEF Wraps
<1> QED
  BY <1>2, <1>3, <1>4, <1>5, <1>6, NewIteratorStep

LEMMA ReverseStep ==
    ASSUME IInv, NEW i \in 1..Len(iters), ReverseIter(i)
    PROVE  IInv' /\ (VersionsTell => VersionsTell')
<1>1. CASE Die
  BY <1>1, DieStep
<1>2. ASSUME NEW n, NEW o \in Moved(iters, i, n),
             NewIterator(o.iters, Iterator("reversed", <<i>>), 0, Append(Undisturbed(i), Untouched(<<i>>)))
      PROVE  IInv' /\ (VersionsTell => VersionsTell')
  <2>1. Alike(iters, o.iters)
    BY MovedAlike DEF IInv, IteratorsOK
  <2>2. PICK it : it = Iterator("reversed", <<i>>)
    OBVIOUS
  <2>3. IsIterator(it) /\ it.form = "reversed" /\ it.of = <<i>>
    BY <2>2, NewFields
  <2>4. IsSequence(<<i>>) /\ Len(<<i>>) = 1 /\ <<i>>[1] = i /\ DOMAIN <<i>> = {1}
    BY OneElement
  <2>5. Wraps(it) /\ it.form \notin {"contiguous", "map"}
    BY <2>3 DEF Wraps
  <2>6. IsSequence(it.of) /\ Len(it.of) = 1 /\ \A j \in DOMAIN it.of : it.of[j] \in 1..Len(iters)
    BY <2>3, <2>4
  <2>7. NewIterator(o.iters, it, 0, Append(Undisturbed(i), Untouched(<<i>>)))
    BY <1>2, <2>2
  <2> QED
    BY <2>1, <2>3, <2>5, <2>6, <2>7, NewIteratorStep
<1>3. ASSUME NEW n, NEW o \in Moved(iters, i, n), MovedTo(o.iters, history.taken, Undisturbed(i))
      PROVE  IInv' /\ (VersionsTell => VersionsTell')
  <2>1. Alike(iters, o.iters)
    BY MovedAlike DEF IInv, IteratorsOK
  <2> QED
    BY <1>3, <2>1, MovedToStep
<1>4. \/ Die
      \/ \E n : \E o \in Moved(iters, i, n) :
            \/ NewIterator(o.iters, Iterator("reversed", <<i>>), 0, Append(Undisturbed(i), Untouched(<<i>>)))
            \/ MovedTo(o.iters, history.taken, Undisturbed(i))
  BY DEF ReverseIter
<1> QED
  BY <1>1, <1>2, <1>3, <1>4

LEMMA CloneStep ==
    ASSUME IInv, NEW i \in 1..Len(iters), CloneIter(i)
    PROVE  IInv' /\ (VersionsTell => VersionsTell')
<1>1. PICK it : it = iters[i]
  OBVIOUS
<1>2. NewIterator(iters, it, history.taken[i], Append(history.pristine, history.pristine[i]))
  BY <1>1 DEF CloneIter
<1>3. Alike(iters, iters)
  BY AlikeItself DEF IInv, IteratorsOK
<1>4. /\ IsIterator(it) /\ IsSequence(it.of)
      /\ Wraps(it) => \A j \in DOMAIN it.of : it.of[j] \in 1..(i - 1)
      /\ it.form = "reversed" => Len(it.of) = 1
  BY <1>1 DEF IInv, IteratorsOK, Nested
<1>5. /\ ~Wraps(it) => \A j \in DOMAIN it.of : it.of[j] \in 1..Len(heap)
      /\ it.form \in {"contiguous", "map"} => Len(it.of) = 1
  BY <1>1 DEF IInv, IteratorsOK, Placed
<1>6. Wraps(it) => \A j \in DOMAIN it.of : it.of[j] \in 1..Len(iters)
  <2>1. Len(iters) \in Nat
    BY SequenceFacts DEF IInv, IteratorsOK, Nested
  <2> QED
    BY <1>4, <2>1
<1>7. VersionsTell => (it.form \in {"contiguous", "map"} => it.version \in Nat /\ it.version <= version[it.of[1]])
  BY <1>1 DEF VersionsTell, Tells
<1>8. it.form \in {"reversed", "contiguous", "map"} => Len(it.of) = 1
  BY <1>4, <1>5
<1> QED
  BY <1>2, <1>3, <1>4, <1>5, <1>6, <1>7, <1>8, NewIteratorStep

LEMMA NextStep ==
    ASSUME IInv, NEW i \in 1..Len(iters), NextOf(i) \/ \E n \in Amounts : MoveBy(i, n)
    PROVE  IInv' /\ (VersionsTell => VersionsTell')
<1>1. CASE Die
  BY <1>1, DieStep
<1>2. ASSUME NEW o, Alike(iters, o.iters), NEW taken, NEW pristine, MovedTo(o.iters, taken, pristine)
      PROVE  IInv' /\ (VersionsTell => VersionsTell')
  BY <1>2, MovedToStep
<1>3. CASE NextOf(i)
  <2>1. PICK o \in Next1(iters, i) :
            Die \/ \E taken, pristine : MovedTo(o.iters, taken, pristine)
    BY <1>3 DEF NextOf
  <2>2. Alike(iters, o.iters)
    BY NextAlike DEF IInv, IteratorsOK
  <2> QED
    BY <1>1, <1>2, <2>1, <2>2
<1>4. CASE \E n \in Amounts : MoveBy(i, n)
  <2>0. PICK n \in Amounts : MoveBy(i, n)
    BY <1>4
  <2>1. PICK o \in Moved(iters, i, n) :
            Die \/ \E taken, pristine : MovedTo(o.iters, taken, pristine)
    BY <2>0 DEF MoveBy
  <2>2. Alike(iters, o.iters)
    BY MovedAlike DEF IInv, IteratorsOK
  <2> QED
    BY <1>1, <1>2, <2>1, <2>2
<1> QED
  BY <1>3, <1>4

LEMMA IteratorSteps ==
    ASSUME IInv, IteratorStep
    PROVE  IInv' /\ (VersionsTell => VersionsTell')
<1>1. DOMAIN heap = 1..Len(heap) /\ DOMAIN iters = 1..Len(iters)
  BY SequenceFacts DEF IInv, HeapOK, IteratorsOK, Nested
<1>2. CASE \E a \in DOMAIN heap : Iter(a)
  BY <1>1, <1>2, IterStep
<1>3. CASE \E r \in Ranges : RangeIter(r[1], r[2], r[3])
  BY <1>3, RangeStep
<1>4. CASE \E i, j \in DOMAIN iters : Combined(<<i, j>>)
  BY <1>1, <1>4, CombinedStep
<1>5. CASE \E i \in DOMAIN iters : ReverseIter(i)
  BY <1>1, <1>5, ReverseStep
<1>6. CASE \E i \in DOMAIN iters : CloneIter(i)
  BY <1>1, <1>6, CloneStep
<1>7. CASE \E i \in DOMAIN iters : NextOf(i) \/ \E n \in Amounts : MoveBy(i, n)
  BY <1>1, <1>7, NextStep
<1> QED
  BY <1>2, <1>3, <1>4, <1>5, <1>6, <1>7 DEF IteratorStep

LEMMA CallbackSteps ==
    ASSUME IInv, LoopSteps
    PROVE  IInv' /\ (VersionsTell => VersionsTell')
<1>1. UNCHANGED <<heap, version>> /\ SameIterators
  BY DEF LoopSteps, StartLoop, LoopStep
<1>2. history'.edits = history.edits
  <2>1. history'.edits = RecordEdits
    BY <1>1, RecordedFacts DEF SameIterators
  <2> QED
    BY <1>1, <2>1, EditsStay DEF IInv
<1>3. ASSUME NEW a \in DOMAIN heap, NEW form \in {"range", "indexed"}, StartLoop(a, form)
      PROVE  LoopOK'
  <2>1. /\ heap[a].k = "array" /\ a \in 1..Len(heap)
        /\ loop' = [of |-> a, form |-> form, pos |-> FirstTaken(form) + 1,
                    end |-> Len(heap[a].subs), edits |-> history.edits[a]]
    BY <1>3, SequenceFacts DEF StartLoop, IInv, HeapOK
  <2>2. history.edits[a] \in Nat
    BY <2>1 DEF IInv, EditsOK
  <2>3. /\ loop'.of = a /\ loop'.form = form
        /\ loop'.end = Len(heap[a].subs) /\ loop'.edits = history.edits[a]
    BY <2>1
  <2> QED
    BY <1>1, <1>2, <2>1, <2>2, <2>3 DEF LoopOK
<1>4. ASSUME LoopStep
      PROVE  LoopOK'
  <2>1. CASE loop' = NoLoop
    BY <2>1 DEF LoopOK, NoLoop
  <2>2. CASE loop' = [loop EXCEPT !.pos = @ + 1]
    <3>1. /\ loop'.of = loop.of /\ loop'.form = loop.form
          /\ loop'.end = loop.end /\ loop'.edits = loop.edits
      BY <2>2
    <3>2. loop # NoLoop
      BY <1>4 DEF LoopStep
    <3> QED
      BY <1>1, <1>2, <3>1, <3>2 DEF LoopOK, IInv
  <2> QED
    BY <1>4, <2>1, <2>2 DEF LoopStep
<1>5. LoopOK'
  BY <1>3, <1>4 DEF LoopSteps
<1> QED
  BY <1>1, <1>5, QuietStep

LEMMA NextInv ==
    ASSUME IInv, Next
    PROVE  IInv' /\ (NoQuirks /\ VersionsTell => VersionsTell')
BY ContainerSteps, IteratorSteps, CallbackSteps DEF Next

LEMMA StutterInv ==
    ASSUME IInv, UNCHANGED vars
    PROVE  IInv' /\ (VersionsTell => VersionsTell')
BY DEF vars, code, IInv, HeapOK, VersionsOK, EditsOK, IteratorsOK, LoopOK, VersionsTell

LEMMA InitInv ==
    ASSUME Init
    PROVE  IInv /\ VersionsTell
<1>1. IsSequence(heap) /\ \A a \in DOMAIN heap : WellMade(heap[a])
  BY ProgramsAssumption DEF Init
<1>2. PICK m \in Nat : m = Len(heap) /\ DOMAIN heap = 1..m
  BY <1>1, SequenceFacts
<1>3. /\ version = [a \in 1..m |-> 0] /\ iters = <<>> /\ loop = NoLoop
      /\ history.edits = version /\ history.made = <<>>
  BY <1>2 DEF Init
<1>4. version = [a \in 1..m |-> version[a]] /\ \A a \in 1..m : version[a] = 0
  BY <1>3
<1>5. IsSequence(version) /\ Len(version) = m
  BY <1>4, FunctionIsSequence
<1>6. IsSequence(<<>>) /\ Len(<<>>) = 0
  <2>1. <<>> \in Seq({})
    OBVIOUS
  <2> QED
    BY <2>1, SequenceOf
<1>7. HeapOK
  BY <1>1, <1>2 DEF HeapOK
<1>8. VersionsOK
  BY <1>2, <1>4, <1>5, ProgramsAssumption DEF VersionsOK
<1>9. EditsOK
  BY <1>2, <1>3 DEF EditsOK
<1>10. IteratorsOK
  BY <1>3, <1>6 DEF IteratorsOK, Nested, Placed
<1>11. LoopOK
  BY <1>3 DEF LoopOK
<1>12. VersionsTell
  BY <1>3, <1>6 DEF VersionsTell, Tells
<1> QED
  BY <1>7, <1>8, <1>9, <1>10, <1>11, <1>12 DEF IInv

-----------------------------------------------------------------------------
(* Theorems *)

(* The invariant of containers, versions and iterators holds whatever a    *)
(* script does with them, also when the plugin interface adds keys.        *)
THEOREM IteratorsInvariant == Spec => []IInv
<1>1. Init => IInv
  BY InitInv
<1>2. IInv /\ [Next]_vars => IInv'
  BY NextInv, StutterInv
<1> QED
  BY <1>1, <1>2, PTL DEF Spec

(* Versions, addresses and the numbers of inner iterators are what they    *)
(* should be, and every struct has each of its members once (Struct.hxx).  *)
THEOREM IteratorsTyped == Spec => []TypeOK
<1>1. IInv => TypeOK
  <2> SUFFICES ASSUME IInv PROVE TypeOK
    OBVIOUS
  <2>1. /\ DOMAIN heap = 1..Len(heap) /\ DOMAIN iters = 1..Len(iters)
        /\ DOMAIN version = 1..Len(heap)
    BY SequenceFacts DEF IInv, HeapOK, VersionsOK, IteratorsOK, Nested
  <2>2. \A a \in DOMAIN heap : version[a] \in 0..MaxVersion /\ WellMade(heap[a])
    BY <2>1 DEF IInv, HeapOK, VersionsOK
  <2>3. ASSUME NEW i \in DOMAIN iters, NEW j \in DOMAIN iters[i].of
        PROVE  iters[i].of[j] \in IF Wraps(iters[i]) THEN 1..(i - 1) ELSE DOMAIN heap
    BY <2>1 DEF IInv, IteratorsOK, Nested, Placed
  <2> QED
    BY <2>1, <2>2, <2>3 DEF TypeOK
<1> QED
  BY <1>1, IteratorsInvariant, PTL

(* A member reads as what was written to it last, also null, whichever     *)
(* members the struct had (inst_struct.cxx).                               *)
THEOREM WrittenMembersRead == Spec => MembersRead
<1>1. IInv /\ [Next]_vars =>
        [\A a \in DOMAIN heap, id \in MemberIds, x \in Elements :
            WriteMember(a, id, x) => MemberRead(heap'[a], id) = x]_code
  <2> SUFFICES ASSUME IInv, NEW a \in DOMAIN heap, NEW id \in MemberIds, NEW x \in Elements,
                      WriteMember(a, id, x)
               PROVE  MemberRead(heap'[a], id) = x
    OBVIOUS
  <2>1. a \in 1..Len(heap)
    BY SequenceFacts DEF IInv, HeapOK
  <2> QED
    BY <2>1, MemberStep
<1> QED
  BY <1>1, IteratorsInvariant, PTL DEF Spec, MembersRead

(* Without that quirk of the plugin interface, an iterator never gives an  *)
(* element of a container whose shape changed since the iterator was made, *)
(* through any number of iterators around it: the version tells it         *)
(* (IterationInvalidation.md).                                             *)
THEOREM NoStaleElements == ASSUME NoQuirks PROVE Spec => []NoStaleElement
<1>1. Init => IInv /\ VersionsTell
  BY InitInv
<1>2. IInv /\ VersionsTell /\ [Next]_vars => (IInv /\ VersionsTell)'
  BY NextInv, StutterInv
<1>3. IInv /\ VersionsTell => NoStaleElement
  <2> SUFFICES ASSUME IInv, VersionsTell, NEW i \in DOMAIN iters, IsElement(Get(iters, i)),
                      NEW j \in Below(iters, i), iters[j].form \in {"contiguous", "map"}
               PROVE  history.edits[iters[j].of[1]] = history.made[j][iters[j].of[1]]
    BY DEF NoStaleElement
  <2>1. Nested(iters) /\ i \in 1..Len(iters)
    BY SequenceFacts DEF IInv, IteratorsOK, Nested
  <2>2. j \in 1..Len(iters) /\ ~Stale(iters[j])
    BY <2>1, FreshBelow
  <2>3. iters[j].version = version[iters[j].of[1]]
    BY <2>2 DEF Stale
  <2> QED
    BY <2>2, <2>3 DEF VersionsTell, Tells
<1> QED
  BY <1>1, <1>2, <1>3, PTL DEF Spec

-----------------------------------------------------------------------------
(* The order of maps *)

MapsInvariant == \A a \in 1..Len(heap) : heap[a].k = "map" => InOrder(Keys, heap[a].subs)

LEMMA ApplyMaps ==
    ASSUME IInv, MapsInvariant, NEW a \in 1..Len(heap), NEW o, Apply(a, o),
           heap[a].k = "map" => InOrder(Keys, o.subs)
    PROVE  MapsInvariant'
<1>1. PICK m \in Nat : m = Len(heap) /\ DOMAIN heap = 1..m /\ IsSequence(heap)
  BY SequenceFacts DEF HeapOK, IInv
<1>2. PICK d : d = Rewritten(heap[a], o)
  OBVIOUS
<1>3. heap' = [heap EXCEPT ![a] = d]
  BY <1>1, <1>2 DEF Apply, Rewritten
<1>4. d.k = heap[a].k /\ d.subs = o.subs
  <2>1. PICK c : c = heap[a] /\ WellMade(c)
    BY DEF IInv, HeapOK
  <2>2. d = Rewritten(c, o)
    BY <1>2, <2>1
  <2>3. d.k = c.k /\ d.subs = o.subs
    BY <2>1, <2>2, RewrittenFields
  <2> QED
    BY <2>1, <2>3
<1>5. Len(heap') = m
  BY <1>1, <1>3, OverwrittenSequence
<1>6. \A b \in 1..m : heap'[b] = IF b = a THEN d ELSE heap[b]
  BY <1>1, <1>3
<1> QED
  BY <1>1, <1>4, <1>5, <1>6 DEF MapsInvariant

LEMMA NewMaps ==
    ASSUME IInv, MapsInvariant, NEW c, NEW v, New(c, v), c.k = "map" => InOrder(Keys, c.subs)
    PROVE  MapsInvariant'
<1>1. PICK m \in Nat : m = Len(heap) /\ IsSequence(heap)
  BY SequenceFacts DEF HeapOK, IInv
<1>2. Len(heap') = m + 1 /\ (\A a \in 1..m : heap'[a] = heap[a]) /\ heap'[m + 1] = c
  BY <1>1, AppendSequence DEF New
<1>3. ASSUME NEW a \in 1..(m + 1), heap'[a].k = "map"
      PROVE  InOrder(Keys, heap'[a].subs)
  <2>1. CASE a = m + 1
    BY <1>2, <1>3, <2>1
  <2>2. CASE a # m + 1
    <3>1. a \in 1..m
      BY <2>2
    <3> QED
      BY <1>1, <1>2, <1>3, <3>1 DEF MapsInvariant
  <2> QED
    BY <2>1, <2>2
<1> QED
  BY <1>2, <1>3 DEF MapsInvariant

\* What the functions make of a map.
LEMMA OutcomesInOrder ==
    ASSUME NEW c, WellMade(c), c.k = "map", InOrder(Keys, c.subs), Transitive(Keys), NEW key, NEW x
    PROVE  /\ \A o \in {Push(c, x), InsertFront(c, x), InsertBack(c, x), Pop(c), RemoveFront(c), RemoveBack(c)} :
                 InOrder(Keys, o.subs)
           /\ key \in Keys =>
                 \A o \in {Insert(c, key, x), RemoveKey(c, key), MapMemberErase(c, key),
                           AtWrite(c, key, x), PluginMapPut(c, key, x)} : InOrder(Keys, o.subs)
<1>1. \A v : Answer(c, v).subs = c.subs
  BY AnswerFields
<1>2. ASSUME NEW o \in {Push(c, x), InsertFront(c, x), InsertBack(c, x), Pop(c), RemoveFront(c), RemoveBack(c)}
      PROVE  InOrder(Keys, o.subs)
  <2>1. o = Answer(c, InvalidArgument)
    BY <1>2 DEF Push, InsertFront, InsertBack, Pop, RemoveFront, RemoveBack
  <2> QED
    BY <1>1, <2>1
<1>3. ASSUME key \in Keys
      PROVE  \A o \in {Insert(c, key, x), RemoveKey(c, key), MapMemberErase(c, key),
                       AtWrite(c, key, x), PluginMapPut(c, key, x)} : InOrder(Keys, o.subs)
  <2>1. PICK a, e : a = MapAssign(c, key, x) /\ e = MapErase(c, key)
    OBVIOUS
  <2>2. InOrder(Keys, a.subs) /\ InOrder(Keys, e.subs)
    BY <1>3, <2>1, MapsInOrder
  <2>3. IsOutcome(a) /\ IsOutcome(e)
    BY <2>1, MapsSound DEF Sound
  <2>4. MapMemberErase(c, key).subs = e.subs
    <3>1. PICK v, w : v = MapAt(c, key) /\ w = [e EXCEPT !.value = v]
      OBVIOUS
    <3>2. PICK y, s, t, b : e = [value |-> y, subs |-> s, ids |-> t, bumped |-> b]
      BY <2>3 DEF IsOutcome
    <3>3. w.subs = e.subs
      BY <3>1, <3>2
    <3> QED
      BY <2>1, <3>1, <3>3 DEF MapMemberErase
  <2>5. PluginMapPut(c, key, x).subs = a.subs
    <3>1. PICK w : w = [a EXCEPT !.bumped = FALSE]
      OBVIOUS
    <3>2. PICK y, s, t, b : a = [value |-> y, subs |-> s, ids |-> t, bumped |-> b]
      BY <2>3 DEF IsOutcome
    <3>3. w.subs = a.subs
      BY <3>1, <3>2
    <3> QED
      BY <2>1, <3>1, <3>3 DEF PluginMapPut
  <2>6. Insert(c, key, x) = a /\ RemoveKey(c, key) = e /\ AtWrite(c, key, x) = a
    BY <2>1 DEF Insert, RemoveKey, AtWrite, IsContiguous
  <2> QED
    BY <2>2, <2>4, <2>5, <2>6
<1> QED
  BY <1>2, <1>3

LEMMA DeriveMaps ==
    ASSUME IInv, Transitive(Keys), MapsInvariant, NEW a \in 1..Len(heap), Derive(a) \/ CloneContainer(a)
    PROVE  MapsInvariant'
<1>0. PICK c : c = heap[a] /\ WellMade(c) /\ (c.k = "map" => InOrder(Keys, c.subs))
  BY DEF IInv, HeapOK, MapsInvariant
<1>1. CASE CloneContainer(a)
  <2>1. New(c, version[a])
    BY <1>0, <1>1 DEF CloneContainer
  <2> QED
    BY <1>0, <2>1, NewMaps
<1>2. CASE Derive(a)
  <2>1. PICK d \in Derived(a) : New(d, 0)
    BY <1>2 DEF Derive
  <2>2. \A s : Container("array", s).k = "array"
    BY DEF Container, Object
  <2>3. d.k = "map" => InOrder(Keys, d.subs)
    <3>1. CASE c.k = "map"
      <4>1. d \in {MapKeys(c), MapValues(c)} \cup {Merged(c, heap[b]) : b \in {b \in DOMAIN heap : heap[b].k = "map"}}
        BY <1>0, <2>1, <3>1 DEF Derived
      <4>2. CASE d \in {MapKeys(c), MapValues(c)}
        BY <2>2, <4>2 DEF MapKeys, MapValues
      <4>3. CASE \E b \in DOMAIN heap : heap[b].k = "map" /\ d = Merged(c, heap[b])
        <5>1. PICK b \in DOMAIN heap : heap[b].k = "map" /\ d = Merged(c, heap[b])
          BY <4>3
        <5>2. InOrder(Keys, heap[b].subs)
          BY <5>1, SequenceFacts DEF IInv, HeapOK, MapsInvariant
        <5> QED
          BY <1>0, <3>1, <5>1, <5>2, MergedInOrder
      <4> QED
        BY <4>1, <4>2, <4>3
    <3>2. CASE c.k = "array"
      <4>1. d \in {Reversed(c)} \cup ({Prefix(c, 1), Suffix(c, 1)} \ {OutOfRange})
        BY <1>0, <2>1, <3>2 DEF Derived
      <4>2. \A b, e : Slice(c, b, e) # OutOfRange => Slice(c, b, e).k = "array"
        BY <2>2 DEF Slice
      <4> QED
        BY <2>2, <4>1, <4>2 DEF Reversed, Prefix, Suffix
    <3>3. CASE c.k \in {"tuple", "queue", "stack"}
      <4>1. d = Container("array", c.subs)
        BY <1>0, <2>1, <3>3 DEF Derived
      <4> QED
        BY <2>2, <4>1
    <3>4. CASE c.k \notin {"map", "array", "tuple", "queue", "stack"}
      <4>1. Derived(a) = {}
        BY <1>0, <3>4 DEF Derived
      <4> QED
        BY <2>1, <4>1
    <3> QED
      BY <3>1, <3>2, <3>3, <3>4
  <2> QED
    BY <2>1, <2>3, NewMaps
<1> QED
  BY <1>1, <1>2

LEMMA ContainerMaps ==
    ASSUME IInv, Transitive(Keys), MapsInvariant, ContainerStep
    PROVE  MapsInvariant'
<1>1. PICK a \in 1..Len(heap) :
          \/ Derive(a) \/ CloneContainer(a) \/ PopFrom(a)
          \/ \E x \in Elements :
                \/ PushTo(a, x) \/ Rearrange(a, x)
                \/ \E id \in MemberIds : WriteMember(a, id, x)
                \/ \E key \in Indices : InsertInto(a, key, x) \/ WriteInto(a, key, x)
          \/ \E key \in Indices : RemoveFrom(a, key)
  <2>1. DOMAIN heap = 1..Len(heap)
    BY SequenceFacts DEF IInv, HeapOK
  <2> QED
    BY <2>1 DEF ContainerStep
<1>2. PICK c : c = heap[a] /\ WellMade(c) /\ (c.k = "map" => InOrder(Keys, c.subs))
  BY DEF IInv, HeapOK, MapsInvariant
<1>3. ASSUME NEW o, Apply(a, o), c.k # "map"
      PROVE  MapsInvariant'
  BY <1>2, <1>3, ApplyMaps
<1>4. ASSUME NEW o, Apply(a, o), NEW key \in Keys, NEW x, c.k = "map",
             \/ o \in {Push(c, x), InsertFront(c, x), InsertBack(c, x), Pop(c), RemoveFront(c), RemoveBack(c)}
             \/ o \in {Insert(c, key, x), RemoveKey(c, key), MapMemberErase(c, key),
                        AtWrite(c, key, x), PluginMapPut(c, key, x)}
      PROVE  MapsInvariant'
  <2>1. InOrder(Keys, o.subs)
    BY <1>2, <1>4, OutcomesInOrder
  <2> QED
    BY <1>2, <1>4, <2>1, ApplyMaps
<1>5. CASE Derive(a) \/ CloneContainer(a)
  BY <1>5, DeriveMaps
<1>6. CASE PopFrom(a) \/ \E x \in Elements : PushTo(a, x)
  <2>1. PICK x, o : Apply(a, o) /\ o \in {Push(c, x), InsertFront(c, x), InsertBack(c, x), Pop(c), RemoveFront(c), RemoveBack(c)}
    BY <1>2, <1>6 DEF PopFrom, PushTo
  <2>2. CASE c.k = "map"
    <3>1. InOrder(Keys, o.subs)
      BY <1>2, <2>1, <2>2, OutcomesInOrder
    <3> QED
      BY <1>2, <2>1, <3>1, ApplyMaps
  <2> QED
    BY <1>3, <2>1, <2>2
<1>7. CASE \E x \in Elements : Rearrange(a, x)
  <2>1. c.k # "map" /\ \E o : Apply(a, o)
    BY <1>2, <1>7 DEF Rearrange
  <2> QED
    BY <1>3, <2>1
<1>8. CASE \E x \in Elements, id \in MemberIds : WriteMember(a, id, x)
  <2>1. c.k # "map" /\ \E o : Apply(a, o)
    BY <1>2, <1>8 DEF WriteMember
  <2> QED
    BY <1>3, <2>1
<1>9. CASE \/ \E x \in Elements, key \in Indices : InsertInto(a, key, x) \/ WriteInto(a, key, x)
           \/ \E key \in Indices : RemoveFrom(a, key)
  <2>0. PICK x : \E key \in Indices : InsertInto(a, key, x) \/ WriteInto(a, key, x) \/ RemoveFrom(a, key)
    BY <1>9
  <2>1. PICK key \in Indices : InsertInto(a, key, x) \/ WriteInto(a, key, x) \/ RemoveFrom(a, key)
    BY <2>0
  <2>2. key \in Keys
    BY DEF Keys
  <2>3. CASE c.k = "map"
    <3>1. PICK o : Apply(a, o) /\ o \in {Insert(c, key, x), RemoveKey(c, key), MapMemberErase(c, key),
                                        AtWrite(c, key, x), PluginMapPut(c, key, x)}
      BY <1>2, <2>1, <2>3 DEF InsertInto, WriteInto, RemoveFrom
    <3> QED
      BY <1>4, <2>2, <2>3, <3>1
  <2>4. CASE c.k # "map"
    <3>1. \E o : Apply(a, o)
      BY <2>1 DEF InsertInto, WriteInto, RemoveFrom
    <3> QED
      BY <1>3, <2>4, <3>1
  <2> QED
    BY <2>3, <2>4
<1> QED
  BY <1>1, <1>5, <1>6, <1>7, <1>8, <1>9

LEMMA OtherSteps ==
    ASSUME IteratorStep \/ LoopSteps
    PROVE  heap' = heap
BY DEF IteratorStep, Iter, RangeIter, Combined, ReverseIter, CloneIter, NextOf, MoveBy,
       NewIterator, MovedTo, Die, LoopSteps, StartLoop, LoopStep

LEMMA MapsInit ==
    ASSUME ProgramsInOrder
    PROVE  Init => IInv /\ MapsInvariant
<1> SUFFICES ASSUME Init PROVE IInv /\ MapsInvariant
  OBVIOUS
<1>1. IInv
  BY InitInv
<1>2. MapsInvariant
  BY <1>1, SequenceFacts DEF Init, MapsInvariant, ProgramsInOrder, IInv, HeapOK
<1> QED
  BY <1>1, <1>2

LEMMA MapsNext ==
    ASSUME Transitive(Keys)
    PROVE  IInv /\ MapsInvariant /\ [Next]_vars => (IInv /\ MapsInvariant)'
<1> SUFFICES ASSUME IInv, MapsInvariant, [Next]_vars PROVE IInv' /\ MapsInvariant'
  OBVIOUS
<1>1. IInv'
  BY NextInv, StutterInv
<1>2. CASE heap' = heap
  BY <1>1, <1>2 DEF MapsInvariant
<1> QED
  BY <1>1, <1>2, ContainerMaps, OtherSteps DEF Next, vars, code

(* The keys of every map are in strict order and each there once, whatever *)
(* is inserted, assigned, erased and merged through any of the entry       *)
(* points, if the order of values is transitive on the keys (Map.hxx).     *)
THEOREM MapsStayOrdered ==
    ASSUME Transitive(Keys), ProgramsInOrder PROVE Spec => []MapsOrdered
<1>1. Init => IInv /\ MapsInvariant
  BY MapsInit
<1>2. IInv /\ MapsInvariant /\ [Next]_vars => (IInv /\ MapsInvariant)'
  BY MapsNext
<1>3. IInv /\ MapsInvariant => MapsOrdered
  <2> SUFFICES ASSUME IInv, MapsInvariant, NEW a \in DOMAIN heap, heap[a].k = "map",
                      NEW keys, keys = KeysOf(heap[a]), NEW i \in DOMAIN keys, NEW j \in DOMAIN keys, i < j
               PROVE  StrictOrder(keys[i], keys[j]) = -1
    BY DEF MapsOrdered
  <2>1. InOrder(Keys, heap[a].subs)
    BY SequenceFacts DEF IInv, HeapOK, MapsInvariant
  <2>2. DOMAIN heap[a].subs = 1..Len(heap[a].subs)
    BY <2>1, SequenceFacts DEF InOrder
  <2>3. /\ i \in 1..Len(heap[a].subs) /\ j \in 1..Len(heap[a].subs)
        /\ keys[i] = heap[a].subs[i].subs[1] /\ keys[j] = heap[a].subs[j].subs[1]
    BY <2>2 DEF KeysOf
  <2> QED
    BY <2>1, <2>3 DEF InOrder
<1> QED
  BY <1>1, <1>2, <1>3, PTL DEF Spec


-----------------------------------------------------------------------------
(* The entry points *)

LEMMA ScalarFields ==
    ASSUME NEW k, NEW n
    PROVE  Scalar(k, n).k = k /\ Scalar(k, n).n = n
BY DEF Scalar, Object

\* An index that is a number is the offset of an element, or of none.
LEMMA OffsetIndex ==
    ASSUME NEW key, key.k = "int", key.n \in Int, key.n >= 0, NEW size \in Nat
    PROVE  /\ ToIndex(key, size) = GuardIndex(key.n, size)
           /\ GuardIndex(key.n, size) = IF key.n < size THEN key.n + 1 ELSE 0
BY DEF ToIndex, GuardIndex

LEMMA LastIndex ==
    ASSUME NEW size \in Nat
    PROVE  ToIndex(Scalar("int", -1), size) = size
<1>1. PICK key : key = Scalar("int", -1) /\ key.k = "int" /\ key.n = -1
  BY ScalarFields
<1>2. ToIndex(key, size) = size
  BY <1>1 DEF ToIndex
<1> QED
  BY <1>1, <1>2

LEMMA OutcomeFields ==
    ASSUME NEW c, NEW v, NEW s
    PROVE  /\ Answer(c, v).value = v /\ Answer(c, v).subs = c.subs
           /\ Overwrite(c, v, s).value = v /\ Overwrite(c, v, s).subs = s
           /\ Change(c, v, s).value = v /\ Change(c, v, s).subs = s
<1>1. Answer(c, v).value = v /\ Answer(c, v).subs = c.subs
  BY DEF Answer
<1>2. PICK o, p : o = Overwrite(c, v, s) /\ p = Change(c, v, s)
  OBVIOUS
<1>3. o = [value |-> v, subs |-> s, ids |-> c.ids, bumped |-> FALSE]
  BY <1>2 DEF Overwrite, Answer
<1>4. p = [value |-> v, subs |-> s, ids |-> c.ids, bumped |-> TRUE]
  BY <1>2 DEF Change, Overwrite, Answer
<1>5. o.value = v /\ o.subs = s
  BY <1>3
<1>6. p.value = v /\ p.subs = s
  BY <1>4
<1> QED
  BY <1>1, <1>2, <1>5, <1>6

LEMMA ReturningFields ==
    ASSUME NEW v, NEW c, NEW w, NEW s
    PROVE  Returning(v, Change(c, w, s)).subs = s
<1>1. PICK o : o = Change(c, w, s)
  OBVIOUS
<1>2. o = [value |-> w, subs |-> s, ids |-> c.ids, bumped |-> TRUE]
  BY <1>1 DEF Change, Overwrite, Answer
<1>3. PICK p : p = [o EXCEPT !.value = v]
  OBVIOUS
<1>4. p.subs = s /\ o.subs = s
  BY <1>2, <1>3
<1>5. Returning(v, o) = IF IsFailure(o.value) THEN o ELSE p
  BY <1>3 DEF Returning
<1> QED
  BY <1>1, <1>4, <1>5

LEMMA ArrayEnds ==
    ASSUME NEW c, WellMade(c), c.k = "array",
           Integer(0) = Scalar("int", 0), Integer(-1) = Scalar("int", -1)
    PROVE  ArrayEndsAgree(c)
<1>1. PICK s, n : s = c.subs /\ n = Len(s) /\ n \in Nat /\ IsSequence(s) /\ (s = <<>> <=> n = 0)
  <2>1. IsSequence(c.subs)
    BY DEF WellMade
  <2>2. Len(c.subs) \in Nat /\ c.subs \in Seq(ToSet(c.subs))
    BY <2>1, SequenceFacts
  <2>3. c.subs = <<>> <=> Len(c.subs) = 0
    BY <2>2
  <2> QED
    BY <2>1, <2>2, <2>3
<1>2. PICK zero : zero = Scalar("int", 0) /\ zero.k = "int" /\ zero.n = 0
  BY ScalarFields
<1>3. ToIndex(zero, n) = IF 0 < n THEN 1 ELSE 0
  BY <1>1, <1>2, OffsetIndex
<1>4. PICK minus : minus = Scalar("int", -1) /\ ToIndex(minus, n) = n
  BY <1>1, LastIndex
<1>5. At(c, zero) = IF n = 0 THEN OutOfRange ELSE s[1]
  <2>1. At(c, zero) = IF ToIndex(zero, n) = 0 THEN OutOfRange ELSE s[ToIndex(zero, n)]
    BY <1>1 DEF At
  <2> QED
    BY <1>1, <1>3, <2>1
<1>6. At(c, minus) = IF n = 0 THEN OutOfRange ELSE s[n]
  <2>1. At(c, minus) = IF ToIndex(minus, n) = 0 THEN OutOfRange ELSE s[ToIndex(minus, n)]
    BY <1>1 DEF At
  <2> QED
    BY <1>4, <2>1
<1>7. Head(s) = s[1] /\ Last(s) = s[n]
  BY <1>1 DEF Last
<1>8. \A v : Answer(c, v).value = v /\ Answer(c, v).subs = s
  BY <1>1, OutcomeFields
<1>9. CASE s = <<>>
  <2>1. n = 0
    BY <1>1, <1>9
  <2>2. /\ FrontOf(c) = Answer(c, OutOfRange) /\ BackOf(c) = Answer(c, OutOfRange)
        /\ Pop(c) = Answer(c, OutOfRange) /\ Peek(c) = Answer(c, OutOfRange)
        /\ MemberFront(c) = Answer(c, OutOfRange) /\ MemberBack(c) = Answer(c, OutOfRange)
        /\ RemoveBack(c) = Answer(c, Raise("empty_collection"))
    BY <1>1, <1>9 DEF FrontOf, BackOf, Pop, Peek, MemberFront, MemberBack, RemoveBack, OrEmpty
  <2>3. Same(Pop(c), [Peek(c) EXCEPT !.subs = RemoveBack(c).subs])
    <3>1. PICK p : p = [Answer(c, OutOfRange) EXCEPT !.subs = s]
      OBVIOUS
    <3>2. p.value = OutOfRange /\ p.subs = s
      BY <3>1 DEF Answer
    <3> QED
      BY <1>8, <2>2, <3>1, <3>2 DEF Same
  <2> QED
    BY <1>2, <1>4, <1>5, <1>6, <1>8, <2>1, <2>2, <2>3 DEF ArrayEndsAgree, Same
<1>10. CASE s # <<>>
  <2>1. n # 0
    BY <1>1, <1>10
  <2>2. /\ FrontOf(c) = Answer(c, Head(s)) /\ BackOf(c) = Answer(c, Last(s))
        /\ Pop(c) = Change(c, Last(s), Front(s)) /\ Peek(c) = Answer(c, Last(s))
        /\ MemberFront(c) = Answer(c, Head(s)) /\ MemberBack(c) = Answer(c, Last(s))
        /\ RemoveBack(c) = Returning(Null, Change(c, Last(s), Front(s)))
    BY <1>1, <1>10 DEF FrontOf, BackOf, Pop, Peek, MemberFront, MemberBack, RemoveBack, OrEmpty, UnsafePopBack
  <2>3. Same(Pop(c), [Peek(c) EXCEPT !.subs = RemoveBack(c).subs])
    <3>1. PICK p : p = [Answer(c, Last(s)) EXCEPT !.subs = Front(s)]
      OBVIOUS
    <3>2. p.value = Last(s) /\ p.subs = Front(s)
      BY <3>1 DEF Answer
    <3>3. RemoveBack(c).subs = Front(s)
      BY <2>2, ReturningFields
    <3>4. Change(c, Last(s), Front(s)).value = Last(s) /\ Change(c, Last(s), Front(s)).subs = Front(s)
      BY OutcomeFields
    <3> QED
      BY <2>2, <3>1, <3>2, <3>3, <3>4 DEF Same
  <2> QED
    BY <1>2, <1>4, <1>5, <1>6, <1>7, <1>8, <2>1, <2>2, <2>3 DEF ArrayEndsAgree, Same
<1> QED
  BY <1>9, <1>10

LEMMA ArrayOffsets ==
    ASSUME NEW c, WellMade(c), c.k = "array"
    PROVE  ArrayOffsetsAgree(c)
<1>1. PICK s, n : s = c.subs /\ n = Len(s) /\ n \in Nat
  BY SequenceFacts DEF WellMade
<1>2. SUFFICES ASSUME NEW k \in Offsets
               PROVE  /\ MemberAt(c, k.n) = At(c, k)
                      /\ MemberErase(c, k.n).subs = RemoveKey(c, k).subs
                      /\ MemberErase(c, k.n).value = At(c, k)
                      /\ \A x \in Elements : Same(AtWrite(c, k, x), PluginArrayPut(c, k.n, x))
  BY DEF ArrayOffsetsAgree
<1>3. PICK i : i = GuardIndex(k.n, n) /\ ToIndex(k, n) = i
  BY <1>1, OffsetIndex, ProgramsAssumption DEF Offsets
<1>4. At(c, k) = IF i = 0 THEN OutOfRange ELSE s[i]
  BY <1>1, <1>3 DEF At
<1>5. MemberAt(c, k.n) = IF i = 0 THEN OutOfRange ELSE s[i]
  BY <1>1, <1>3 DEF MemberAt, IsContiguous
<1>6. MemberErase(c, k.n) = IF i = 0 THEN Answer(c, OutOfRange) ELSE Change(c, s[i], RemoveAt(s, i))
  BY <1>1, <1>3 DEF MemberErase, UnsafeErase
<1>7. RemoveKey(c, k) = IF i = 0 THEN Answer(c, OutOfRange)
                        ELSE Returning(Null, Change(c, s[i], RemoveAt(s, i)))
  BY <1>1, <1>3 DEF RemoveKey, UnsafeErase
<1>8. /\ MemberErase(c, k.n).subs = RemoveKey(c, k).subs
      /\ MemberErase(c, k.n).value = At(c, k)
  BY <1>4, <1>6, <1>7, OutcomeFields, ReturningFields
<1>9. ASSUME NEW x \in Elements
      PROVE  Same(AtWrite(c, k, x), PluginArrayPut(c, k.n, x))
  <2>1. AtWrite(c, k, x) = PluginArrayPut(c, k.n, x)
    BY <1>1, <1>3 DEF AtWrite, PluginArrayPut, IsContiguous
  <2> QED
    BY <2>1 DEF Same
<1> QED
  BY <1>4, <1>5, <1>8, <1>9

LEMMA TupleOffsets ==
    ASSUME NEW c, WellMade(c), c.k = "tuple"
    PROVE  TupleOffsetsAgree(c)
<1>1. PICK s, n : s = c.subs /\ n = Len(s) /\ n \in Nat
  BY SequenceFacts DEF WellMade
<1>2. SUFFICES ASSUME NEW k \in Offsets
               PROVE  MemberAt(c, k.n) = At(c, k) /\ PluginTupleAt(c, k.n) = At(c, k)
  BY DEF TupleOffsetsAgree
<1>3. k.n \in Int /\ k.n >= 0 /\ k.k = "int"
  BY ProgramsAssumption DEF Offsets
<1>4. PICK i : i = GuardIndex(k.n, n) /\ ToIndex(k, n) = i /\ i = IF k.n < n THEN k.n + 1 ELSE 0
  BY <1>1, <1>3, OffsetIndex
<1>5. At(c, k) = IF i = 0 THEN OutOfRange ELSE s[i]
  BY <1>1, <1>4 DEF At
<1>6. MemberAt(c, k.n) = IF i = 0 THEN OutOfRange ELSE s[i]
  BY <1>1, <1>4 DEF MemberAt, IsContiguous
<1>7. PluginTupleAt(c, k.n) = IF k.n >= n THEN OutOfRange ELSE s[k.n + 1]
  BY <1>1, <1>3 DEF PluginTupleAt
<1> QED
  BY <1>1, <1>3, <1>4, <1>5, <1>6, <1>7

LEMMA ArrayAdditions ==
    ASSUME NEW c, WellMade(c), c.k = "array",
           Integer(-1) = Scalar("int", -1), Integer(Len(c.subs)) = Scalar("int", Len(c.subs))
    PROVE  ArrayAdditionsAgree(c)
<1>1. PICK s, n : s = c.subs /\ n = Len(s) /\ n \in Nat /\ IsSequence(s)
  BY SequenceFacts DEF WellMade
<1>2. SUFFICES ASSUME NEW x \in Elements
               PROVE  /\ Same(Push(c, x), Insert(c, Integer(n), x))
                      /\ Same(Push(c, x), Insert(c, Integer(-1), x))
                      /\ Same(InsertFront(c, x), MemberInsert(c, 0, x))
  BY <1>1 DEF ArrayAdditionsAgree
<1>3. PICK key : key = Scalar("int", n) /\ key.k = "int" /\ key.n = n
  BY ScalarFields
<1>4. ToIndex(key, n + 1) = n + 1
  BY <1>1, <1>3 DEF ToIndex
<1>5. PICK minus : minus = Scalar("int", -1) /\ ToIndex(minus, n + 1) = n + 1
  BY <1>1, LastIndex
<1>6. GuardIndex(0, n + 1) = 1
  BY <1>1 DEF GuardIndex
<1>7. InsertAt(s, n + 1, x) = Append(s, x)
  <2>1. PICK t : t = InsertAt(s, n + 1, x)
    OBVIOUS
  <2>2. n + 1 \in 1..(n + 1)
    BY <1>1
  <2>3. /\ IsSequence(t) /\ Len(t) = n + 1
        /\ \A j \in 1..(n + 1) : t[j] = IF j < n + 1 THEN s[j] ELSE IF j = n + 1 THEN x ELSE s[j - 1]
    BY <1>1, <2>1, <2>2, InsertSequence
  <2>4. DOMAIN t = 1..(n + 1) /\ t \in Seq(ToSet(t))
    BY <2>3, SequenceFacts
  <2>5. PICK u : u = Append(s, x)
    OBVIOUS
  <2>6. /\ IsSequence(u) /\ DOMAIN u = 1..(n + 1) /\ u[n + 1] = x
        /\ \A i \in 1..n : u[i] = s[i]
    BY <1>1, <2>5, AppendSequence
  <2>7. u \in Seq(ToSet(u))
    BY <2>6, SequenceFacts
  <2>8. \A i \in 1..(n + 1) : t[i] = u[i]
    BY <1>1, <2>3, <2>6
  <2>9. t = [i \in 1..(n + 1) |-> t[i]] /\ u = [i \in 1..(n + 1) |-> u[i]]
    BY <2>4, <2>6, <2>7
  <2> QED
    BY <2>1, <2>5, <2>8, <2>9
<1>8. Push(c, x) = Change(c, Null, Append(s, x))
  BY <1>1 DEF Push, PushBack
<1>9. \A k, i : i # 0 /\ ToIndex(k, n + 1) = i => Insert(c, k, x) = Change(c, Null, InsertAt(s, i, x))
  BY <1>1 DEF Insert, UnsafeInsert
<1>10. Insert(c, key, x) = Push(c, x) /\ Insert(c, minus, x) = Push(c, x)
  <2>1. n + 1 # 0
    BY <1>1
  <2> QED
    BY <1>4, <1>5, <1>7, <1>8, <1>9, <2>1
<1>11. MemberInsert(c, 0, x) = InsertFront(c, x)
  BY <1>1, <1>6 DEF MemberInsert, InsertFront
<1> QED
  BY <1>1, <1>3, <1>5, <1>10, <1>11 DEF Same

LEMMA ArraySearches ==
    ASSUME NEW c, WellMade(c), c.k = "array",
           \A i \in 0..Len(c.subs) : Integer(i) = Scalar("int", i)
    PROVE  ArraySearchesAgree(c)
<1>1. PICK s, n : s = c.subs /\ n = Len(s) /\ n \in Nat /\ DOMAIN s = 1..n
  BY SequenceFacts DEF WellMade
<1>2. SUFFICES ASSUME NEW x \in Elements
               PROVE  /\ (FindIn(c, x) = Null) = (MemberHas(c, x).n = 0)
                      /\ FindIn(c, x) # Null => Order(At(c, FindIn(c, x)), x) = 0
  BY DEF ArraySearchesAgree
<1>3. PICK found : found = {i \in 1..n : Order(s[i], x) = 0}
  OBVIOUS
<1>4. MemberHas(c, x) = Boolean(found # {})
  BY <1>1, <1>3 DEF MemberHas
<1>5. \A b : Boolean(b).n = IF b THEN 1 ELSE 0
  BY ScalarFields DEF Boolean
<1>6. MemberHas(c, x).n = IF found # {} THEN 1 ELSE 0
  BY <1>4, <1>5
<1>7. CASE found = {}
  <2>1. FindIn(c, x) = Null
    BY <1>1, <1>3, <1>7 DEF FindIn
  <2> QED
    BY <1>6, <1>7, <2>1
<1>8. CASE found # {}
  <2>1. \E j \in found : \A k \in found : j <= k
    <3>1. found \subseteq Nat
      BY <1>1, <1>3
    <3> QED
      BY <1>8, <3>1, Least
  <2>2. PICK i : i = CHOOSE j \in found : \A k \in found : j <= k
    OBVIOUS
  <2>3. i \in found
    BY <2>1, <2>2
  <2>4. FindIn(c, x) = Integer(i - 1)
    BY <1>1, <1>3, <1>8, <2>2 DEF FindIn
  <2>5. i \in 1..n /\ i - 1 \in 0..n /\ Order(s[i], x) = 0
    BY <1>1, <1>3, <2>3
  <2>6. PICK key : key = Scalar("int", i - 1) /\ key.k = "int" /\ key.n = i - 1 /\ FindIn(c, x) = key
    BY <1>1, <2>4, <2>5, ScalarFields
  <2>7. ToIndex(key, n) = i
    BY <1>1, <2>5, <2>6 DEF ToIndex
  <2>8. At(c, key) = s[i]
    BY <1>1, <2>5, <2>7 DEF At
  <2>9. key # Null
    <3>1. Null.k = "null"
      BY ScalarFields DEF Null
    <3> QED
      BY <2>6, <3>1
  <2> QED
    BY <1>6, <1>8, <2>5, <2>6, <2>8, <2>9
<1> QED
  BY <1>7, <1>8

LEMMA ArrayParts ==
    ASSUME NEW c, WellMade(c), c.k = "array"
    PROVE  ArrayPartsAgree(c)
<1>1. PICK s, n : s = c.subs /\ n = Len(s) /\ n \in Nat /\ IsSequence(s) /\ s = [i \in 1..n |-> s[i]]
  <2>1. IsSequence(c.subs)
    BY DEF WellMade
  <2>2. c.subs \in Seq(ToSet(c.subs))
    BY <2>1, SequenceFacts
  <2> QED
    BY <2>1, <2>2
<1>2. \A t : Container("array", t).subs = t
  BY DEF Container, Object
<1>3. ASSUME NEW b \in 0..n, NEW e \in 0..n, b <= e, NEW f, f = b + 1
      PROVE  Slice(c, b, e).subs = SubSeq(s, f, e)
  BY <1>1, <1>2, <1>3 DEF Slice
<1>4. ASSUME NEW t, IsSequence(t), Len(t) = n, \A i \in 1..n : t[i] = s[i]
      PROVE  t = s
  <2>1. t \in Seq(ToSet(t))
    BY <1>4, SequenceFacts
  <2>2. t = [i \in 1..n |-> t[i]]
    BY <1>4, <2>1
  <2> QED
    BY <1>1, <1>4, <2>2
<1>5. Slice(c, 0, n).subs = s
  <2>1. PICK t : t = SubSeq(s, 1, n)
    OBVIOUS
  <2>2. Slice(c, 0, n).subs = t
    <3>1. 0 \in 0..n /\ n \in 0..n /\ 0 <= n /\ 1 = 0 + 1
      BY <1>1
    <3> QED
      BY <1>3, <2>1, <3>1
  <2>3. /\ IsSequence(t) /\ Len(t) = (IF 1 <= n THEN n - 1 + 1 ELSE 0)
        /\ \A i \in 1..(n - 1 + 1) : t[i] = s[1 + i - 1]
    BY <1>1, <2>1, PartSequence
  <2>4. Len(t) = n /\ \A i \in 1..n : t[i] = s[i]
    BY <1>1, <2>3
  <2> QED
    BY <1>4, <2>2, <2>3, <2>4
<1>6. ASSUME NEW m \in 0..n
      PROVE  Prefix(c, m).subs \o Suffix(c, n - m).subs = s
  <2>1. PICK t, u : t = SubSeq(s, 1, m) /\ u = SubSeq(s, m + 1, n)
    OBVIOUS
  <2>2. Prefix(c, m).subs = t
    <3>1. 0 \in 0..n /\ 0 <= m /\ 1 = 0 + 1
      BY <1>1
    <3> QED
      BY <1>3, <2>1, <3>1 DEF Prefix
  <2>3. Suffix(c, n - m).subs = u
    <3>1. n - (n - m) = m /\ m <= n /\ n \in 0..n
      BY <1>1
    <3>2. Suffix(c, n - m) = Slice(c, n - (n - m), n)
      BY <1>1 DEF Suffix
    <3>3. Suffix(c, n - m) = Slice(c, m, n)
      BY <3>1, <3>2
    <3> QED
      BY <1>3, <2>1, <3>1, <3>3
  <2>4. /\ IsSequence(t) /\ Len(t) = (IF 1 <= m THEN m - 1 + 1 ELSE 0)
        /\ \A i \in 1..(m - 1 + 1) : t[i] = s[1 + i - 1]
    BY <1>1, <2>1, PartSequence
  <2>5. Len(t) = m /\ \A i \in 1..m : t[i] = s[i]
    BY <2>4
  <2>6. /\ IsSequence(u) /\ Len(u) = (IF m + 1 <= n THEN n - (m + 1) + 1 ELSE 0)
        /\ \A i \in 1..(n - (m + 1) + 1) : u[i] = s[(m + 1) + i - 1]
    <3>1. m + 1 \in Nat \ {0}
      BY <1>1
    <3> QED
      BY <1>1, <2>1, <3>1, PartSequence
  <2>7. Len(u) = n - m /\ \A i \in 1..(n - m) : u[i] = s[m + i]
    <3>1. n - (m + 1) + 1 = n - m /\ (~(m + 1 <= n) => n - m = 0)
      BY <1>1
    <3>2. \A i \in 1..(n - m) : (m + 1) + i - 1 = m + i
      BY <1>1
    <3> QED
      BY <2>6, <3>1, <3>2
  <2>8. PICK v : v = t \o u
    OBVIOUS
  <2>9. /\ IsSequence(v) /\ Len(v) = m + (n - m)
        /\ \A i \in 1..m : v[i] = t[i]
        /\ \A i \in 1..(n - m) : v[m + i] = u[i]
    <3>1. /\ IsSequence(t \o u) /\ Len(t \o u) = Len(t) + Len(u)
          /\ \A i \in 1..Len(t) : (t \o u)[i] = t[i]
          /\ \A i \in 1..Len(u) : (t \o u)[Len(t) + i] = u[i]
      <4>1. IsSequence(t) /\ IsSequence(u)
        BY <2>4, <2>6
      <4> QED
        BY <4>1, JoinSequences
    <3> QED
      BY <2>5, <2>7, <2>8, <3>1
  <2>10. ASSUME NEW i \in 1..n PROVE v[i] = s[i]
    <3>1. CASE i <= m
      BY <2>5, <2>9, <3>1
    <3>2. CASE i > m
      <4>1. i - m \in 1..(n - m) /\ m + (i - m) = i
        BY <1>1, <3>2
      <4>2. v[m + (i - m)] = u[i - m] /\ u[i - m] = s[m + (i - m)]
        BY <2>7, <2>9, <4>1
      <4> QED
        BY <4>1, <4>2
    <3> QED
      BY <1>1, <3>1, <3>2
  <2>11. Len(v) = n
    BY <1>1, <2>9
  <2> QED
    BY <1>4, <2>2, <2>3, <2>8, <2>9, <2>10, <2>11
<1> QED
  BY <1>1, <1>5, <1>6 DEF ArrayPartsAgree

LEMMA QueueEnds ==
    ASSUME NEW c, c.k \in {"queue", "stack"}
    PROVE  Peek(c).value = Pop(c).value
<1>1. \A v, s : Answer(c, v).value = v /\ Change(c, v, s).value = v
  BY OutcomeFields
<1>2. CASE c.subs = <<>>
  BY <1>1, <1>2 DEF Peek, Pop, OrEmpty
<1>3. CASE c.subs # <<>> /\ c.k = "queue"
  <2>1. Peek(c) = Answer(c, Head(c.subs)) /\ Pop(c) = Change(c, Head(c.subs), Tail(c.subs))
    BY <1>3 DEF Peek, Pop, OrEmpty, PopFront
  <2> QED
    BY <1>1, <2>1
<1>4. CASE c.subs # <<>> /\ c.k = "stack"
  <2>1. Peek(c) = Answer(c, Last(c.subs)) /\ Pop(c) = Change(c, Last(c.subs), Front(c.subs))
    BY <1>4 DEF Peek, Pop, OrEmpty, UnsafePopBack
  <2> QED
    BY <1>1, <2>1
<1> QED
  BY <1>2, <1>3, <1>4

\* What the map functions of every entry point read and leave.
LEMMA MapLookups ==
    ASSUME Transitive(Keys), Separating(Keys), NEW c, WellMade(c), c.k = "map", InOrder(Keys, c.subs)
    PROVE  MapLookupsAgree(c)
<1>1. PICK s, n : s = c.subs /\ n = Len(s) /\ n \in Nat /\ DOMAIN s = 1..n
  BY SequenceFacts DEF WellMade
<1>2. SUFFICES ASSUME NEW k \in Indices
               PROVE  /\ Contained(c, k) = Boolean(\E i \in 1..n : MapKeys(c).subs[i] = k)
                      /\ RemoveKey(c, k).subs = MapMemberErase(c, k).subs
                      /\ MapMemberErase(c, k).value = At(c, k)
                      /\ ~MapContains([c EXCEPT !.subs = RemoveKey(c, k).subs], k)
  BY <1>1 DEF MapLookupsAgree
<1>3. k \in Keys
  BY DEF Keys
<1>4. \A i \in 1..n : MapKeys(c).subs[i] = s[i].subs[1]
  <2>1. PICK t : t = [i \in 1..n |-> s[i].subs[1]] /\ MapKeys(c) = Container("array", t)
    BY <1>1 DEF MapKeys, KeysOf
  <2>2. MapKeys(c).subs = t
    BY <2>1 DEF Container, Object
  <2> QED
    BY <2>1, <2>2
<1>5. MapContains(c, k) <=> \E i \in 1..n : s[i].subs[1] = k
  BY <1>1, <1>3, EntriesFound
<1>6. Contained(c, k) = Boolean(\E i \in 1..n : MapKeys(c).subs[i] = k)
  <2>1. MapContains(c, k) <=> \E i \in 1..n : MapKeys(c).subs[i] = k
    BY <1>4, <1>5
  <2>2. Contained(c, k) = Boolean(MapContains(c, k))
    BY DEF Contained
  <2> QED
    BY <2>1, <2>2 DEF Boolean
<1>7. PICK e : e = MapErase(c, k) /\ IsOutcome(e)
  BY MapsSound DEF Sound
<1>8. MapMemberErase(c, k).subs = e.subs /\ MapMemberErase(c, k).value = MapAt(c, k)
  <2>1. PICK v, w : v = MapAt(c, k) /\ w = [e EXCEPT !.value = v]
    OBVIOUS
  <2>2. PICK y, r, t, b : e = [value |-> y, subs |-> r, ids |-> t, bumped |-> b]
    BY <1>7 DEF IsOutcome
  <2>3. w.subs = e.subs /\ w.value = v
    BY <2>1, <2>2
  <2> QED
    BY <1>7, <2>1, <2>3 DEF MapMemberErase
<1>9. RemoveKey(c, k) = e /\ At(c, k) = MapAt(c, k)
  BY <1>7 DEF RemoveKey, At
<1>10. ~MapContains([c EXCEPT !.subs = RemoveKey(c, k).subs], k)
  <2>1. PICK d : d = [c EXCEPT !.subs = e.subs]
    OBVIOUS
  <2>2. d.subs = MapErase(c, k).subs
    <3>1. PICK o : o = Object(c.k, c.n, c.subs, c.ids)
      OBVIOUS
    <3>2. PICK a : a = c.d /\ c = [o EXCEPT !.d = a]
      BY <3>1 DEF WellMade
    <3>3. PICK g, h, r, t : o = [k |-> g, n |-> h, d |-> 1, subs |-> r, ids |-> t]
      BY <3>1 DEF Object
    <3>4. c = [k |-> g, n |-> h, d |-> a, subs |-> r, ids |-> t]
      BY <3>2, <3>3
    <3>5. PICK u : u = e.subs /\ d = [c EXCEPT !.subs = u]
      BY <2>1
    <3>6. d.subs = u
      BY <3>4, <3>5
    <3> QED
      BY <1>7, <3>5, <3>6
  <2>3. ~MapContains(d, k)
    BY <1>3, <2>2, ErasedReads
  <2> QED
    BY <1>9, <2>1, <2>3
<1> QED
  BY <1>6, <1>8, <1>9, <1>10

LEMMA FirstMapRead ==
    ASSUME Transitive(Keys), Separating(Keys),
           NEW c, WellMade(c), c.k = "map", InOrder(Keys, c.subs), NEW d, d.k = "map", InOrder(Keys, d.subs)
    PROVE  FirstMapWins(c, d)
<1>1. SUFFICES ASSUME NEW k \in Indices
               PROVE  At(Merged(c, d), k) = At(IF MapContains(c, k) THEN c ELSE d, k)
  BY DEF FirstMapWins
<1>2. k \in Keys
  BY DEF Keys
<1>3. MapAt(Merged(c, d), k) = IF MapContains(c, k) THEN MapAt(c, k) ELSE MapAt(d, k)
  BY <1>2, MergedReads
<1>4. Merged(c, d).k = "map"
  BY MergedWellMade DEF InOrder
<1>5. \A m : m.k = "map" => At(m, k) = MapAt(m, k)
  BY DEF At
<1> QED
  BY <1>3, <1>4, <1>5

\* The containers are not larger than an integer can tell.
SizesFit == \A a \in DOMAIN heap : \A n \in -1..Len(heap[a].subs) : Integer(n) = Scalar("int", n)

(* Whatever a program has done, the build-in functions, the index          *)
(* instructions, the member functions and the plugin interface agree on    *)
(* every array, tuple, queue, stack and map of the heap, if the order of   *)
(* values is one on the keys and tells them apart: in the first, last and  *)
(* indexed element, in what is found, added, removed and overwritten where *)
(* and, of two merged maps, in whose entries win (container*.cxx,          *)
(* ltnvm/stdlib, plugin.cxx).                                              *)
THEOREM EveryEntryPointAgrees ==
    ASSUME Transitive(Keys), Separating(Keys), ProgramsInOrder
    PROVE  Spec => [](SizesFit => EntryPointsAgree)
<1>1. Init => IInv /\ MapsInvariant
  BY MapsInit
<1>2. IInv /\ MapsInvariant /\ [Next]_vars => (IInv /\ MapsInvariant)'
  BY MapsNext
<1>3. IInv /\ MapsInvariant => (SizesFit => EntryPointsAgree)
  <2> SUFFICES ASSUME IInv, MapsInvariant, SizesFit, NEW a \in DOMAIN heap, NEW c, c = heap[a]
               PROVE  /\ c.k = "array" =>
                            /\ ArrayEndsAgree(c) /\ ArrayOffsetsAgree(c) /\ ArrayAdditionsAgree(c)
                            /\ ArraySearchesAgree(c) /\ ArrayPartsAgree(c)
                      /\ c.k = "tuple" => TupleOffsetsAgree(c)
                      /\ c.k \in {"queue", "stack"} => Peek(c).value = Pop(c).value
                      /\ c.k = "map" =>
                            /\ MapLookupsAgree(c)
                            /\ \A b \in DOMAIN heap : heap[b].k = "map" => FirstMapWins(c, heap[b])
    BY DEF EntryPointsAgree
  <2>1. DOMAIN heap = 1..Len(heap) /\ WellMade(c) /\ Len(c.subs) \in Nat
    BY SequenceFacts DEF IInv, HeapOK, WellMade
  <2>2. \A n \in -1..Len(c.subs) : Integer(n) = Scalar("int", n)
    BY DEF SizesFit
  <2>3. -1 \in -1..Len(c.subs) /\ 0 \in -1..Len(c.subs) /\ Len(c.subs) \in -1..Len(c.subs)
    BY <2>1
  <2>4. c.k = "array" => /\ ArrayEndsAgree(c) /\ ArrayOffsetsAgree(c) /\ ArrayAdditionsAgree(c)
                         /\ ArraySearchesAgree(c) /\ ArrayPartsAgree(c)
    <3> SUFFICES ASSUME c.k = "array"
                 PROVE  /\ ArrayEndsAgree(c) /\ ArrayOffsetsAgree(c) /\ ArrayAdditionsAgree(c)
                        /\ ArraySearchesAgree(c) /\ ArrayPartsAgree(c)
      OBVIOUS
    <3>1. ArrayEndsAgree(c)
      BY <2>1, <2>2, <2>3, ArrayEnds
    <3>2. ArrayOffsetsAgree(c) /\ ArrayPartsAgree(c)
      BY <2>1, ArrayOffsets, ArrayParts
    <3>3. ArrayAdditionsAgree(c)
      BY <2>1, <2>2, <2>3, ArrayAdditions
    <3>4. ArraySearchesAgree(c)
      <4>1. \A i \in 0..Len(c.subs) : Integer(i) = Scalar("int", i)
        BY <2>1, <2>2
      <4> QED
        BY <2>1, <4>1, ArraySearches
    <3> QED
      BY <3>1, <3>2, <3>3, <3>4
  <2>5. c.k = "tuple" => TupleOffsetsAgree(c)
    BY <2>1, TupleOffsets
  <2>6. c.k \in {"queue", "stack"} => Peek(c).value = Pop(c).value
    BY QueueEnds
  <2>7. c.k = "map" => /\ MapLookupsAgree(c)
                       /\ \A b \in DOMAIN heap : heap[b].k = "map" => FirstMapWins(c, heap[b])
    <3> SUFFICES ASSUME c.k = "map"
                 PROVE  /\ MapLookupsAgree(c)
                        /\ \A b \in DOMAIN heap : heap[b].k = "map" => FirstMapWins(c, heap[b])
      OBVIOUS
    <3>1. \A b \in DOMAIN heap : heap[b].k = "map" => InOrder(Keys, heap[b].subs)
      BY <2>1 DEF MapsInvariant
    <3> QED
      BY <2>1, <3>1, MapLookups, FirstMapRead
  <2> QED
    BY <2>4, <2>5, <2>6, <2>7
<1> QED
  BY <1>1, <1>2, <1>3, PTL DEF Spec
=============================================================================
