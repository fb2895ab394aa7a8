-------------------------- MODULE TraversalProofs --------------------------
(***************************************************************************)
(* What an iterator gives to a script that calls next on it until the      *)
(* stop, for any programs.  An iterator stands at a place p when get gives *)
(* the element p + 1 of ElementsOf, also before the first and behind the   *)
(* last element.  One around others stands where they do, a reversed one   *)
(* at the mirror image of the inner one's place, a combined one at the     *)
(* places that all of its inner ones share.  A move by n moves the place   *)
(* by n, and an iterator that t elements were taken from stands at t.      *)
(***************************************************************************)
EXTENDS IteratorProofs

-----------------------------------------------------------------------------
(* Elements, sizes and places of iterators *)

\* The elements of the first n iterators.
IsElements(its, n, f) ==
    f = [i \in 1..n |-> ElementsGiven(its[i], [j \in DOMAIN Inner(its[i]) |-> f[Inner(its[i])[j]]])]

LEMMA ElementsExist ==
    ASSUME NEW its, Nested(its)
    PROVE  \A n \in Nat : n <= Len(its) => \E f : IsElements(its, n, f)
<1>0. PICK N \in Nat : N = Len(its)
  BY SequenceFacts DEF Nested
<1>1. PICK T : T = {n \in Nat : n <= N => \E f : IsElements(its, n, f)}
  OBVIOUS
<1>2. ASSUME NEW n \in Nat, \A k \in 0..(n - 1) : k \in T
      PROVE  n \in T
  <2>1. CASE n = 0
    <3>1. PICK f : f = [i \in 1..n |-> 0]
      OBVIOUS
    <3>2. IsElements(its, n, f)
      BY <2>1, <3>1 DEF IsElements
    <3> QED
      BY <1>1, <3>2
  <2>2. CASE n # 0 /\ n <= N
    <3>1. PICK g : IsElements(its, n - 1, g)
      BY <1>1, <1>2, <2>2
    <3>2. g = [i \in 1..(n - 1) |-> ElementsGiven(its[i], [j \in DOMAIN Inner(its[i]) |-> g[Inner(its[i])[j]]])]
      BY Zenon, <3>1 DEF IsElements
    <3>3. PICK v : v = ElementsGiven(its[n], [j \in DOMAIN Inner(its[n]) |-> g[Inner(its[n])[j]]])
      OBVIOUS
    <3>4. PICK f : f = [i \in 1..n |-> IF i = n THEN v ELSE g[i]]
      OBVIOUS
    <3>5. \A i \in 1..(n - 1) : f[i] = g[i]
      BY <3>4
    <3>6. ASSUME NEW i \in 1..n
          PROVE  [j \in DOMAIN Inner(its[i]) |-> f[Inner(its[i])[j]]] = [j \in DOMAIN Inner(its[i]) |-> g[Inner(its[i])[j]]]
      <4>1. \A j \in DOMAIN Inner(its[i]) : Inner(its[i])[j] \in 1..(n - 1)
        BY <1>0, <2>2, InnerOlder
      <4> QED
        BY <3>5, <4>1
    <3>7. ASSUME NEW i \in 1..n
          PROVE  f[i] = ElementsGiven(its[i], [j \in DOMAIN Inner(its[i]) |-> f[Inner(its[i])[j]]])
      <4>1. PICK u : u = [j \in DOMAIN Inner(its[i]) |-> g[Inner(its[i])[j]]]
        OBVIOUS
      <4>2. u = [j \in DOMAIN Inner(its[i]) |-> f[Inner(its[i])[j]]]
        BY <3>6, <4>1
      <4>3. f[i] = ElementsGiven(its[i], u)
        <5>1. CASE i = n
          <6>1. v = ElementsGiven(its[i], u)
            BY <3>3, <4>1, <5>1
          <6> QED
            BY <3>4, <5>1, <6>1
        <5>2. CASE i # n
          <6>1. i \in 1..(n - 1)
            BY <5>2
          <6>2. g[i] = ElementsGiven(its[i], u)
            BY Zenon, <3>2, <4>1, <6>1
          <6> QED
            BY <3>5, <6>1, <6>2
        <5> QED
          BY <5>1, <5>2
      <4> QED
        BY <4>2, <4>3
    <3>8. IsElements(its, n, f)
      BY Zenon, <3>4, <3>7 DEF IsElements
    <3> QED
      BY <1>1, <3>8
  <2> QED
    BY <1>1, <2>1, <2>2
<1>3. T = Nat
  BY <1>1, <1>2, Induction
<1> QED
  BY <1>0, <1>1, <1>3

LEMMA ElementsAre ==
    ASSUME DOMAIN iters = 1..Len(iters), NEW g, IsElements(iters, Len(iters), g)
    PROVE  \E f : IsElements(iters, Len(iters), f) /\ \A i : ElementsOf(i) = f[i]
BY Zenon DEF ElementsOf, IsElements

LEMMA ElementsFacts ==
    ASSUME Nested(iters)
    PROVE  \A i \in 1..Len(iters) :
              ElementsOf(i) = ElementsGiven(iters[i], [j \in DOMAIN Inner(iters[i]) |-> ElementsOf(Inner(iters[i])[j])])
<1>1. DOMAIN iters = 1..Len(iters) /\ Len(iters) \in Nat
  BY SequenceFacts DEF Nested
<1>2. PICK g : IsElements(iters, Len(iters), g)
  <2>1. Len(iters) <= Len(iters)
    BY <1>1
  <2> QED
    BY <1>1, <2>1, ElementsExist
<1>3. PICK f : IsElements(iters, Len(iters), f) /\ \A i : ElementsOf(i) = f[i]
  BY <1>1, <1>2, ElementsAre
<1> QED
  BY <1>3, Zenon DEF IsElements

\* What size gives for the first n iterators.
IsSizes(its, n, f) ==
    f = [i \in 1..n |-> Size(its[i], [j \in DOMAIN Inner(its[i]) |-> f[Inner(its[i])[j]]])]

LEMMA SizesExist ==
    ASSUME NEW its, Nested(its)
    PROVE  \A n \in Nat : n <= Len(its) => \E f : IsSizes(its, n, f)
<1>0. PICK N \in Nat : N = Len(its)
  BY SequenceFacts DEF Nested
<1>1. PICK T : T = {n \in Nat : n <= N => \E f : IsSizes(its, n, f)}
  OBVIOUS
<1>2. ASSUME NEW n \in Nat, \A k \in 0..(n - 1) : k \in T
      PROVE  n \in T
  <2>1. CASE n = 0
    <3>1. PICK f : f = [i \in 1..n |-> 0]
      OBVIOUS
    <3>2. IsSizes(its, n, f)
      BY <2>1, <3>1 DEF IsSizes
    <3> QED
      BY <1>1, <3>2
  <2>2. CASE n # 0 /\ n <= N
    <3>1. PICK g : IsSizes(its, n - 1, g)
      BY <1>1, <1>2, <2>2
    <3>2. g = [i \in 1..(n - 1) |-> Size(its[i], [j \in DOMAIN Inner(its[i]) |-> g[Inner(its[i])[j]]])]
      BY <3>1 DEF IsSizes
    <3>3. PICK v : v = Size(its[n], [j \in DOMAIN Inner(its[n]) |-> g[Inner(its[n])[j]]])
      OBVIOUS
    <3>4. PICK f : f = [i \in 1..n |-> IF i = n THEN v ELSE g[i]]
      OBVIOUS
    <3>5. \A i \in 1..(n - 1) : f[i] = g[i]
      BY <3>4
    <3>6. ASSUME NEW i \in 1..n
          PROVE  [j \in DOMAIN Inner(its[i]) |-> f[Inner(its[i])[j]]] = [j \in DOMAIN Inner(its[i]) |-> g[Inner(its[i])[j]]]
      <4>1. \A j \in DOMAIN Inner(its[i]) : Inner(its[i])[j] \in 1..(n - 1)
        BY <1>0, <2>2, InnerOlder
      <4> QED
        BY <3>5, <4>1
    <3>7. ASSUME NEW i \in 1..n
          PROVE  f[i] = Size(its[i], [j \in DOMAIN Inner(its[i]) |-> f[Inner(its[i])[j]]])
      <4>1. PICK u : u = [j \in DOMAIN Inner(its[i]) |-> g[Inner(its[i])[j]]]
        OBVIOUS
      <4>2. u = [j \in DOMAIN Inner(its[i]) |-> f[Inner(its[i])[j]]]
        BY <3>6, <4>1
      <4>3. f[i] = Size(its[i], u)
        <5>1. CASE i = n
          <6>1. v = Size(its[i], u)
            BY <3>3, <4>1, <5>1
          <6> QED
            BY <3>4, <5>1, <6>1
        <5>2. CASE i # n
          <6>1. i \in 1..(n - 1)
            BY <5>2
          <6>2. g[i] = Size(its[i], u)
            BY <3>2, <4>1, <6>1
          <6> QED
            BY <3>5, <6>1, <6>2
        <5> QED
          BY <5>1, <5>2
      <4> QED
        BY <4>2, <4>3
    <3>8. IsSizes(its, n, f)
      BY <3>4, <3>7 DEF IsSizes
    <3> QED
      BY <1>1, <3>8
  <2> QED
    BY <1>1, <2>1, <2>2
<1>3. T = Nat
  BY <1>1, <1>2, Induction
<1> QED
  BY <1>0, <1>1, <1>3

LEMMA SizesAre ==
    ASSUME NEW its, DOMAIN its = 1..Len(its), NEW g, IsSizes(its, Len(its), g)
    PROVE  \E f : IsSizes(its, Len(its), f) /\ \A i : IterSize(its, i) = f[i]
BY Zenon DEF IterSize, IsSizes

LEMMA SizesFacts ==
    ASSUME NEW its, Nested(its)
    PROVE  \A i \in 1..Len(its) :
              IterSize(its, i) = Size(its[i], [j \in DOMAIN Inner(its[i]) |-> IterSize(its, Inner(its[i])[j])])
<1>1. DOMAIN its = 1..Len(its) /\ Len(its) \in Nat
  BY SequenceFacts DEF Nested
<1>2. PICK g : IsSizes(its, Len(its), g)
  <2>1. Len(its) <= Len(its)
    BY <1>1
  <2> QED
    BY <1>1, <2>1, SizesExist
<1>3. PICK f : IsSizes(its, Len(its), f) /\ \A i : IterSize(its, i) = f[i]
  BY <1>1, <1>2, SizesAre
<1>4. \A i \in 1..Len(its) : f[i] = Size(its[i], [j \in DOMAIN Inner(its[i]) |-> f[Inner(its[i])[j]]])
  BY <1>3, Zenon DEF IsSizes
<1> QED
  BY <1>3, <1>4, Zenon

RangeCount(it) == Len(RangeElements(it))
Smaller(m, n) == IF m <= n THEN m ELSE n

\* How many elements an iterator has, for the sizes of the containers, and
\* the positions it may be said to stand at: one, except where a step is 0.
PlaceOf(it, sizes, inner) ==
    [count |-> CASE it.form = "range" -> RangeCount(it)
                 [] it.form = "reversed" -> inner[1].count
                 [] it.form = "combined" -> Smaller(inner[1].count, inner[2].count)
                 [] OTHER -> sizes[it.of[1]],
     spots |-> {p \in Int :
                  CASE it.form = "range" -> it.index = it.begin + p * it.step
                    [] it.form = "reversed" -> inner[1].count - 1 - p \in inner[1].spots
                    [] it.form = "combined" -> p \in inner[1].spots /\ p \in inner[2].spots
                    [] OTHER -> it.index = p}]
Places(its, sizes) ==
    LET place[i \in DOMAIN its] ==
            PlaceOf(its[i], sizes, [j \in DOMAIN Inner(its[i]) |-> place[Inner(its[i])[j]]])
    IN place
Count(its, sizes, i) == Places(its, sizes)[i].count
Spots(its, sizes, i) == Places(its, sizes)[i].spots

\* The places of the first n iterators.
IsPlaces(its, sizes, n, f) ==
    f = [i \in 1..n |-> PlaceOf(its[i], sizes, [j \in DOMAIN Inner(its[i]) |-> f[Inner(its[i])[j]]])]

LEMMA PlacesExist ==
    ASSUME NEW its, NEW sizes, Nested(its)
    PROVE  \A n \in Nat : n <= Len(its) => \E f : IsPlaces(its, sizes, n, f)
<1>0. PICK N \in Nat : N = Len(its)
  BY SequenceFacts DEF Nested
<1>1. PICK T : T = {n \in Nat : n <= N => \E f : IsPlaces(its, sizes, n, f)}
  OBVIOUS
<1>2. ASSUME NEW n \in Nat, \A k \in 0..(n - 1) : k \in T
      PROVE  n \in T
  <2>1. CASE n = 0
    <3>1. PICK f : f = [i \in 1..n |-> 0]
      OBVIOUS
    <3>2. IsPlaces(its, sizes, n, f)
      BY <2>1, <3>1 DEF IsPlaces
    <3> QED
      BY <1>1, <3>2
  <2>2. CASE n # 0 /\ n <= N
    <3>1. PICK g : IsPlaces(its, sizes, n - 1, g)
      BY <1>1, <1>2, <2>2
    <3>2. g = [i \in 1..(n - 1) |-> PlaceOf(its[i], sizes, [j \in DOMAIN Inner(its[i]) |-> g[Inner(its[i])[j]]])]
      BY Zenon, <3>1 DEF IsPlaces
    <3>3. PICK v : v = PlaceOf(its[n], sizes, [j \in DOMAIN Inner(its[n]) |-> g[Inner(its[n])[j]]])
      OBVIOUS
    <3>4. PICK f : f = [i \in 1..n |-> IF i = n THEN v ELSE g[i]]
      OBVIOUS
    <3>5. \A i \in 1..(n - 1) : f[i] = g[i]
      BY <3>4
    <3>6. ASSUME NEW i \in 1..n
          PROVE  [j \in DOMAIN Inner(its[i]) |-> f[Inner(its[i])[j]]] = [j \in DOMAIN Inner(its[i]) |-> g[Inner(its[i])[j]]]
      <4>1. \A j \in DOMAIN Inner(its[i]) : Inner(its[i])[j] \in 1..(n - 1)
        BY <1>0, <2>2, InnerOlder
      <4> QED
        BY <3>5, <4>1
    <3>7. ASSUME NEW i \in 1..n
          PROVE  f[i] = PlaceOf(its[i], sizes, [j \in DOMAIN Inner(its[i]) |-> f[Inner(its[i])[j]]])
      <4>1. PICK u : u = [j \in DOMAIN Inner(its[i]) |-> g[Inner(its[i])[j]]]
        OBVIOUS
      <4>2. u = [j \in DOMAIN Inner(its[i]) |-> f[Inner(its[i])[j]]]
        BY <3>6, <4>1
      <4>3. f[i] = PlaceOf(its[i], sizes, u)
        <5>1. CASE i = n
          <6>1. v = PlaceOf(its[i], sizes, u)
            BY <3>3, <4>1, <5>1
          <6> QED
            BY <3>4, <5>1, <6>1
        <5>2. CASE i # n
          <6>1. i \in 1..(n - 1)
            BY <5>2
          <6>2. g[i] = PlaceOf(its[i], sizes, u)
            BY Zenon, <3>2, <4>1, <6>1
          <6> QED
            BY <3>5, <6>1, <6>2
        <5> QED
          BY <5>1, <5>2
      <4> QED
        BY <4>2, <4>3
    <3>8. IsPlaces(its, sizes, n, f)
      BY Zenon, <3>4, <3>7 DEF IsPlaces
    <3> QED
      BY <1>1, <3>8
  <2> QED
    BY <1>1, <2>1, <2>2
<1>3. T = Nat
  BY <1>1, <1>2, Induction
<1> QED
  BY <1>0, <1>1, <1>3

LEMMA PlacesAre ==
    ASSUME NEW its, NEW sizes, DOMAIN its = 1..Len(its), NEW g, IsPlaces(its, sizes, Len(its), g)
    PROVE  IsPlaces(its, sizes, Len(its), Places(its, sizes))
BY Zenon DEF Places, IsPlaces

LEMMA PlacesFacts ==
    ASSUME NEW its, Nested(its), NEW sizes
    PROVE  \A i \in 1..Len(its) :
              Places(its, sizes)[i] =
                  PlaceOf(its[i], sizes, [j \in DOMAIN Inner(its[i]) |-> Places(its, sizes)[Inner(its[i])[j]]])
<1>1. DOMAIN its = 1..Len(its) /\ Len(its) \in Nat
  BY SequenceFacts DEF Nested
<1>2. PICK g : IsPlaces(its, sizes, Len(its), g)
  <2>1. Len(its) <= Len(its)
    BY <1>1
  <2> QED
    BY Zenon, <1>1, <2>1, PlacesExist
<1>3. IsPlaces(its, sizes, Len(its), Places(its, sizes))
  BY <1>1, <1>2, PlacesAre
<1> QED
  BY <1>3, Zenon DEF IsPlaces

-----------------------------------------------------------------------------
(* Ranges *)

LEMMA Products ==
    ASSUME NEW t \in Nat \ {0}
    PROVE  /\ \A p \in Nat : p * t \in Nat /\ p * t >= p
           /\ \A p \in Int : p < 0 => p * t < 0
           /\ \A p, q \in Int : p <= q => p * t <= q * t
<1>1. ASSUME NEW a \in Nat, NEW b \in Nat
      PROVE  a * b \in Nat
  BY <1>1
<1>2. ASSUME NEW p \in Nat
      PROVE  p * t \in Nat /\ p * t >= p
  <2>1. PICK s \in Nat : s = t - 1
    OBVIOUS
  <2>2. p * t = p * s + p
    BY <2>1
  <2>3. p * s \in Nat
    BY <1>1
  <2> QED
    BY <2>2, <2>3
<1>3. ASSUME NEW p \in Int, NEW q \in Int, p <= q
      PROVE  p * t <= q * t
  <2>1. PICK r \in Nat : r = q - p
    BY <1>3
  <2>2. q * t = p * t + r * t
    BY <2>1
  <2>3. r * t \in Nat
    BY <1>1
  <2>4. p * t \in Int
    OBVIOUS
  <2> QED
    BY <2>2, <2>3, <2>4
<1>4. ASSUME NEW p \in Int, p < 0
      PROVE  p * t < 0
  <2>1. p * t <= (-1) * t
    BY <1>3, <1>4
  <2>2. (-1) * t = -t /\ p * t \in Int
    OBVIOUS
  <2> QED
    BY <2>1, <2>2
<1> QED
  BY <1>2, <1>3, <1>4

\* The multiples of t from 0 up to d are the first ones.
LEMMA Multiples ==
    ASSUME NEW t \in Nat \ {0}, NEW d \in Nat
    PROVE  \E m \in 0..d : \A p \in Int : p * t \in Int /\ (p * t >= 0 /\ p * t < d <=> p \in 0..(m - 1))
<1>1. PICK T : T = {q \in Nat : q * t >= d}
  OBVIOUS
<1>2. d \in T
  BY <1>1, Products
<1>3. PICK m \in T : \A k \in T : m <= k
  <2>1. T \subseteq Nat /\ T # {}
    BY Zenon, <1>1, <1>2
  <2> QED
    BY Zenon, <2>1, Least
<1>4. m \in 0..d /\ m * t >= d
  BY <1>1, <1>2, <1>3
<1>5. ASSUME NEW p \in Int
      PROVE  p * t \in Int /\ (p * t >= 0 /\ p * t < d <=> p \in 0..(m - 1))
  <2>1. p * t \in Int /\ m * t \in Int
    BY <1>4
  <2>2. CASE p < 0
    BY <1>4, <2>1, <2>2, Products
  <2>3. CASE p \in 0..(m - 1)
    <3>1. p \notin T /\ p \in Nat
      BY <1>3, <1>4, <2>3
    <3>2. p * t \in Nat /\ p * t < d
      BY <1>1, <2>1, <3>1, Products
    <3> QED
      BY <2>1, <2>3, <3>2
  <2>4. CASE p >= m
    <3>1. m * t <= p * t
      BY <1>4, <2>4, Products
    <3> QED
      BY <1>4, <2>1, <2>4, <3>1
  <2> QED
    BY <1>4, <2>2, <2>3, <2>4
<1> QED
  BY Zenon, <1>4, <1>5

\* What a range of these numbers gives.
Between(begin, end, n) ==
    IF begin <= end THEN n >= begin /\ n < end ELSE n <= begin /\ n > end
Along(begin, end, step) == (step < 0) <=> (end < begin)

LEMMA RangeEnds ==
    ASSUME NEW b \in Int, NEW e \in Int, NEW s \in Int \ {0}
    PROVE  \E m \in 0..Abs(e - b) :
              /\ \A p \in Int :
                    p >= 0 \/ Along(b, e, s) => (Between(b, e, b + p * s) <=> p \in 0..(m - 1))
              /\ Along(b, e, s) => \A p \in Nat : p * Abs(s) < Abs(e - b) <=> p < m
              /\ ~Along(b, e, s) => m = IF b = e THEN 0 ELSE 1
<1>0. \A p \in Int : p * s \in Int
  OBVIOUS
<1>1. CASE b = e
  <2>1. \A p \in Int : ~Between(b, e, b + p * s)
    BY <1>0, <1>1 DEF Between
  <2>2. 0 \in 0..Abs(e - b) /\ 0..(0 - 1) = {} /\ Abs(e - b) = 0
    BY <1>1 DEF Abs
  <2>3. Abs(s) \in Nat \ {0}
    BY DEF Abs
  <2>4. \A p \in Nat : p * Abs(s) \in Nat
    BY <2>3, Products
  <2>5. \A p \in Nat : p * Abs(s) < Abs(e - b) <=> p < 0
    BY <2>2, <2>4
  <2>6. \A p \in Int : Between(b, e, b + p * s) <=> p \in 0..(0 - 1)
    BY <2>1, <2>2
  <2> QED
    BY Zenon, <1>1, <2>2, <2>5, <2>6
<1>2. CASE b < e /\ s > 0
  <2>1. PICK d, m : /\ d = e - b /\ d \in Nat /\ m \in 0..d
                    /\ \A p \in Int : p * s \in Int /\ (p * s >= 0 /\ p * s < d <=> p \in 0..(m - 1))
    <3>1. e - b \in Nat /\ s \in Nat \ {0}
      BY <1>2
    <3> QED
      BY Zenon, <3>1, Multiples
  <2>2. \A p \in Int : Between(b, e, b + p * s) <=> p * s >= 0 /\ p * s < d
    BY <1>2, <2>1 DEF Between
  <2>3. Abs(e - b) = d /\ Abs(s) = s /\ Along(b, e, s)
    BY <1>2, <2>1 DEF Abs, Along
  <2>4. \A p \in Nat : p * s < d <=> p < m
    <3>1. \A p \in Nat : p * s >= 0
      BY <1>2, Products
    <3> QED
      BY <2>1, <3>1
  <2> QED
    BY Zenon, <2>1, <2>2, <2>3, <2>4
<1>3. CASE e < b /\ s < 0
  <2>0. PICK t : t = -s /\ t \in Nat \ {0}
    BY <1>3
  <2>1. PICK d, m : /\ d = b - e /\ d \in Nat /\ m \in 0..d
                    /\ \A p \in Int : p * t \in Int /\ (p * t >= 0 /\ p * t < d <=> p \in 0..(m - 1))
    <3>1. b - e \in Nat
      BY <1>3
    <3> QED
      BY Zenon, <2>0, <3>1, Multiples
  <2>2. ASSUME NEW p \in Int
        PROVE  Between(b, e, b + p * s) <=> p * t >= 0 /\ p * t < d
    <3>1. p * s = -(p * t)
      BY <2>0
    <3> QED
      BY <1>0, <1>3, <2>1, <3>1 DEF Between
  <2>3. Abs(e - b) = d /\ Abs(s) = t /\ Along(b, e, s)
    BY <1>3, <2>0, <2>1 DEF Abs, Along
  <2>4. \A p \in Nat : p * t < d <=> p < m
    <3>1. \A p \in Nat : p * t >= 0
      BY <2>0, Products
    <3> QED
      BY <2>1, <3>1
  <2> QED
    BY Zenon, <2>1, <2>2, <2>3, <2>4
<1>4. CASE b # e /\ ~Along(b, e, s)
  <2>1. ASSUME NEW p \in Int, p >= 0
        PROVE  Between(b, e, b + p * s) <=> p = 0
    <3>1. CASE p = 0
      <4>1. b + p * s = b
        BY <3>1
      <4> QED
        BY <1>4, <3>1, <4>1 DEF Between
    <3>2. CASE p > 0 /\ s > 0
      <4>1. p * s >= p
        BY <2>1, <3>2, Products
      <4>2. e < b
        BY <1>4, <3>2 DEF Along
      <4> QED
        BY <1>0, <3>2, <4>1, <4>2 DEF Between
    <3>3. CASE p > 0 /\ s < 0
      <4>1. p * (-s) >= p /\ p * s = -(p * (-s)) /\ p * (-s) \in Int
        BY <2>1, <3>3, Products
      <4>2. b < e
        BY <1>4, <3>3 DEF Along
      <4> QED
        BY <1>0, <3>3, <4>1, <4>2 DEF Between
    <3> QED
      BY <2>1, <3>1, <3>2, <3>3
  <2>2. 1 \in 0..Abs(e - b)
    BY <1>4 DEF Abs
  <2>3. \A p \in Int : p >= 0 \/ Along(b, e, s) => (Between(b, e, b + p * s) <=> p \in 0..(1 - 1))
    BY <1>4, <2>1
  <2> QED
    BY <1>4, <2>2, <2>3
<1> QED
  BY <1>1, <1>2, <1>3, <1>4 DEF Along

LEMMA Quotients ==
    ASSUME NEW t \in Nat \ {0}, NEW d \in Nat
    PROVE  /\ d \div t \in Nat
           /\ \A p \in Nat : p * t < d <=> p < d \div t + (IF d - t * (d \div t) # 0 THEN 1 ELSE 0)
<1>1. PICK q, r : q = d \div t /\ r = d - t * q /\ q \in Nat /\ r \in Nat /\ r < t /\ d = t * q + r
  <2>1. PICK q : q = d \div t
    OBVIOUS
  <2>2. q \in Nat /\ t * q <= d /\ d - t * q < t
    BY <2>1
  <2>3. t * q \in Int
    BY <2>2
  <2> QED
    BY <2>1, <2>2, <2>3
<1>2. PICK x \in Nat : x = q + (IF r # 0 THEN 1 ELSE 0)
  BY <1>1
<1>0. q \in Nat /\ x \in Nat /\ (r = 0 => x = q) /\ (r # 0 => x = q + 1)
  <2>1. q \in Nat /\ r \in Nat
    BY <1>1
  <2> QED
    BY <1>2, <2>1
<1>3. x * t >= d
  <2>0. q * t = t * q /\ t * q \in Int
    BY <1>1
  <2>1. CASE r = 0
    <3>1. x = q
      BY <1>0, <2>1
    <3> QED
      BY <1>1, <2>0, <2>1, <3>1
  <2>2. CASE r # 0
    <3>1. x = q + 1 /\ (q + 1) * t = q * t + t
      BY <1>0, <2>2
    <3> QED
      BY <1>1, <2>0, <3>1
  <2> QED
    BY <2>1, <2>2
<1>4. ASSUME NEW p \in Nat, p < x
      PROVE  p * t < d
  <2>0. q * t = t * q /\ t * q \in Int /\ p * t \in Int
    BY <1>1
  <2>1. CASE r = 0
    <3>1. p + 1 <= q /\ p + 1 \in Int /\ q \in Int
      BY <1>0, <1>4, <2>1
    <3>2. (p + 1) * t <= q * t
      BY <3>1, Products
    <3>3. (p + 1) * t = p * t + t
      OBVIOUS
    <3> QED
      BY <1>1, <2>0, <2>1, <3>2, <3>3
  <2>2. CASE r # 0
    <3>1. p <= q /\ p \in Int /\ q \in Int
      BY <1>0, <1>4, <2>2
    <3>2. p * t <= q * t
      BY <3>1, Products
    <3> QED
      BY <1>1, <2>0, <2>2, <3>2
  <2> QED
    BY <2>1, <2>2
<1>5. ASSUME NEW p \in Nat, p >= x
      PROVE  ~(p * t < d)
  <2>1. x * t <= p * t
    BY <1>2, <1>5, Products
  <2> QED
    BY <1>3, <2>1
<1>6. \A p \in Nat : p * t < d <=> p < x
  BY <1>4, <1>5
<1>7. x = d \div t + (IF d - t * (d \div t) # 0 THEN 1 ELSE 0)
  BY Zenon, <1>1, <1>2
<1> QED
  BY <1>1, <1>6, <1>7

RangeFormed(it) == it.begin \in Int /\ it.end \in Int /\ it.step \in Int

\* The elements of a range are where the iterator finds them.
LEMMA RangeFacts ==
    ASSUME NEW it, RangeFormed(it), it.step # 0
    PROVE  \E m \in 0..Abs(it.end - it.begin) :
              /\ RangeElements(it) = [k \in 1..m |-> Integer(it.begin + (k - 1) * it.step)]
              /\ IsSequence(RangeElements(it)) /\ Len(RangeElements(it)) = m
              /\ \A p \in Int : p >= 0 \/ Along(it.begin, it.end, it.step) =>
                    (Between(it.begin, it.end, it.begin + p * it.step) <=> p \in 0..(m - 1))
              /\ RangeSize(it) = Integer(m)
<1>1. PICK b, e, s : b = it.begin /\ e = it.end /\ s = it.step /\ b \in Int /\ e \in Int /\ s \in Int \ {0}
  BY DEF RangeFormed
<1>2. PICK m \in 0..Abs(e - b) :
              /\ \A p \in Int :
                    p >= 0 \/ Along(b, e, s) => (Between(b, e, b + p * s) <=> p \in 0..(m - 1))
              /\ Along(b, e, s) => \A p \in Nat : p * Abs(s) < Abs(e - b) <=> p < m
              /\ ~Along(b, e, s) => m = IF b = e THEN 0 ELSE 1
  <2>1. b \in Int /\ e \in Int /\ s \in Int \ {0}
    BY <1>1
  <2> QED
    BY <2>1, RangeEnds, Zenon
<1>3. PICK n : n = CHOOSE k \in 0..Abs(e - b) :
                      ~Between(b, e, b + k * s) /\ \A l \in 0..(k - 1) : Between(b, e, b + l * s)
  OBVIOUS
<1>4. Abs(e - b) \in Nat
  BY <1>1 DEF Abs
<1>5. ~Between(b, e, b + m * s) /\ \A l \in 0..(m - 1) : Between(b, e, b + l * s)
  BY <1>2, <1>4
<1>6. n \in 0..Abs(e - b) /\ ~Between(b, e, b + n * s) /\ \A l \in 0..(n - 1) : Between(b, e, b + l * s)
  <2>1. \E k \in 0..Abs(e - b) : ~Between(b, e, b + k * s) /\ \A l \in 0..(k - 1) : Between(b, e, b + l * s)
    BY <1>5
  <2> QED
    BY <1>3, <2>1
<1>7. n = m
  <2>1. n \in Int /\ n >= 0 /\ m \in Int /\ m >= 0
    BY <1>4, <1>6
  <2>2. n \notin 0..(m - 1)
    BY <1>2, <1>6, <2>1
  <2>3. ~(m < n)
    BY <1>5, <1>6, <2>1
  <2> QED
    BY <2>1, <2>2, <2>3
<1>8. RangeElements(it) = [k \in 1..n |-> Integer(b + (k - 1) * s)]
  BY <1>1, <1>3 DEF RangeElements, Between
<1>9. PICK f : f = [k \in 1..m |-> Integer(b + (k - 1) * s)]
  OBVIOUS
<1>10. f = [k \in 1..m |-> f[k]]
  BY <1>9
<1>11. IsSequence(f) /\ Len(f) = m
  BY <1>4, <1>10, FunctionIsSequence
<1>12. RangeSize(it) = Integer(m)
  <2>1. CASE ~Along(b, e, s)
    <3>1. (it.step < 0) # (e - b < 0)
      BY <1>1, <2>1 DEF Along
    <3>2. RangeSize(it) = Integer(IF e - b # 0 THEN 1 ELSE 0)
      BY <1>1, <3>1 DEF RangeSize
    <3>3. (IF e - b # 0 THEN 1 ELSE 0) = m
      BY <1>1, <1>2, <2>1
    <3> QED
      BY <3>2, <3>3
  <2>2. CASE Along(b, e, s)
    <3>1. PICK d, t : d = Abs(e - b) /\ d \in Nat /\ t = Abs(s) /\ t \in Nat \ {0}
      BY <1>1 DEF Abs
    <3>2. PICK q \in Nat : /\ q = d \div t
                          /\ \A p \in Nat : p * t < d <=> p < q + (IF d - t * q # 0 THEN 1 ELSE 0)
      BY Zenon, <3>1, Quotients
    <3>3. Quot(e - b, s) = q
      BY <1>1, <2>2, <3>1, <3>2 DEF Quot, Along
    <3>4. Rem(d, s) = d - t * q
      <4>1. CASE s > 0
        <5>1. Abs(s) = s /\ Abs(d) = d /\ t = s
          BY <1>1, <3>1, <4>1 DEF Abs
        <5>2. Quot(d, s) = q
          BY <1>1, <3>1, <3>2, <4>1, <5>1 DEF Quot
        <5> QED
          BY <5>1, <5>2 DEF Rem
      <4>2. CASE s < 0
        <5>1. Abs(s) = -s /\ Abs(d) = d /\ t = -s
          BY <1>1, <3>1, <4>2 DEF Abs
        <5>2. Quot(d, s) = -q
          BY <1>1, <3>1, <3>2, <4>2, <5>1 DEF Quot
        <5>3. s * (-q) = t * q
          BY <1>1, <5>1
        <5> QED
          BY <1>1, <5>2, <5>3 DEF Rem
      <4> QED
        BY <1>1, <4>1, <4>2
    <3>5. (it.step < 0) = (e - b < 0) /\ it.step # 0
      BY <1>1, <2>2 DEF Along
    <3>6. PICK x \in Nat : x = q + (IF d - t * q # 0 THEN 1 ELSE 0)
      OBVIOUS
    <3>7. RangeSize(it) = Integer(x)
      BY <1>1, <3>1, <3>3, <3>4, <3>5, <3>6 DEF RangeSize
    <3>8. x = m
      <4>1. m \in Nat
        BY <1>4
      <4>2. \A p \in Nat : p < x <=> p < m
        BY Zenon, <1>2, <2>2, <3>1, <3>2, <3>6
      <4> QED
        BY <4>1, <4>2
    <3> QED
      BY <3>7, <3>8
  <2> QED
    BY <2>1, <2>2
<1> QED
  BY Zenon, <1>1, <1>2, <1>7, <1>8, <1>9, <1>11, <1>12

-----------------------------------------------------------------------------
(* Iterators and those they are around *)

LEMMA Upwards ==
    ASSUME NEW N \in Nat, NEW T, \A i \in 1..N : (\A k \in 1..(i - 1) : k \in T) => i \in T
    PROVE  \A i \in 1..N : i \in T
<1>1. PICK S : S = {i \in Nat : i \in 1..N => i \in T}
  OBVIOUS
<1>2. ASSUME NEW i \in Nat, \A k \in 0..(i - 1) : k \in S
      PROVE  i \in S
  <2> SUFFICES ASSUME i \in 1..N PROVE i \in T
    BY <1>1
  <2>1. \A k \in 1..(i - 1) : k \in T
    BY <1>1, <1>2
  <2> QED
    BY <2>1
<1>3. S = Nat
  BY Zenon, <1>1, <1>2, Induction
<1> QED
  BY <1>1, <1>3

LEMMA BelowOlder ==
    ASSUME NEW its, Nested(its)
    PROVE  \A i \in 1..Len(its) :
              /\ i \in Below(its, i) /\ Below(its, i) \subseteq 1..i
              /\ \A j \in Below(its, i) : Below(its, j) \subseteq Below(its, i)
              /\ \A j \in DOMAIN Inner(its[i]) :
                    /\ Inner(its[i])[j] \in 1..(i - 1)
                    /\ Inner(its[i])[j] \in Below(its, i)
                    /\ Below(its, Inner(its[i])[j]) \subseteq Below(its, i)
<1>0. PICK N \in Nat : N = Len(its)
  BY SequenceFacts DEF Nested
<1>1. PICK T : T = {i \in 1..N : /\ i \in Below(its, i) /\ Below(its, i) \subseteq 1..i
                                 /\ \A j \in Below(its, i) : Below(its, j) \subseteq Below(its, i)}
  OBVIOUS
<1>2. ASSUME NEW i \in 1..N, \A k \in 1..(i - 1) : k \in T
      PROVE  i \in T
  <2>1. Below(its, i) = {i} \cup UNION {Below(its, Inner(its[i])[j]) : j \in DOMAIN Inner(its[i])}
    BY Zenon, <1>0, BelowFacts
  <2>2. \A j \in DOMAIN Inner(its[i]) : Inner(its[i])[j] \in 1..(i - 1) /\ Inner(its[i])[j] \in T
    BY Zenon, <1>0, <1>2, InnerOlder
  <2>3. i \in Below(its, i)
    BY <2>1
  <2>4. Below(its, i) \subseteq 1..i
    <3>1. ASSUME NEW j \in DOMAIN Inner(its[i])
          PROVE  Below(its, Inner(its[i])[j]) \subseteq 1..i
      <4>1. PICK c \in 1..(i - 1) : c = Inner(its[i])[j] /\ c \in T
        BY <2>2, <3>1
      <4>2. Below(its, c) \subseteq 1..c
        BY <1>1, <4>1
      <4> QED
        BY <4>1, <4>2
    <3> QED
      BY <2>1, <3>1
  <2>5. ASSUME NEW j \in Below(its, i)
        PROVE  Below(its, j) \subseteq Below(its, i)
    <3>1. CASE j = i
      BY <3>1
    <3>2. CASE j # i
      <4>1. PICK k \in DOMAIN Inner(its[i]) : j \in Below(its, Inner(its[i])[k])
        BY <2>1, <3>2
      <4>2. Below(its, j) \subseteq Below(its, Inner(its[i])[k])
        BY <1>1, <2>2, <4>1
      <4> QED
        BY <2>1, <4>2
    <3> QED
      BY <3>1, <3>2
  <2> QED
    BY <1>1, <2>3, <2>4, <2>5
<1>3. \A i \in 1..N : i \in T
  BY <1>2, Upwards
<1>4. ASSUME NEW i \in 1..N, NEW j \in DOMAIN Inner(its[i])
      PROVE  /\ Inner(its[i])[j] \in 1..(i - 1)
             /\ Inner(its[i])[j] \in Below(its, i)
             /\ Below(its, Inner(its[i])[j]) \subseteq Below(its, i)
  <2>1. PICK c : c = Inner(its[i])[j]
    OBVIOUS
  <2>2. c \in 1..(i - 1) /\ c \in 1..N
    BY <1>0, <2>1, InnerOlder
  <2>3. c \in Below(its, c)
    BY <1>1, <1>3, <2>2
  <2>4. Below(its, c) \subseteq Below(its, i)
    BY <1>0, <2>1, BelowFacts
  <2> QED
    BY <2>1, <2>2, <2>3, <2>4
<1> QED
  BY <1>0, <1>1, <1>3, <1>4

\* What moves and new iterators keep of the iterators there are.
SameOne(it, other) ==
    /\ other.form = it.form /\ other.of = it.of /\ other.version = it.version
    /\ other.begin = it.begin /\ other.end = it.end /\ other.step = it.step
Extends(its, others) ==
    /\ Nested(others) /\ Len(its) <= Len(others)
    /\ \A i \in 1..Len(its) : SameOne(its[i], others[i])

LEMMA AlikeExtends ==
    ASSUME NEW its, NEW others, Alike(its, others), Nested(others)
    PROVE  Extends(its, others)
<1>1. Len(others) \in Nat
  BY SequenceFacts DEF Nested
<1> QED
  BY <1>1 DEF Extends, Alike, SameOne

LEMMA AppendExtends ==
    ASSUME NEW its, NEW others, Extends(its, others), NEW it, Nested(its), Nested(Append(others, it))
    PROVE  /\ Extends(its, Append(others, it))
           /\ \A i \in 1..Len(others) : Append(others, it)[i] = others[i]
<1>1. PICK m \in Nat : m = Len(others)
  BY SequenceFacts DEF Extends, Nested
<1>2. PICK s : s = Append(others, it)
  OBVIOUS
<1>3. Len(s) = m + 1 /\ \A i \in 1..m : s[i] = others[i]
  BY <1>1, <1>2, AppendSequence DEF Extends, Nested
<1>4. PICK n \in Nat : n = Len(its)
  BY SequenceFacts DEF Nested
<1>5. n <= m
  BY <1>1, <1>4 DEF Extends
<1> QED
  BY <1>1, <1>2, <1>3, <1>4, <1>5 DEF Extends

LEMMA InnerSame ==
    ASSUME NEW it, NEW other, SameOne(it, other)
    PROVE  Inner(other) = Inner(it)
BY DEF SameOne, Inner, Wraps

LEMMA BelowSame ==
    ASSUME NEW its, Nested(its), NEW others, Extends(its, others)
    PROVE  \A i \in 1..Len(its) : i \in 1..Len(others) /\ Below(others, i) = Below(its, i)
<1>0. PICK N \in Nat, M \in Nat : N = Len(its) /\ M = Len(others) /\ N <= M
  BY SequenceFacts DEF Nested, Extends
<1>1. PICK T : T = {i \in 1..N : Below(others, i) = Below(its, i)}
  OBVIOUS
<1>2. ASSUME NEW i \in 1..N, \A k \in 1..(i - 1) : k \in T
      PROVE  i \in T
  <2>0. Nested(others) /\ i \in 1..M
    BY <1>0 DEF Extends
  <2>1. PICK inner : inner = Inner(its[i]) /\ inner = Inner(others[i])
    BY <1>0, InnerSame DEF Extends
  <2>2. Below(its, i) = {i} \cup UNION {Below(its, inner[j]) : j \in DOMAIN inner}
    <3>1. Below(its, i) = {i} \cup UNION {Below(its, Inner(its[i])[j]) : j \in DOMAIN Inner(its[i])}
      BY Zenon, <1>0, BelowFacts
    <3> QED
      BY <2>1, <3>1, Zenon
  <2>3. Below(others, i) = {i} \cup UNION {Below(others, inner[j]) : j \in DOMAIN inner}
    <3>1. Below(others, i) = {i} \cup UNION {Below(others, Inner(others[i])[j]) : j \in DOMAIN Inner(others[i])}
      BY Zenon, <1>0, <2>0, BelowFacts
    <3> QED
      BY <2>1, <3>1, Zenon
  <2>4. \A j \in DOMAIN inner : inner[j] \in T
    BY Zenon, <1>0, <1>2, <2>1, InnerOlder
  <2>5. \A j \in DOMAIN inner : Below(others, inner[j]) = Below(its, inner[j])
    BY <1>1, <2>4
  <2> QED
    BY <1>1, <2>2, <2>3, <2>5
<1>3. \A i \in 1..N : i \in T
  BY <1>2, Upwards
<1> QED
  BY <1>0, <1>1, <1>3

-----------------------------------------------------------------------------
(* Places *)

Holds(m) == \A n \in 0..m : Integer(n) = Scalar("int", n)
OverContainer(it) == it.form \in {"contiguous", "map", "string", "coroutine"}

\* What the iterators are, over containers of these sizes and kinds.
FormedOne(it, sizes, kinds) ==
    /\ it.index \in Int
    /\ OverContainer(it) \/ it.form = "range" \/ Wraps(it)
    /\ it.form = "range" => RangeFormed(it) /\ Holds(Abs(it.end - it.begin))
    /\ it.form = "combined" => Len(it.of) = 2
    /\ OverContainer(it) =>
          /\ Len(it.of) = 1 /\ it.of[1] \in DOMAIN sizes
          /\ it.form = FormOf(kinds[it.of[1]])
    /\ it.form = "coroutine" => it.index \in 0..sizes[it.of[1]]
Formed(its, sizes, kinds) ==
    /\ Nested(its) /\ \A i \in 1..Len(its) : FormedOne(its[i], sizes, kinds)
    /\ \A a \in DOMAIN sizes : sizes[a] \in Nat /\ Holds(sizes[a])

LEMMA Inners ==
    ASSUME NEW its, NEW sizes, NEW kinds, Formed(its, sizes, kinds)
    PROVE  /\ DOMAIN its = 1..Len(its)
           /\ \A i \in 1..Len(its) :
                 /\ its[i].form = "reversed" =>
                       DOMAIN Inner(its[i]) = 1..1 /\ Inner(its[i])[1] = its[i].of[1]
                 /\ its[i].form = "combined" =>
                       /\ DOMAIN Inner(its[i]) = 1..2
                       /\ Inner(its[i])[1] = its[i].of[1] /\ Inner(its[i])[2] = its[i].of[2]
                 /\ Wraps(its[i]) =>
                       its[i].of[1] \in 1..(i - 1) /\ Below(its, its[i].of[1]) \subseteq Below(its, i)
                 /\ its[i].form = "combined" =>
                       its[i].of[2] \in 1..(i - 1) /\ Below(its, its[i].of[2]) \subseteq Below(its, i)
                 /\ ~Wraps(its[i]) => DOMAIN Inner(its[i]) = {}
<1>0. Nested(its)
  BY DEF Formed
<1>1. DOMAIN its = 1..Len(its)
  BY <1>0, SequenceFacts DEF Nested
<1>2. ASSUME NEW i \in 1..Len(its), Wraps(its[i])
      PROVE  /\ its[i].form = "reversed" =>
                   DOMAIN Inner(its[i]) = 1..1 /\ Inner(its[i])[1] = its[i].of[1]
             /\ its[i].form = "combined" =>
                   /\ DOMAIN Inner(its[i]) = 1..2
                   /\ Inner(its[i])[1] = its[i].of[1] /\ Inner(its[i])[2] = its[i].of[2]
             /\ its[i].of[1] \in 1..(i - 1) /\ Below(its, its[i].of[1]) \subseteq Below(its, i)
             /\ its[i].form = "combined" =>
                   its[i].of[2] \in 1..(i - 1) /\ Below(its, its[i].of[2]) \subseteq Below(its, i)
  <2>1. PICK of : of = its[i].of /\ of = Inner(its[i])
    BY <1>2 DEF Inner
  <2>2. PICK n \in Nat : /\ n = Len(of) /\ DOMAIN of = 1..n
                         /\ its[i].form = "reversed" => n = 1
                         /\ its[i].form = "combined" => n = 2
    BY Zenon, <1>0, <2>1, SequenceFacts DEF Nested, Formed, FormedOne
  <2>3. \A j \in DOMAIN of : of[j] \in 1..(i - 1) /\ Below(its, of[j]) \subseteq Below(its, i)
    BY Zenon, <1>0, <2>1, BelowOlder
  <2> QED
    BY <1>2, <2>1, <2>2, <2>3 DEF Wraps
<1>3. ASSUME NEW i \in 1..Len(its), ~Wraps(its[i])
      PROVE  DOMAIN Inner(its[i]) = {}
  BY <1>3 DEF Inner
<1> QED
  BY <1>1, <1>2, <1>3 DEF Wraps

LEMMA PlaceForms ==
    ASSUME NEW its, NEW sizes, NEW kinds, Formed(its, sizes, kinds), NEW i \in 1..Len(its)
    PROVE  /\ OverContainer(its[i]) =>
                 /\ Count(its, sizes, i) = sizes[its[i].of[1]]
                 /\ Spots(its, sizes, i) = {p \in Int : its[i].index = p}
           /\ its[i].form = "range" =>
                 /\ Count(its, sizes, i) = RangeCount(its[i])
                 /\ Spots(its, sizes, i) = {p \in Int : its[i].index = its[i].begin + p * its[i].step}
           /\ its[i].form = "reversed" =>
                 LET c == its[i].of[1]
                 IN /\ Count(its, sizes, i) = Count(its, sizes, c)
                    /\ Spots(its, sizes, i) = {p \in Int : Count(its, sizes, c) - 1 - p \in Spots(its, sizes, c)}
           /\ its[i].form = "combined" =>
                 LET c == its[i].of[1]
                     d == its[i].of[2]
                 IN /\ Count(its, sizes, i) = Smaller(Count(its, sizes, c), Count(its, sizes, d))
                    /\ Spots(its, sizes, i) = {p \in Int : p \in Spots(its, sizes, c) /\ p \in Spots(its, sizes, d)}
<1>0. PICK it, inner : /\ it = its[i]
                       /\ inner = [j \in DOMAIN Inner(it) |-> Places(its, sizes)[Inner(it)[j]]]
  OBVIOUS
<1>1. Places(its, sizes)[i] = PlaceOf(it, sizes, inner)
  BY <1>0, PlacesFacts DEF Formed
<1>2. PICK place : place = PlaceOf(it, sizes, inner)
  OBVIOUS
<1>3. Count(its, sizes, i) = place.count /\ Spots(its, sizes, i) = place.spots
  BY <1>1, <1>2 DEF Count, Spots
<1>4. /\ place.count = CASE it.form = "range" -> RangeCount(it)
                         [] it.form = "reversed" -> inner[1].count
                         [] it.form = "combined" -> Smaller(inner[1].count, inner[2].count)
                         [] OTHER -> sizes[it.of[1]]
      /\ place.spots = {p \in Int :
                  CASE it.form = "range" -> it.index = it.begin + p * it.step
                    [] it.form = "reversed" -> inner[1].count - 1 - p \in inner[1].spots
                    [] it.form = "combined" -> p \in inner[1].spots /\ p \in inner[2].spots
                    [] OTHER -> it.index = p}
  BY <1>2, Zenon DEF PlaceOf
<1>5. CASE OverContainer(it)
  BY Zenon, <1>0, <1>3, <1>4, <1>5 DEF OverContainer
<1>6. CASE it.form = "range"
  BY <1>0, <1>3, <1>4, <1>6 DEF OverContainer
<1>7. CASE it.form = "reversed"
  <2>1. PICK c : c = it.of[1]
    OBVIOUS
  <2>2. DOMAIN Inner(it) = 1..1 /\ Inner(it)[1] = c
    BY <1>0, <1>7, <2>1, Inners
  <2>3. inner[1].count = Count(its, sizes, c) /\ inner[1].spots = Spots(its, sizes, c)
    BY <1>0, <2>2 DEF Count, Spots
  <2>4. place.count = inner[1].count /\ place.spots = {p \in Int : inner[1].count - 1 - p \in inner[1].spots}
    BY <1>4, <1>7
  <2> QED
    BY <1>0, <1>3, <1>7, <2>1, <2>3, <2>4 DEF OverContainer
<1>8. CASE it.form = "combined"
  <2>1. PICK c, d : c = it.of[1] /\ d = it.of[2]
    OBVIOUS
  <2>2. DOMAIN Inner(it) = 1..2 /\ Inner(it)[1] = c /\ Inner(it)[2] = d
    BY <1>0, <1>8, <2>1, Inners
  <2>3. /\ inner[1].count = Count(its, sizes, c) /\ inner[1].spots = Spots(its, sizes, c)
        /\ inner[2].count = Count(its, sizes, d) /\ inner[2].spots = Spots(its, sizes, d)
    BY <1>0, <2>2 DEF Count, Spots
  <2>4. /\ place.count = Smaller(inner[1].count, inner[2].count)
        /\ place.spots = {p \in Int : p \in inner[1].spots /\ p \in inner[2].spots}
    BY <1>4, <1>8
  <2> QED
    BY <1>0, <1>3, <1>8, <2>1, <2>3, <2>4 DEF OverContainer
<1> QED
  BY <1>0, <1>5, <1>6, <1>7, <1>8 DEF Formed, FormedOne, Wraps

\* What an iterator and those it is around are.
Simple(its, i) ==
    \A j \in Below(its, i) :
        /\ its[j].form = "range" => its[j].step # 0
        /\ its[j].form = "combined" => Below(its, its[j].of[1]) \cap Below(its, its[j].of[2]) = {}
StaleIn(it, ver) == it.form \in {"contiguous", "map"} /\ it.version # ver[it.of[1]]
FreshIn(its, ver, i) == \A j \in Below(its, i) : ~StaleIn(its[j], ver)
ReversibleIn(its, i) ==
    \A j \in Below(its, i) :
        /\ its[j].form \notin {"map", "coroutine"}
        /\ its[j].form = "range" => Along(its[j].begin, its[j].end, its[j].step)
OrderlyIn(its, i) == \A j \in Below(its, i) : its[j].form = "reversed" => ReversibleIn(its, j)

LEMMA Inherited ==
    ASSUME NEW its, NEW i, NEW c, Below(its, c) \subseteq Below(its, i)
    PROVE  /\ Simple(its, i) => Simple(its, c)
           /\ \A ver : FreshIn(its, ver, i) => FreshIn(its, ver, c)
           /\ ReversibleIn(its, i) => ReversibleIn(its, c)
           /\ OrderlyIn(its, i) => OrderlyIn(its, c)
BY DEF Simple, FreshIn, ReversibleIn, OrderlyIn

LEMMA CountFacts ==
    ASSUME NEW its, NEW sizes, NEW kinds, Formed(its, sizes, kinds)
    PROVE  \A i \in 1..Len(its) :
              Simple(its, i) => Count(its, sizes, i) \in Nat /\ Holds(Count(its, sizes, i))
<1>0. PICK N \in Nat : N = Len(its)
  BY SequenceFacts DEF Nested, Formed
<1>1. PICK T : T = {i \in 1..N : Simple(its, i) => Count(its, sizes, i) \in Nat /\ Holds(Count(its, sizes, i))}
  OBVIOUS
<1>2. ASSUME NEW i \in 1..N, \A k \in 1..(i - 1) : k \in T
      PROVE  i \in T
  <2> SUFFICES ASSUME Simple(its, i)
               PROVE  Count(its, sizes, i) \in Nat /\ Holds(Count(its, sizes, i))
    BY <1>1
  <2>1. CASE OverContainer(its[i])
    <3>1. its[i].of[1] \in DOMAIN sizes
      BY <1>0, <2>1 DEF Formed, FormedOne
    <3>2. sizes[its[i].of[1]] \in Nat /\ Holds(sizes[its[i].of[1]])
      BY <3>1 DEF Formed
    <3>3. Count(its, sizes, i) = sizes[its[i].of[1]]
      BY <1>0, <2>1, PlaceForms
    <3> QED
      BY <3>2, <3>3
  <2>2. CASE its[i].form = "range"
    <3>1. PICK it : it = its[i] /\ RangeFormed(it) /\ Holds(Abs(it.end - it.begin)) /\ it.step # 0
      BY <1>0, <2>2, BelowOlder DEF Formed, FormedOne, Simple
    <3>2. PICK m \in 0..Abs(it.end - it.begin) : Len(RangeElements(it)) = m
      BY <3>1, RangeFacts
    <3>3. Abs(it.end - it.begin) \in Nat
      BY <3>1 DEF RangeFormed, Abs
    <3>4. m \in Nat /\ Holds(m)
      BY <3>1, <3>3 DEF Holds
    <3> QED
      BY <1>0, <2>2, <3>1, <3>2, <3>4, PlaceForms DEF RangeCount
  <2>3. CASE Wraps(its[i])
    <3>1. PICK c : c = its[i].of[1] /\ c \in 1..(i - 1) /\ Below(its, c) \subseteq Below(its, i)
      BY <1>0, <2>3, Inners
    <3>2. Count(its, sizes, c) \in Nat /\ Holds(Count(its, sizes, c))
      BY Zenon, <1>1, <1>2, <3>1, Inherited
    <3>3. CASE its[i].form = "reversed"
      BY <1>0, <3>1, <3>2, <3>3, PlaceForms
    <3>4. CASE its[i].form = "combined"
      <4>1. PICK d : d = its[i].of[2] /\ d \in 1..(i - 1) /\ Below(its, d) \subseteq Below(its, i)
        BY <1>0, <3>4, Inners
      <4>2. Count(its, sizes, d) \in Nat /\ Holds(Count(its, sizes, d))
        BY Zenon, <1>1, <1>2, <4>1, Inherited
      <4> QED
        BY <1>0, <3>1, <3>2, <3>4, <4>1, <4>2, PlaceForms DEF Smaller
    <3> QED
      BY <2>3, <3>3, <3>4 DEF Wraps
  <2> QED
    BY <1>0, <2>1, <2>2, <2>3 DEF Formed, FormedOne
<1>3. \A i \in 1..N : i \in T
  BY <1>2, Upwards
<1> QED
  BY <1>0, <1>1, <1>3

\* What others keep of iterators also decides the rest.
LEMMA ShapeSame ==
    ASSUME NEW its, NEW sizes, NEW kinds, Formed(its, sizes, kinds), NEW others, Extends(its, others),
           NEW i \in 1..Len(its)
    PROVE  /\ Simple(its, i) <=> Simple(others, i)
           /\ \A ver : FreshIn(its, ver, i) <=> FreshIn(others, ver, i)
           /\ ReversibleIn(its, i) <=> ReversibleIn(others, i)
           /\ OrderlyIn(its, i) <=> OrderlyIn(others, i)
<1>0. PICK N \in Nat : N = Len(its) /\ i \in 1..N /\ Nested(its)
  BY Zenon, SequenceFacts DEF Nested, Formed
<1>1. Below(others, i) = Below(its, i)
  BY <1>0, BelowSame
<1>2. ASSUME NEW j \in Below(its, i)
      PROVE  /\ j \in 1..N /\ SameOne(its[j], others[j])
             /\ Below(others, j) = Below(its, j)
  <2>1. j \in 1..N
    BY <1>0, BelowOlder
  <2> QED
    BY <1>0, <2>1, BelowSame DEF Extends
<1>3. ASSUME NEW j \in 1..N
      PROVE  ReversibleIn(its, j) <=> ReversibleIn(others, j)
  <2>1. Below(others, j) = Below(its, j) /\ Below(its, j) \subseteq 1..N
    BY <1>0, BelowSame, BelowOlder
  <2>2. \A k \in Below(its, j) : SameOne(its[k], others[k])
    BY <1>0, <2>1 DEF Extends
  <2> QED
    BY <2>1, <2>2 DEF ReversibleIn, SameOne
<1>4. \A ver : FreshIn(its, ver, i) <=> FreshIn(others, ver, i)
  <2>1. \A j \in Below(its, i) : \A ver : StaleIn(its[j], ver) <=> StaleIn(others[j], ver)
    BY <1>2 DEF StaleIn, SameOne
  <2> QED
    BY Zenon, <1>1, <2>1 DEF FreshIn
<1>5. OrderlyIn(its, i) <=> OrderlyIn(others, i)
  BY <1>1, <1>2, <1>3 DEF OrderlyIn, SameOne
<1>6. Simple(its, i) <=> Simple(others, i)
  <2>1. ASSUME NEW j \in Below(its, i), its[j].form = "combined"
        PROVE  /\ Below(others, its[j].of[1]) = Below(its, its[j].of[1])
               /\ Below(others, its[j].of[2]) = Below(its, its[j].of[2])
    <3>1. j \in 1..N
      BY <1>2
    <3>2. its[j].of[1] \in 1..(j - 1) /\ its[j].of[2] \in 1..(j - 1)
      BY <1>0, <2>1, <3>1, Inners DEF Wraps
    <3>3. its[j].of[1] \in 1..N /\ its[j].of[2] \in 1..N
      BY <3>1, <3>2
    <3> QED
      BY <1>0, <3>3, BelowSame
  <2>2. ASSUME NEW j \in Below(its, i)
        PROVE  /\ others[j].form = its[j].form /\ others[j].step = its[j].step
               /\ its[j].form = "combined" =>
                     (Below(its, its[j].of[1]) \cap Below(its, its[j].of[2]) =
                      Below(others, others[j].of[1]) \cap Below(others, others[j].of[2]))
    BY <1>2, <2>1 DEF SameOne
  <2> QED
    BY Zenon, <1>1, <2>2 DEF Simple
<1> QED
  BY <1>0, <1>3, <1>4, <1>5, <1>6

\* The places below an iterator decide its own.
LEMMA PlacesSame ==
    ASSUME NEW its, NEW sizes, NEW kinds, Formed(its, sizes, kinds),
           NEW others, NEW sizez, NEW kindz, Formed(others, sizez, kindz), Extends(its, others)
    PROVE  \A i \in 1..Len(its) :
              (\A j \in Below(its, i) : OverContainer(its[j]) => sizes[its[j].of[1]] = sizez[its[j].of[1]]) =>
                 /\ Count(others, sizez, i) = Count(its, sizes, i)
                 /\ (\A j \in Below(its, i) : others[j].index = its[j].index) =>
                       Spots(others, sizez, i) = Spots(its, sizes, i)
<1>0. PICK N \in Nat, M \in Nat : N = Len(its) /\ M = Len(others) /\ N <= M
  BY SequenceFacts DEF Nested, Formed, Extends
<1>1. PICK T : T = {i \in 1..N :
              (\A j \in Below(its, i) : OverContainer(its[j]) => sizes[its[j].of[1]] = sizez[its[j].of[1]]) =>
                 /\ Count(others, sizez, i) = Count(its, sizes, i)
                 /\ (\A j \in Below(its, i) : others[j].index = its[j].index) =>
                       Spots(others, sizez, i) = Spots(its, sizes, i)}
  OBVIOUS
<1>2. ASSUME NEW i \in 1..N, \A k \in 1..(i - 1) : k \in T
      PROVE  i \in T
  <2> SUFFICES ASSUME \A j \in Below(its, i) : OverContainer(its[j]) => sizes[its[j].of[1]] = sizez[its[j].of[1]]
               PROVE  /\ Count(others, sizez, i) = Count(its, sizes, i)
                      /\ (\A j \in Below(its, i) : others[j].index = its[j].index) =>
                            Spots(others, sizez, i) = Spots(its, sizes, i)
    BY <1>1
  <2>0. PICK it, other : it = its[i] /\ other = others[i] /\ SameOne(it, other)
    BY <1>0 DEF Extends
  <2>1. i \in Below(its, i) /\ i \in 1..M
    BY <1>0, BelowOlder DEF Formed
  <2>2. CASE OverContainer(it)
    <3>1. OverContainer(other) /\ other.of = it.of
      BY <2>0, <2>2 DEF OverContainer, SameOne
    <3>2. /\ Count(its, sizes, i) = sizes[it.of[1]]
          /\ Spots(its, sizes, i) = {p \in Int : it.index = p}
      BY <1>0, <2>0, <2>2, PlaceForms
    <3>3. /\ Count(others, sizez, i) = sizez[it.of[1]]
          /\ Spots(others, sizez, i) = {p \in Int : other.index = p}
      BY <1>0, <2>0, <2>1, <3>1, PlaceForms
    <3> QED
      BY <2>0, <2>1, <2>2, <3>2, <3>3
  <2>3. CASE it.form = "range"
    <3>1. other.form = "range" /\ RangeCount(other) = RangeCount(it)
      BY <2>0, <2>3 DEF SameOne, RangeCount, RangeElements
    <3>2. /\ Count(its, sizes, i) = RangeCount(it)
          /\ Spots(its, sizes, i) = {p \in Int : it.index = it.begin + p * it.step}
      BY <1>0, <2>0, <2>3, PlaceForms
    <3>3. /\ Count(others, sizez, i) = RangeCount(other)
          /\ Spots(others, sizez, i) = {p \in Int : other.index = other.begin + p * other.step}
      BY <1>0, <2>0, <2>1, <3>1, PlaceForms
    <3>4. other.begin = it.begin /\ other.step = it.step
      BY <2>0 DEF SameOne
    <3> QED
      BY <2>0, <2>1, <3>1, <3>2, <3>3, <3>4
  <2>4. CASE Wraps(it)
    <3>0. other.form = it.form /\ other.of = it.of
      BY <2>0 DEF SameOne
    <3>1. PICK c : c = it.of[1] /\ c \in 1..(i - 1) /\ Below(its, c) \subseteq Below(its, i)
      BY <1>0, <2>0, <2>4, Inners
    <3>2. /\ Count(others, sizez, c) = Count(its, sizes, c)
          /\ (\A j \in Below(its, i) : others[j].index = its[j].index) =>
                Spots(others, sizez, c) = Spots(its, sizes, c)
      <4>1. c \in T
        BY <1>2, <3>1
      <4> QED
        BY <1>1, <3>1, <4>1
    <3>3. CASE it.form = "reversed"
      <4>1. /\ Count(its, sizes, i) = Count(its, sizes, c)
            /\ Spots(its, sizes, i) = {p \in Int : Count(its, sizes, c) - 1 - p \in Spots(its, sizes, c)}
        BY <1>0, <2>0, <3>1, <3>3, PlaceForms
      <4>2. /\ Count(others, sizez, i) = Count(others, sizez, c)
            /\ Spots(others, sizez, i) = {p \in Int : Count(others, sizez, c) - 1 - p \in Spots(others, sizez, c)}
        BY <1>0, <2>0, <2>1, <3>0, <3>1, <3>3, PlaceForms
      <4> QED
        BY <3>2, <4>1, <4>2
    <3>4. CASE it.form = "combined"
      <4>1. PICK d : d = it.of[2] /\ d \in 1..(i - 1) /\ Below(its, d) \subseteq Below(its, i)
        BY <1>0, <2>0, <3>4, Inners
      <4>2. /\ Count(others, sizez, d) = Count(its, sizes, d)
            /\ (\A j \in Below(its, i) : others[j].index = its[j].index) =>
                  Spots(others, sizez, d) = Spots(its, sizes, d)
        <5>1. d \in T
          BY <1>2, <4>1
        <5> QED
          BY <1>1, <4>1, <5>1
      <4>3. /\ Count(its, sizes, i) = Smaller(Count(its, sizes, c), Count(its, sizes, d))
            /\ Spots(its, sizes, i) = {p \in Int : p \in Spots(its, sizes, c) /\ p \in Spots(its, sizes, d)}
        BY <1>0, <2>0, <3>1, <3>4, <4>1, PlaceForms
      <4>4. /\ Count(others, sizez, i) = Smaller(Count(others, sizez, c), Count(others, sizez, d))
            /\ Spots(others, sizez, i) = {p \in Int : p \in Spots(others, sizez, c) /\ p \in Spots(others, sizez, d)}
        BY <1>0, <2>0, <2>1, <3>0, <3>1, <3>4, <4>1, PlaceForms
      <4> QED
        BY <3>2, <4>2, <4>3, <4>4
    <3> QED
      BY <2>4, <3>3, <3>4 DEF Wraps
  <2> QED
    BY <1>0, <2>0, <2>2, <2>3, <2>4 DEF Formed, FormedOne
<1>3. \A i \in 1..N : i \in T
  BY <1>2, Upwards
<1> QED
  BY <1>0, <1>1, <1>3

-----------------------------------------------------------------------------
(* What iterators give *)

PlainHeap == \A a \in 1..Len(heap) : Plain(heap[a])

Sizes == [a \in 1..Len(heap) |-> Len(heap[a].subs)]
Kinds == [a \in 1..Len(heap) |-> heap[a].k]

LEMMA Elementary ==
    /\ \A s : IsElement(Container("tuple", s))
    /\ \A n : IsElement(Integer(n))
    /\ ~IsElement(Stop) /\ ~IsFailure(Stop)
    /\ \A v : IsElement(v) <=> ~IsFailure(v) /\ v # Stop
<1>1. \A s : Container("tuple", s).k = "tuple"
  BY DEF Container, Object
<1>2. \A n : Integer(n).k = "int"
  BY DEF Integer, Scalar, Object
<1>3. Stop.k = "stop"
  BY DEF Stop, Scalar, Object
<1>4. "tuple" \in DOMAIN ValueType /\ "int" \in DOMAIN ValueType /\ "stop" \in DOMAIN ValueType
  BY DEF ValueType
<1>5. \A s : ~IsFailure(Container("tuple", s)) /\ Container("tuple", s) # Stop
  BY <1>1, <1>3, <1>4 DEF IsFailure
<1>6. \A n : ~IsFailure(Integer(n)) /\ Integer(n) # Stop
  BY <1>2, <1>3, <1>4 DEF IsFailure
<1>7. ~IsFailure(Stop)
  BY <1>3, <1>4 DEF IsFailure
<1> QED
  BY <1>5, <1>6, <1>7 DEF IsElement

LEMMA ReverseFacts ==
    ASSUME NEW s, IsSequence(s)
    PROVE  /\ IsSequence(Reverse(s)) /\ Len(Reverse(s)) = Len(s)
           /\ \A n \in 1..Len(s) : Reverse(s)[n] = s[Len(s) - n + 1] /\ Len(s) - n + 1 \in 1..Len(s)
<1>1. PICK m \in Nat : m = Len(s)
  BY SequenceFacts
<1>2. PICK r : r = Reverse(s)
  OBVIOUS
<1>3. r = [n \in 1..m |-> s[m - n + 1]]
  BY <1>1, <1>2 DEF Reverse
<1>4. r = [n \in 1..m |-> r[n]]
  BY <1>3
<1>5. IsSequence(r) /\ Len(r) = m
  BY <1>4, FunctionIsSequence
<1>6. \A n \in 1..m : r[n] = s[m - n + 1] /\ m - n + 1 \in 1..m
  BY <1>3
<1> QED
  BY <1>1, <1>2, <1>5, <1>6

\* The container of an iterator.
LEMMA ContainerFacts ==
    ASSUME HeapOK, PlainHeap, Formed(iters, Sizes, Kinds), NEW i \in 1..Len(iters), OverContainer(iters[i])
    PROVE  LET it == iters[i]
               a == it.of[1]
               subs == heap[a].subs
           IN /\ a \in 1..Len(heap) /\ IsSequence(subs) /\ DOMAIN subs = 1..Len(subs) /\ Len(subs) \in Nat
              /\ Sizes[a] = Len(subs) /\ Count(iters, Sizes, i) = Len(subs)
              /\ it.form # "map" => \A n \in 1..Len(subs) : IsElement(subs[n])
              /\ it.form = "coroutine" => it.index \in 0..Len(subs)
              /\ it.index \in Int
<1>1. PICK it, a, subs : it = iters[i] /\ a = it.of[1] /\ subs = heap[a].subs
  OBVIOUS
<1>2. a \in 1..Len(heap) /\ Sizes[a] = Len(subs) /\ Kinds[a] = heap[a].k /\ it.form = FormOf(heap[a].k)
  BY <1>1 DEF Formed, FormedOne, Sizes, Kinds
<1>3. IsSequence(subs) /\ DOMAIN subs = 1..Len(subs) /\ Len(subs) \in Nat
  BY Zenon, <1>1, <1>2, SequenceFacts DEF HeapOK, WellMade
<1>4. Count(iters, Sizes, i) = Len(subs)
  BY <1>1, <1>2, PlaceForms
<1>5. it.form # "map" => heap[a].k # "map" /\ heap[a].k # "struct"
  BY <1>1, <1>2 DEF FormOf, OverContainer
<1>6. it.form # "map" => \A n \in 1..Len(subs) : IsElement(subs[n])
  BY Zenon, <1>1, <1>2, <1>5 DEF PlainHeap, Plain
<1>7. it.index \in Int /\ (it.form = "coroutine" => it.index \in 0..Len(subs))
  BY <1>1, <1>2 DEF Formed, FormedOne
<1> QED
  BY <1>1, <1>2, <1>3, <1>4, <1>6, <1>7

LEMMA ElementsForms ==
    ASSUME Formed(iters, Sizes, Kinds), NEW i \in 1..Len(iters)
    PROVE  LET it == iters[i]
               subs == heap[it.of[1]].subs
               c == it.of[1]
               d == it.of[2]
           IN /\ OverContainer(it) =>
                    ElementsOf(i) = IF it.form = "map" THEN [n \in DOMAIN subs |-> Container("tuple", subs[n].subs)]
                                    ELSE subs
              /\ it.form = "range" => ElementsOf(i) = RangeElements(it)
              /\ it.form = "reversed" => ElementsOf(i) = Reverse(ElementsOf(c))
              /\ it.form = "combined" =>
                    \E inner, shortest :
                       /\ inner = [j \in 1..2 |-> IF j = 1 THEN ElementsOf(c) ELSE ElementsOf(d)]
                       /\ shortest = CHOOSE n \in {Len(inner[j]) : j \in 1..2} : \A j \in 1..2 : n <= Len(inner[j])
                       /\ ElementsOf(i) = [n \in 1..shortest |-> Container("tuple", [j \in 1..2 |-> inner[j][n]])]
<1>1. PICK it, c, d, subs : it = iters[i] /\ c = it.of[1] /\ d = it.of[2] /\ subs = heap[c].subs
  OBVIOUS
<1>2. PICK inner : /\ inner = [j \in DOMAIN Inner(it) |-> ElementsOf(Inner(it)[j])]
                   /\ ElementsOf(i) = ElementsGiven(it, inner)
  BY Zenon, <1>1, ElementsFacts DEF Formed
<1>3. CASE OverContainer(it)
  <2>1. ElementsGiven(it, inner) = IF it.form = "map" THEN [n \in DOMAIN subs |-> Container("tuple", subs[n].subs)]
                                   ELSE subs
    BY <1>1, <1>3 DEF ElementsGiven, OverContainer
  <2> QED
    BY <1>1, <1>2, <1>3, <2>1 DEF OverContainer
<1>4. CASE it.form = "range"
  <2>1. ElementsGiven(it, inner) = RangeElements(it)
    BY <1>4 DEF ElementsGiven
  <2> QED
    BY <1>1, <1>2, <1>4, <2>1 DEF OverContainer
<1>5. CASE it.form = "reversed"
  <2>1. DOMAIN Inner(it) = 1..1 /\ Inner(it)[1] = c
    BY <1>1, <1>5, Inners
  <2>2. inner[1] = ElementsOf(c)
    BY <1>2, <2>1
  <2>3. ElementsGiven(it, inner) = Reverse(inner[1])
    BY <1>5 DEF ElementsGiven
  <2> QED
    BY <1>1, <1>2, <1>5, <2>2, <2>3 DEF OverContainer
<1>6. CASE it.form = "combined"
  <2>1. DOMAIN Inner(it) = 1..2 /\ Inner(it)[1] = c /\ Inner(it)[2] = d
    BY <1>1, <1>6, Inners
  <2>2. inner = [j \in 1..2 |-> IF j = 1 THEN ElementsOf(c) ELSE ElementsOf(d)]
    BY <1>2, <2>1
  <2>3. DOMAIN inner = 1..2
    BY <2>2
  <2>4. PICK shortest : shortest = CHOOSE n \in {Len(inner[j]) : j \in DOMAIN inner} : \A j \in DOMAIN inner : n <= Len(inner[j])
    OBVIOUS
  <2>5. ElementsGiven(it, inner) = [n \in 1..shortest |-> Container("tuple", [j \in DOMAIN inner |-> inner[j][n]])]
    BY <1>6, <2>4 DEF ElementsGiven
  <2>6. shortest = CHOOSE n \in {Len(inner[j]) : j \in 1..2} : \A j \in 1..2 : n <= Len(inner[j])
    BY <2>3, <2>4, Zenon
  <2>7. ElementsOf(i) = [n \in 1..shortest |-> Container("tuple", [j \in 1..2 |-> inner[j][n]])]
    BY <1>2, <2>3, <2>5, Zenon
  <2>8. \E inn, s :
                       /\ inn = [j \in 1..2 |-> IF j = 1 THEN ElementsOf(c) ELSE ElementsOf(d)]
                       /\ s = CHOOSE n \in {Len(inn[j]) : j \in 1..2} : \A j \in 1..2 : n <= Len(inn[j])
                       /\ ElementsOf(i) = [n \in 1..s |-> Container("tuple", [j \in 1..2 |-> inn[j][n]])]
    BY <2>2, <2>6, <2>7
  <2> QED
    BY <1>1, <1>6, <2>8 DEF OverContainer
<1> QED
  BY <1>1, <1>3, <1>4, <1>5, <1>6 DEF Formed, FormedOne, Wraps

\* A combined iterator gives pairs as long as both iterators do.
LEMMA CombinedElements ==
    ASSUME Formed(iters, Sizes, Kinds), NEW i \in 1..Len(iters), iters[i].form = "combined",
           NEW c, NEW d, c = iters[i].of[1], d = iters[i].of[2],
           NEW s \in Nat, NEW t \in Nat, Len(ElementsOf(c)) = s, Len(ElementsOf(d)) = t
    PROVE  /\ IsSequence(ElementsOf(i)) /\ Len(ElementsOf(i)) = Smaller(s, t)
           /\ \A n \in 1..Smaller(s, t) :
                 ElementsOf(i)[n] = Container("tuple", [j \in 1..2 |-> IF j = 1 THEN ElementsOf(c)[n] ELSE ElementsOf(d)[n]])
<1>1. PICK inner, shortest :
                       /\ inner = [j \in 1..2 |-> IF j = 1 THEN ElementsOf(c) ELSE ElementsOf(d)]
                       /\ shortest = CHOOSE n \in {Len(inner[j]) : j \in 1..2} : \A j \in 1..2 : n <= Len(inner[j])
                       /\ ElementsOf(i) = [n \in 1..shortest |-> Container("tuple", [j \in 1..2 |-> inner[j][n]])]
  BY ElementsForms
<1>2. inner[1] = ElementsOf(c) /\ inner[2] = ElementsOf(d)
  BY <1>1
<1>3. Len(inner[1]) = s /\ Len(inner[2]) = t
  BY <1>2
<1>4. {Len(inner[j]) : j \in 1..2} = {s, t}
  <2>1. 1 \in 1..2 /\ 2 \in 1..2 /\ \A j \in 1..2 : j = 1 \/ j = 2
    OBVIOUS
  <2>2. \A j \in 1..2 : Len(inner[j]) \in {s, t}
    BY <1>3, <2>1
  <2>3. s \in {Len(inner[j]) : j \in 1..2} /\ t \in {Len(inner[j]) : j \in 1..2}
    BY <1>3, <2>1
  <2> QED
    BY Zenon, <2>2, <2>3
<1>5. \A n : (\A j \in 1..2 : n <= Len(inner[j])) <=> n <= s /\ n <= t
  BY <1>3
<1>6. shortest = CHOOSE n \in {s, t} : n <= s /\ n <= t
  BY <1>1, <1>4, <1>5
<1>7. shortest = Smaller(s, t)
  <2>1. \E n \in {s, t} : n <= s /\ n <= t
    OBVIOUS
  <2>2. shortest \in {s, t} /\ shortest <= s /\ shortest <= t
    BY Zenon, <1>6, <2>1
  <2> QED
    BY <2>2 DEF Smaller
<1>8. PICK m \in Nat : m = Smaller(s, t)
  BY DEF Smaller
<1>9. PICK e : e = ElementsOf(i)
  OBVIOUS
<1>10. e = [n \in 1..m |-> e[n]]
  BY <1>1, <1>7, <1>8, <1>9
<1>11. IsSequence(e) /\ Len(e) = m
  BY <1>10, FunctionIsSequence
<1>12. ASSUME NEW n \in 1..m
       PROVE  e[n] = Container("tuple", [j \in 1..2 |-> IF j = 1 THEN ElementsOf(c)[n] ELSE ElementsOf(d)[n]])
  <2>1. e[n] = Container("tuple", [j \in 1..2 |-> inner[j][n]])
    BY Zenon, <1>1, <1>7, <1>8, <1>9
  <2>2. [j \in 1..2 |-> inner[j][n]] = [j \in 1..2 |-> IF j = 1 THEN ElementsOf(c)[n] ELSE ElementsOf(d)[n]]
    BY <1>2
  <2> QED
    BY Zenon, <2>1, <2>2
<1> QED
  BY <1>8, <1>9, <1>11, <1>12

\* There are as many elements as places, and each is one.
LEMMA ElementsCounted ==
    ASSUME HeapOK, PlainHeap, Formed(iters, Sizes, Kinds)
    PROVE  \A i \in 1..Len(iters) :
              Simple(iters, i) =>
                 /\ IsSequence(ElementsOf(i)) /\ Len(ElementsOf(i)) = Count(iters, Sizes, i)
                 /\ \A n \in 1..Count(iters, Sizes, i) : IsElement(ElementsOf(i)[n])
<1>0. PICK N \in Nat : N = Len(iters)
  BY SequenceFacts DEF Nested, Formed
<1>1. PICK T : T = {i \in 1..N : Simple(iters, i) =>
                 /\ IsSequence(ElementsOf(i)) /\ Len(ElementsOf(i)) = Count(iters, Sizes, i)
                 /\ \A n \in 1..Count(iters, Sizes, i) : IsElement(ElementsOf(i)[n])}
  OBVIOUS
<1>2. ASSUME NEW i \in 1..N, \A k \in 1..(i - 1) : k \in T
      PROVE  i \in T
  <2> SUFFICES ASSUME Simple(iters, i)
               PROVE  /\ IsSequence(ElementsOf(i)) /\ Len(ElementsOf(i)) = Count(iters, Sizes, i)
                      /\ \A n \in 1..Count(iters, Sizes, i) : IsElement(ElementsOf(i)[n])
    BY <1>1
  <2>0. PICK it : it = iters[i]
    OBVIOUS
  <2>1. CASE OverContainer(it)
    <3>1. PICK subs : /\ subs = heap[it.of[1]].subs /\ IsSequence(subs) /\ DOMAIN subs = 1..Len(subs)
                      /\ Len(subs) \in Nat /\ Count(iters, Sizes, i) = Len(subs)
                      /\ it.form # "map" => \A n \in 1..Len(subs) : IsElement(subs[n])
      BY Zenon, <1>0, <2>0, <2>1, ContainerFacts
    <3>2. ElementsOf(i) = IF it.form = "map" THEN [n \in DOMAIN subs |-> Container("tuple", subs[n].subs)] ELSE subs
      BY Zenon, <1>0, <2>0, <2>1, <3>1, ElementsForms
    <3>3. CASE it.form # "map"
      BY <3>1, <3>2, <3>3
    <3>4. CASE it.form = "map"
      <4>1. PICK e : e = ElementsOf(i)
        OBVIOUS
      <4>2. e = [n \in 1..Len(subs) |-> Container("tuple", subs[n].subs)]
        BY <3>1, <3>2, <3>4, <4>1
      <4>3. e = [n \in 1..Len(subs) |-> e[n]] /\ \A n \in 1..Len(subs) : e[n] = Container("tuple", subs[n].subs)
        BY <4>2
      <4>4. IsSequence(e) /\ Len(e) = Len(subs)
        BY <3>1, <4>3, FunctionIsSequence
      <4> QED
        BY Zenon, <3>1, <4>1, <4>3, <4>4, Elementary
    <3> QED
      BY <3>3, <3>4
  <2>2. CASE it.form = "range"
    <3>1. RangeFormed(it) /\ it.step # 0
      BY <1>0, <2>0, <2>2, BelowOlder DEF Formed, FormedOne, Simple
    <3>2. PICK m \in 0..Abs(it.end - it.begin) :
              /\ RangeElements(it) = [k \in 1..m |-> Integer(it.begin + (k - 1) * it.step)]
              /\ IsSequence(RangeElements(it)) /\ Len(RangeElements(it)) = m
      BY <3>1, RangeFacts
    <3>3. Count(iters, Sizes, i) = m
      BY <1>0, <2>0, <2>2, <3>2, PlaceForms DEF RangeCount
    <3>4. ElementsOf(i) = RangeElements(it)
      BY <1>0, <2>0, <2>2, ElementsForms
    <3>5. \A n \in 1..m : RangeElements(it)[n] = Integer(it.begin + (n - 1) * it.step)
      BY <3>2, Zenon
    <3>6. \A n \in 1..m : IsElement(RangeElements(it)[n])
      BY <3>5, Elementary
    <3> QED
      BY <3>2, <3>3, <3>4, <3>6
  <2>3. CASE Wraps(it)
    <3>1. PICK c : c = it.of[1] /\ c \in 1..(i - 1) /\ Below(iters, c) \subseteq Below(iters, i)
      BY <1>0, <2>0, <2>3, Inners
    <3>2. c \in 1..N /\ Simple(iters, c)
      BY <3>1, Inherited
    <3>3. PICK s \in Nat : /\ s = Count(iters, Sizes, c)
                           /\ IsSequence(ElementsOf(c)) /\ Len(ElementsOf(c)) = s
                           /\ \A n \in 1..s : IsElement(ElementsOf(c)[n])
      BY Zenon, <1>0, <1>1, <1>2, <3>1, <3>2, CountFacts
    <3>4. CASE it.form = "reversed"
      <4>1. ElementsOf(i) = Reverse(ElementsOf(c)) /\ Count(iters, Sizes, i) = s
        BY <1>0, <2>0, <3>1, <3>3, <3>4, ElementsForms, PlaceForms
      <4>2. PICK e, r : e = ElementsOf(c) /\ r = ElementsOf(i) /\ r = Reverse(e)
        BY <4>1
      <4>3. IsSequence(r) /\ Len(r) = s /\ \A n \in 1..s : r[n] = e[s - n + 1] /\ s - n + 1 \in 1..s
        BY <3>3, <4>2, ReverseFacts
      <4>4. \A n \in 1..s : IsElement(r[n])
        BY <3>3, <4>2, <4>3
      <4> QED
        BY <4>1, <4>2, <4>3, <4>4
    <3>5. CASE it.form = "combined"
      <4>1. PICK d : d = it.of[2] /\ d \in 1..(i - 1) /\ Below(iters, d) \subseteq Below(iters, i)
        BY <1>0, <2>0, <3>5, Inners
      <4>2. d \in 1..N /\ Simple(iters, d)
        BY <4>1, Inherited
      <4>3. PICK t \in Nat : t = Count(iters, Sizes, d) /\ Len(ElementsOf(d)) = t
        BY <1>0, <1>1, <1>2, <4>1, <4>2, CountFacts
      <4>4. Count(iters, Sizes, i) = Smaller(s, t)
        BY SMTT(20), <1>0, <2>0, <3>1, <3>3, <3>5, <4>1, <4>3, PlaceForms
      <4>5. /\ IsSequence(ElementsOf(i)) /\ Len(ElementsOf(i)) = Smaller(s, t)
            /\ \A n \in 1..Smaller(s, t) :
                 ElementsOf(i)[n] = Container("tuple", [j \in 1..2 |-> IF j = 1 THEN ElementsOf(c)[n] ELSE ElementsOf(d)[n]])
        BY <1>0, <2>0, <3>1, <3>3, <3>5, <4>1, <4>3, CombinedElements
      <4>6. \A n \in 1..Smaller(s, t) : IsElement(ElementsOf(i)[n])
        BY Zenon, <4>5, Elementary
      <4> QED
        BY <4>4, <4>5, <4>6
    <3> QED
      BY <2>3, <3>4, <3>5 DEF Wraps
  <2> QED
    BY <1>0, <2>0, <2>1, <2>2, <2>3 DEF Formed, FormedOne
<1>3. \A i \in 1..N : i \in T
  BY <1>2, Upwards
<1> QED
  BY <1>0, <1>1, <1>3

\* The value of an iterator, form by form.
LEMMA GetForms ==
    ASSUME Formed(iters, Sizes, Kinds), NEW i \in 1..Len(iters)
    PROVE  LET it == iters[i]
               subs == heap[it.of[1]].subs
               v == Get(iters, it.of[1])
               w == Get(iters, it.of[2])
           IN /\ OverContainer(it) /\ it.form # "coroutine" /\ ~Stale(it) =>
                    Get(iters, i) = IF it.index \notin 0..(Len(subs) - 1) THEN Stop
                                    ELSE IF it.form = "map" THEN Container("tuple", subs[it.index + 1].subs)
                                    ELSE subs[it.index + 1]
              /\ it.form = "coroutine" =>
                    Get(iters, i) = IF it.index = Len(subs) THEN Stop ELSE subs[it.index + 1]
              /\ it.form = "range" =>
                    Get(iters, i) = IF Between(it.begin, it.end, it.index) THEN Integer(it.index) ELSE Stop
              /\ it.form = "reversed" => Get(iters, i) = v
              /\ it.form = "combined" =>
                    IF ~IsElement(v) THEN Get(iters, i) = v
                    ELSE IF ~IsElement(w) THEN Get(iters, i) = w
                    ELSE Get(iters, i) = Container("tuple", [j \in 1..2 |-> IF j = 1 THEN v ELSE w])
<1>1. PICK it, c, d, subs : it = iters[i] /\ c = it.of[1] /\ d = it.of[2] /\ subs = heap[c].subs
  OBVIOUS
<1>2. PICK inner : /\ inner = [j \in DOMAIN Inner(it) |-> Get(iters, Inner(it)[j])]
                   /\ Get(iters, i) = Value(it, inner)
  BY Zenon, <1>1, GotFacts DEF Formed
<1>3. CASE OverContainer(it)
  <2>1. it.form # "coroutine" /\ ~Stale(it) =>
           Value(it, inner) = IF it.index \notin 0..(Len(subs) - 1) THEN Stop
                              ELSE IF it.form = "map" THEN Container("tuple", subs[it.index + 1].subs)
                              ELSE subs[it.index + 1]
    BY <1>1, <1>3 DEF Value, OverContainer
  <2>2. it.form = "coroutine" => Value(it, inner) = IF it.index = Len(subs) THEN Stop ELSE subs[it.index + 1]
    BY <1>1 DEF Value
  <2> QED
    BY <1>1, <1>2, <1>3, <2>1, <2>2 DEF OverContainer
<1>4. CASE it.form = "range"
  <2>1. Value(it, inner) = IF InRange(it) THEN Integer(it.index) ELSE Stop
    BY <1>4 DEF Value
  <2>2. InRange(it) <=> Between(it.begin, it.end, it.index)
    BY DEF InRange, Between
  <2> QED
    BY <1>1, <1>2, <1>4, <2>1, <2>2 DEF OverContainer
<1>5. CASE it.form = "reversed"
  <2>1. DOMAIN Inner(it) = 1..1 /\ Inner(it)[1] = c
    BY <1>1, <1>5, Inners
  <2>2. inner[1] = Get(iters, c)
    BY <1>2, <2>1
  <2>3. Value(it, inner) = inner[1]
    BY <1>5 DEF Value
  <2> QED
    BY <1>1, <1>2, <1>5, <2>2, <2>3 DEF OverContainer
<1>6. CASE it.form = "combined"
  <2>1. DOMAIN Inner(it) = 1..2 /\ Inner(it)[1] = c /\ Inner(it)[2] = d
    BY <1>1, <1>6, Inners
  <2>2. PICK v, w : v = Get(iters, c) /\ w = Get(iters, d)
    OBVIOUS
  <2>3. inner = [j \in 1..2 |-> IF j = 1 THEN v ELSE w] /\ DOMAIN inner = 1..2 /\ inner[1] = v /\ inner[2] = w
    BY <1>2, <2>1, <2>2
  <2>4. PICK bad : bad = {j \in DOMAIN inner : ~IsElement(inner[j])}
    OBVIOUS
  <2>5. Value(it, inner) = IF bad = {} THEN Container("tuple", inner) ELSE inner[First(bad)]
    BY <1>6, <2>4 DEF Value
  <2>6. (1 \in bad <=> ~IsElement(v)) /\ (2 \in bad <=> ~IsElement(w)) /\ \A j \in bad : j = 1 \/ j = 2
    BY <2>3, <2>4
  <2>7. CASE ~IsElement(v)
    <3>1. First(bad) = 1
      BY <2>6, <2>7 DEF First
    <3> QED
      BY <1>1, <1>2, <1>6, <2>2, <2>3, <2>5, <2>6, <2>7, <3>1 DEF OverContainer
  <2>8. CASE IsElement(v) /\ ~IsElement(w)
    <3>1. bad = {2}
      BY <2>6, <2>8
    <3>2. First(bad) = 2
      BY <3>1 DEF First
    <3> QED
      BY <1>1, <1>2, <1>6, <2>2, <2>3, <2>5, <2>6, <2>8, <3>2 DEF OverContainer
  <2>9. CASE IsElement(v) /\ IsElement(w)
    <3>1. bad = {}
      BY <2>6, <2>9
    <3>2. Get(iters, i) = Container("tuple", [j \in 1..2 |-> IF j = 1 THEN v ELSE w])
      BY <1>2, <2>3, <2>5, <3>1
    <3> QED
      BY <1>1, <1>6, <2>2, <2>9, <3>2 DEF OverContainer
  <2> QED
    BY Zenon, <2>7, <2>8, <2>9
<1> QED
  BY Zenon, <1>1, <1>3, <1>4, <1>5, <1>6 DEF Formed, FormedOne, Wraps

\* An iterator that is not stale gives an element or the stop.
LEMMA GetSound ==
    ASSUME HeapOK, PlainHeap, Formed(iters, Sizes, Kinds)
    PROVE  \A i \in 1..Len(iters) : FreshIn(iters, version, i) => ~IsFailure(Get(iters, i))
<1>0. PICK N \in Nat : N = Len(iters)
  BY SequenceFacts DEF Nested, Formed
<1>1. PICK T : T = {i \in 1..N : FreshIn(iters, version, i) => ~IsFailure(Get(iters, i))}
  OBVIOUS
<1>2. ASSUME NEW i \in 1..N, \A k \in 1..(i - 1) : k \in T
      PROVE  i \in T
  <2> SUFFICES ASSUME FreshIn(iters, version, i)
               PROVE  ~IsFailure(Get(iters, i))
    BY <1>1
  <2>0. PICK it, v : it = iters[i] /\ v = Get(iters, i)
    OBVIOUS
  <2>1. CASE OverContainer(it)
    <3>1. PICK subs : /\ subs = heap[it.of[1]].subs /\ Len(subs) \in Nat
                      /\ it.form # "map" => \A n \in 1..Len(subs) : IsElement(subs[n])
                      /\ it.form = "coroutine" => it.index \in 0..Len(subs)
                      /\ it.index \in Int
      BY Zenon, <1>0, <2>0, <2>1, ContainerFacts
    <3>2. ~Stale(it)
      BY <1>0, <2>0, BelowOlder DEF Formed, FreshIn, StaleIn, Stale
    <3>3. CASE it.form = "coroutine"
      <4>1. v = IF it.index = Len(subs) THEN Stop ELSE subs[it.index + 1]
        BY <1>0, <2>0, <3>1, <3>3, GetForms
      <4>2. it.index # Len(subs) => it.index + 1 \in 1..Len(subs)
        BY <3>1, <3>3
      <4> QED
        BY Zenon, <2>0, <3>1, <3>3, <4>1, <4>2, Elementary
    <3>4. CASE it.form # "coroutine"
      <4>1. v = IF it.index \notin 0..(Len(subs) - 1) THEN Stop
                ELSE IF it.form = "map" THEN Container("tuple", subs[it.index + 1].subs)
                ELSE subs[it.index + 1]
        BY Zenon, <1>0, <2>0, <2>1, <3>1, <3>2, <3>4, GetForms
      <4>2. it.index \in 0..(Len(subs) - 1) => it.index + 1 \in 1..Len(subs)
        BY <3>1
      <4> QED
        BY Zenon, <2>0, <3>1, <4>1, <4>2, Elementary
    <3> QED
      BY <3>3, <3>4
  <2>2. CASE it.form = "range"
    <3>1. v = Integer(it.index) \/ v = Stop
      BY Zenon, <1>0, <2>0, <2>2, GetForms
    <3> QED
      BY <2>0, <3>1, Elementary
  <2>3. CASE Wraps(it)
    <3>1. PICK c : c = it.of[1] /\ c \in 1..(i - 1) /\ Below(iters, c) \subseteq Below(iters, i)
      BY <1>0, <2>0, <2>3, Inners
    <3>2. ~IsFailure(Get(iters, c))
      <4>1. FreshIn(iters, version, c)
        BY <3>1, Inherited
      <4> QED
        BY <1>1, <1>2, <3>1, <4>1
    <3>3. CASE it.form = "reversed"
      <4>1. v = Get(iters, c)
        BY Zenon, <1>0, <2>0, <3>1, <3>3, GetForms
      <4> QED
        BY <2>0, <3>2, <4>1
    <3>4. CASE it.form = "combined"
      <4>1. PICK d : d = it.of[2] /\ d \in 1..(i - 1) /\ Below(iters, d) \subseteq Below(iters, i)
        BY <1>0, <2>0, <3>4, Inners
      <4>2. ~IsFailure(Get(iters, d))
        <5>1. FreshIn(iters, version, d)
          BY Zenon, <4>1, Inherited
        <5> QED
          BY <1>1, <1>2, <4>1, <5>1
      <4>3. v = Get(iters, c) \/ v = Get(iters, d) \/ \E s : v = Container("tuple", s)
        BY Zenon, <1>0, <2>0, <3>1, <3>4, <4>1, GetForms
      <4> QED
        BY <2>0, <3>2, <4>2, <4>3, Elementary
    <3> QED
      BY <2>3, <3>3, <3>4 DEF Wraps
  <2> QED
    BY <1>0, <2>0, <2>1, <2>2, <2>3 DEF Formed, FormedOne
<1>3. \A i \in 1..N : i \in T
  BY <1>2, Upwards
<1> QED
  BY <1>0, <1>1, <1>3

\* One with no elements always gives the stop.
LEMMA GetEmpty ==
    ASSUME HeapOK, PlainHeap, Formed(iters, Sizes, Kinds)
    PROVE  \A i \in 1..Len(iters) :
              Simple(iters, i) /\ FreshIn(iters, version, i) /\ Count(iters, Sizes, i) = 0 => Get(iters, i) = Stop
<1>0. PICK N \in Nat : N = Len(iters)
  BY SequenceFacts DEF Nested, Formed
<1>1. PICK T : T = {i \in 1..N : Simple(iters, i) /\ FreshIn(iters, version, i) /\ Count(iters, Sizes, i) = 0 => Get(iters, i) = Stop}
  OBVIOUS
<1>2. ASSUME NEW i \in 1..N, \A k \in 1..(i - 1) : k \in T
      PROVE  i \in T
  <2> SUFFICES ASSUME Simple(iters, i), FreshIn(iters, version, i), Count(iters, Sizes, i) = 0
               PROVE  Get(iters, i) = Stop
    BY <1>1
  <2>0. PICK it, v : it = iters[i] /\ v = Get(iters, i)
    OBVIOUS
  <2>1. CASE OverContainer(it)
    <3>1. PICK subs : /\ subs = heap[it.of[1]].subs /\ Len(subs) = 0
                      /\ it.form = "coroutine" => it.index \in 0..Len(subs)
      BY Zenon, <1>0, <2>0, <2>1, ContainerFacts
    <3>2. ~Stale(it)
      BY <1>0, <2>0, BelowOlder DEF Formed, FreshIn, StaleIn, Stale
    <3>3. CASE it.form = "coroutine"
      <4>1. v = IF it.index = Len(subs) THEN Stop ELSE subs[it.index + 1]
        BY Zenon, <1>0, <2>0, <3>1, <3>3, GetForms
      <4> QED
        BY <2>0, <3>1, <3>3, <4>1
    <3>4. CASE it.form # "coroutine"
      <4>1. v = IF it.index \notin 0..(Len(subs) - 1) THEN Stop
                ELSE IF it.form = "map" THEN Container("tuple", subs[it.index + 1].subs)
                ELSE subs[it.index + 1]
        BY Zenon, <1>0, <2>0, <2>1, <3>1, <3>2, <3>4, GetForms
      <4>2. 0..(Len(subs) - 1) = {}
        BY <3>1
      <4> QED
        BY <2>0, <4>1, <4>2
    <3> QED
      BY <3>3, <3>4
  <2>2. CASE it.form = "range"
    <3>1. RangeFormed(it) /\ it.step # 0
      BY <1>0, <2>0, <2>2, BelowOlder DEF Formed, FormedOne, Simple
    <3>2. Len(RangeElements(it)) = 0
      BY <1>0, <2>0, <2>2, PlaceForms DEF RangeCount
    <3>3. Between(it.begin, it.end, it.begin + 0 * it.step) <=> 0 \in 0..(0 - 1)
      BY <3>1, <3>2, RangeFacts
    <3>4. it.begin + 0 * it.step = it.begin
      BY <3>1 DEF RangeFormed
    <3>5. ~Between(it.begin, it.end, it.begin)
      BY <3>3, <3>4
    <3>6. it.begin = it.end
      BY <3>1, <3>5 DEF RangeFormed, Between
    <3>7. it.index \in Int
      BY <1>0, <2>0 DEF Formed, FormedOne
    <3>8. ~Between(it.begin, it.end, it.index)
      BY <3>1, <3>6, <3>7 DEF RangeFormed, Between
    <3> QED
      BY Zenon, <1>0, <2>0, <2>2, <3>8, GetForms
  <2>3. CASE Wraps(it)
    <3>1. PICK c : c = it.of[1] /\ c \in 1..(i - 1) /\ Below(iters, c) \subseteq Below(iters, i)
      BY <1>0, <2>0, <2>3, Inners
    <3>2. Simple(iters, c) /\ FreshIn(iters, version, c)
      BY <3>1, Inherited
    <3>3. Count(iters, Sizes, c) = 0 => Get(iters, c) = Stop
      BY <1>1, <1>2, <3>1, <3>2
    <3>4. CASE it.form = "reversed"
      <4>0. Count(iters, Sizes, c) = 0
        BY <1>0, <2>0, <3>1, <3>4, PlaceForms
      <4>1. v = Get(iters, c) /\ Count(iters, Sizes, c) = 0
        BY Zenon, <1>0, <2>0, <3>1, <3>4, <4>0, GetForms
      <4> QED
        BY <2>0, <3>3, <4>1
    <3>5. CASE it.form = "combined"
      <4>1. PICK d : d = it.of[2] /\ d \in 1..(i - 1) /\ Below(iters, d) \subseteq Below(iters, i)
        BY <1>0, <2>0, <3>5, Inners
      <4>2. Simple(iters, d) /\ FreshIn(iters, version, d)
        BY <4>1, Inherited
      <4>3. Count(iters, Sizes, d) = 0 => Get(iters, d) = Stop
        BY <1>1, <1>2, <4>1, <4>2
      <4>4. Count(iters, Sizes, c) = 0 \/ Count(iters, Sizes, d) = 0
        <5>1. Smaller(Count(iters, Sizes, c), Count(iters, Sizes, d)) = 0
          BY <1>0, <2>0, <3>1, <3>5, <4>1, PlaceForms
        <5> QED
          BY <5>1 DEF Smaller
      <4>5. ~IsFailure(Get(iters, c)) /\ ~IsFailure(Get(iters, d))
        BY <1>0, <3>1, <3>2, <4>1, <4>2, GetSound
      <4>6. IF ~IsElement(Get(iters, c)) THEN v = Get(iters, c)
            ELSE ~IsElement(Get(iters, d)) => v = Get(iters, d)
        BY Zenon, <1>0, <2>0, <3>1, <3>5, <4>1, GetForms
      <4> QED
        BY <2>0, <3>3, <4>3, <4>4, <4>5, <4>6, Elementary
    <3> QED
      BY <2>3, <3>4, <3>5 DEF Wraps
  <2> QED
    BY <1>0, <2>0, <2>1, <2>2, <2>3 DEF Formed, FormedOne
<1>3. \A i \in 1..N : i \in T
  BY <1>2, Upwards
<1> QED
  BY <1>0, <1>1, <1>3

\* An iterator gives the element of the place where it stands.
LEMMA GetThere ==
    ASSUME HeapOK, PlainHeap, Formed(iters, Sizes, Kinds)
    PROVE  \A i \in 1..Len(iters) :
              Simple(iters, i) /\ FreshIn(iters, version, i) /\ OrderlyIn(iters, i) =>
                 \A p \in Spots(iters, Sizes, i) :
                    p >= 0 \/ ReversibleIn(iters, i) =>
                       Get(iters, i) = IF p \in 0..(Count(iters, Sizes, i) - 1) THEN ElementsOf(i)[p + 1] ELSE Stop
<1>0. PICK N \in Nat : N = Len(iters)
  BY SequenceFacts DEF Nested, Formed
<1>1. PICK T : T = {i \in 1..N : Simple(iters, i) /\ FreshIn(iters, version, i) /\ OrderlyIn(iters, i) =>
                 \A p \in Spots(iters, Sizes, i) :
                    p >= 0 \/ ReversibleIn(iters, i) =>
                       Get(iters, i) = IF p \in 0..(Count(iters, Sizes, i) - 1) THEN ElementsOf(i)[p + 1] ELSE Stop}
  OBVIOUS
<1>2. ASSUME NEW i \in 1..N, \A k \in 1..(i - 1) : k \in T
      PROVE  i \in T
  <2> SUFFICES ASSUME Simple(iters, i), FreshIn(iters, version, i), OrderlyIn(iters, i),
                      NEW p \in Spots(iters, Sizes, i), p >= 0 \/ ReversibleIn(iters, i)
               PROVE  Get(iters, i) = IF p \in 0..(Count(iters, Sizes, i) - 1) THEN ElementsOf(i)[p + 1] ELSE Stop
    BY <1>1
  <2>0. PICK it, v : it = iters[i] /\ v = Get(iters, i) /\ i \in Below(iters, i)
    BY <1>0, BelowOlder DEF Formed
  <2>1. CASE OverContainer(it)
    <3>1. PICK subs : /\ subs = heap[it.of[1]].subs /\ Len(subs) \in Nat /\ DOMAIN subs = 1..Len(subs)
                      /\ Count(iters, Sizes, i) = Len(subs)
                      /\ it.form = "coroutine" => it.index \in 0..Len(subs)
      BY Zenon, <1>0, <2>0, <2>1, ContainerFacts
    <3>2. ~Stale(it)
      BY <2>0 DEF FreshIn, StaleIn, Stale
    <3>3. p \in Int /\ it.index = p
      BY <1>0, <2>0, <2>1, PlaceForms
    <3>4. ElementsOf(i) = IF it.form = "map" THEN [n \in DOMAIN subs |-> Container("tuple", subs[n].subs)] ELSE subs
      BY Zenon, <1>0, <2>0, <2>1, <3>1, ElementsForms
    <3>5. CASE it.form = "coroutine"
      <4>1. v = IF it.index = Len(subs) THEN Stop ELSE subs[it.index + 1]
        BY Zenon, <1>0, <2>0, <3>1, <3>5, GetForms
      <4> QED
        BY <2>0, <3>1, <3>3, <3>4, <3>5, <4>1
    <3>6. CASE it.form # "coroutine"
      <4>1. v = IF it.index \notin 0..(Len(subs) - 1) THEN Stop
                ELSE IF it.form = "map" THEN Container("tuple", subs[it.index + 1].subs)
                ELSE subs[it.index + 1]
        BY Zenon, <1>0, <2>0, <2>1, <3>1, <3>2, <3>6, GetForms
      <4>2. p \in 0..(Len(subs) - 1) => p + 1 \in DOMAIN subs
        BY <3>1, <3>3
      <4>3. CASE it.form = "map"
        <5>1. ElementsOf(i) = [n \in DOMAIN subs |-> Container("tuple", subs[n].subs)]
          BY <3>4, <4>3
        <5>2. p \in 0..(Len(subs) - 1) => ElementsOf(i)[p + 1] = Container("tuple", subs[p + 1].subs)
          BY Zenon, <4>2, <5>1
        <5>3. v = IF p \notin 0..(Len(subs) - 1) THEN Stop ELSE Container("tuple", subs[p + 1].subs)
          BY <3>3, <4>1, <4>3
        <5> QED
          BY Zenon, <2>0, <3>1, <5>2, <5>3
      <4>4. CASE it.form # "map"
        <5>1. ElementsOf(i) = subs
          BY <3>4, <4>4
        <5>2. v = IF p \notin 0..(Len(subs) - 1) THEN Stop ELSE subs[p + 1]
          BY <3>3, <4>1, <4>4
        <5> QED
          BY Zenon, <2>0, <3>1, <5>1, <5>2
      <4> QED
        BY <4>3, <4>4
    <3> QED
      BY <3>5, <3>6
  <2>2. CASE it.form = "range"
    <3>1. RangeFormed(it) /\ it.step # 0
      BY <1>0, <2>0, <2>2 DEF Formed, FormedOne, Simple
    <3>2. p \in Int /\ it.index = it.begin + p * it.step
      BY <1>0, <2>0, <2>2, PlaceForms
    <3>3. p >= 0 \/ Along(it.begin, it.end, it.step)
      BY <2>0, <2>2 DEF ReversibleIn
    <3>4. PICK m \in 0..Abs(it.end - it.begin) :
              /\ RangeElements(it) = [k \in 1..m |-> Integer(it.begin + (k - 1) * it.step)]
              /\ Len(RangeElements(it)) = m
              /\ (Between(it.begin, it.end, it.begin + p * it.step) <=> p \in 0..(m - 1))
      BY <3>1, <3>2, <3>3, RangeFacts
    <3>5. Count(iters, Sizes, i) = m /\ ElementsOf(i) = RangeElements(it)
      BY <1>0, <2>0, <2>2, <3>4, PlaceForms, ElementsForms DEF RangeCount
    <3>6. v = IF Between(it.begin, it.end, it.index) THEN Integer(it.index) ELSE Stop
      BY Zenon, <1>0, <2>0, <2>2, GetForms
    <3>7. v = IF p \in 0..(m - 1) THEN Integer(it.index) ELSE Stop
      BY <3>2, <3>4, <3>6
    <3>8. ASSUME p \in 0..(m - 1)
          PROVE  RangeElements(it)[p + 1] = Integer(it.index)
      <4>1. p + 1 \in 1..m /\ (p + 1) - 1 = p
        BY <3>2, <3>8
      <4>2. RangeElements(it)[p + 1] = Integer(it.begin + ((p + 1) - 1) * it.step)
        BY <3>4, <4>1, Zenon
      <4> QED
        BY <3>2, <4>1, <4>2
    <3> QED
      BY <2>0, <3>5, <3>7, <3>8
  <2>3. CASE Wraps(it)
    <3>1. PICK c : c = it.of[1] /\ c \in 1..(i - 1) /\ Below(iters, c) \subseteq Below(iters, i)
      BY <1>0, <2>0, <2>3, Inners
    <3>2. Simple(iters, c) /\ FreshIn(iters, version, c) /\ OrderlyIn(iters, c) /\ c \in 1..N
      <4>1. c \in 1..N
        BY <3>1
      <4>2. Simple(iters, c) /\ FreshIn(iters, version, c) /\ OrderlyIn(iters, c)
        BY Zenon, <3>1, Inherited
      <4> QED
        BY <4>1, <4>2
    <3>3. PICK s \in Nat : s = Count(iters, Sizes, c)
      BY <1>0, <3>2, CountFacts
    <3>4. PICK e : e = ElementsOf(c) /\ IsSequence(e) /\ Len(e) = s /\ \A n \in 1..s : IsElement(e[n])
      BY <1>0, <3>2, <3>3, ElementsCounted
    <3>5. \A q \in Spots(iters, Sizes, c) :
             q >= 0 \/ ReversibleIn(iters, c) =>
                Get(iters, c) = IF q \in 0..(s - 1) THEN e[q + 1] ELSE Stop
      BY Zenon, <1>1, <1>2, <3>1, <3>2, <3>3, <3>4
    <3>6. CASE it.form = "reversed"
      <4>0. v = Get(iters, c) /\ ElementsOf(i) = Reverse(e)
        <5>1. v = Get(iters, c)
          BY Zenon, <1>0, <2>0, <3>1, <3>6, GetForms
        <5>2. ElementsOf(i) = Reverse(e)
          BY <1>0, <2>0, <3>1, <3>4, <3>6, ElementsForms
        <5> QED
          BY <5>1, <5>2
      <4>1. /\ v = Get(iters, c) /\ Count(iters, Sizes, i) = s
            /\ p \in Int /\ s - 1 - p \in Spots(iters, Sizes, c)
            /\ ElementsOf(i) = Reverse(e)
        BY <1>0, <2>0, <3>1, <3>3, <3>6, <4>0, PlaceForms
      <4>2. ReversibleIn(iters, c)
        BY <2>0, <3>1, <3>6, Inherited DEF OrderlyIn
      <4>3. PICK q \in Int : q = s - 1 - p
        BY <4>1
      <4>4. v = IF q \in 0..(s - 1) THEN e[q + 1] ELSE Stop
        BY <3>5, <4>1, <4>2, <4>3
      <4>5. q \in 0..(s - 1) <=> p \in 0..(s - 1)
        BY <4>1, <4>3
      <4>6. ASSUME p \in 0..(s - 1)
            PROVE  Reverse(e)[p + 1] = e[q + 1]
        <5>1. p + 1 \in 1..s /\ s - (p + 1) + 1 = q + 1
          BY <4>1, <4>3, <4>6
        <5>2. Reverse(e)[p + 1] = e[s - (p + 1) + 1]
          BY <3>4, <5>1, ReverseFacts
        <5> QED
          BY <5>1, <5>2
      <4> QED
        BY <2>0, <4>1, <4>4, <4>5, <4>6
    <3>7. CASE it.form = "combined"
      <4>1. PICK d : d = it.of[2] /\ d \in 1..(i - 1) /\ Below(iters, d) \subseteq Below(iters, i)
        BY <1>0, <2>0, <3>7, Inners
      <4>2. Simple(iters, d) /\ FreshIn(iters, version, d) /\ OrderlyIn(iters, d) /\ d \in 1..N
        BY <4>1, Inherited
      <4>3. PICK t \in Nat : t = Count(iters, Sizes, d)
        BY <1>0, <4>2, CountFacts
      <4>4. PICK f : f = ElementsOf(d) /\ IsSequence(f) /\ Len(f) = t /\ \A n \in 1..t : IsElement(f[n])
        BY <1>0, <4>2, <4>3, ElementsCounted
      <4>5. \A q \in Spots(iters, Sizes, d) :
               q >= 0 \/ ReversibleIn(iters, d) =>
                  Get(iters, d) = IF q \in 0..(t - 1) THEN f[q + 1] ELSE Stop
        BY Zenon, <1>1, <1>2, <4>1, <4>2, <4>3, <4>4
      <4>6. /\ Count(iters, Sizes, i) = Smaller(s, t) /\ p \in Int
            /\ p \in Spots(iters, Sizes, c) /\ p \in Spots(iters, Sizes, d)
        BY <1>0, <2>0, <3>1, <3>3, <3>7, <4>1, <4>3, PlaceForms
      <4>7. /\ p >= 0 \/ ReversibleIn(iters, c)
            /\ p >= 0 \/ ReversibleIn(iters, d)
        BY <3>1, <4>1, Inherited
      <4>8. PICK x, y : /\ x = Get(iters, c) /\ y = Get(iters, d)
                        /\ x = IF p \in 0..(s - 1) THEN e[p + 1] ELSE Stop
                        /\ y = IF p \in 0..(t - 1) THEN f[p + 1] ELSE Stop
        BY <3>5, <4>5, <4>6, <4>7
      <4>9. IF ~IsElement(x) THEN v = x
            ELSE IF ~IsElement(y) THEN v = y
            ELSE v = Container("tuple", [j \in 1..2 |-> IF j = 1 THEN x ELSE y])
        BY Zenon, <1>0, <2>0, <3>1, <3>7, <4>1, <4>8, GetForms
      <4>10. /\ IsElement(x) <=> p \in 0..(s - 1)
             /\ IsElement(y) <=> p \in 0..(t - 1)
        <5>1. p \in 0..(s - 1) => p + 1 \in 1..s
          BY <4>6
        <5>2. p \in 0..(t - 1) => p + 1 \in 1..t
          BY <4>6
        <5> QED
          BY <3>4, <4>4, <4>8, <5>1, <5>2, Elementary
      <4>11. p \in 0..(Smaller(s, t) - 1) <=> p \in 0..(s - 1) /\ p \in 0..(t - 1)
        BY <4>6 DEF Smaller
      <4>12. CASE p \in 0..(Smaller(s, t) - 1)
        <5>1. v = Container("tuple", [j \in 1..2 |-> IF j = 1 THEN x ELSE y])
          BY <4>9, <4>10, <4>11, <4>12
        <5>2. x = e[p + 1] /\ y = f[p + 1]
          BY <4>8, <4>11, <4>12
        <5>3. p + 1 \in 1..Smaller(s, t)
          BY <4>6, <4>12 DEF Smaller
        <5>4. ElementsOf(i)[p + 1] = Container("tuple", [j \in 1..2 |-> IF j = 1 THEN e[p + 1] ELSE f[p + 1]])
          BY SMTT(20), <1>0, <2>0, <3>1, <3>3, <3>4, <3>7, <4>1, <4>3, <4>4, <5>3, CombinedElements
        <5> QED
          BY <2>0, <4>6, <4>12, <5>1, <5>2, <5>4
      <4>13. CASE p \notin 0..(Smaller(s, t) - 1)
        <5>1. v = Stop
          BY <4>8, <4>9, <4>10, <4>11, <4>13
        <5> QED
          BY <2>0, <4>6, <4>13, <5>1
      <4> QED
        BY <4>12, <4>13
    <3> QED
      BY <2>3, <3>6, <3>7 DEF Wraps
  <2> QED
    BY <1>0, <2>0, <2>1, <2>2, <2>3 DEF Formed, FormedOne
<1>3. \A i \in 1..N : i \in T
  BY <1>2, Upwards
<1> QED
  BY <1>0, <1>1, <1>3

\* size tells how many elements there are, unless one is a coroutine's.
LEMMA SizeThere ==
    ASSUME HeapOK, PlainHeap, Formed(iters, Sizes, Kinds)
    PROVE  \A i \in 1..Len(iters) :
              Simple(iters, i) /\ (\A j \in Below(iters, i) : iters[j].form # "coroutine") =>
                 IterSize(iters, i) = Integer(Count(iters, Sizes, i))
<1>0. PICK N \in Nat : N = Len(iters) /\ Nested(iters)
  BY SequenceFacts DEF Nested, Formed
<1>1. PICK T : T = {i \in 1..N : Simple(iters, i) /\ (\A j \in Below(iters, i) : iters[j].form # "coroutine") =>
                 IterSize(iters, i) = Integer(Count(iters, Sizes, i))}
  OBVIOUS
<1>2. ASSUME NEW i \in 1..N, \A k \in 1..(i - 1) : k \in T
      PROVE  i \in T
  <2> SUFFICES ASSUME Simple(iters, i), \A j \in Below(iters, i) : iters[j].form # "coroutine"
               PROVE  IterSize(iters, i) = Integer(Count(iters, Sizes, i))
    BY <1>1
  <2>0. PICK it : it = iters[i] /\ it.form # "coroutine" /\ i \in Below(iters, i)
    BY <1>0, BelowOlder
  <2>00. PICK inner, z : /\ inner = [j \in DOMAIN Inner(it) |-> IterSize(iters, Inner(it)[j])]
                         /\ z = IterSize(iters, i) /\ z = Size(it, inner)
    BY Zenon, <1>0, <2>0, SizesFacts
  <2>1. CASE OverContainer(it)
    <3>1. PICK subs : subs = heap[it.of[1]].subs /\ Count(iters, Sizes, i) = Len(subs)
      BY Zenon, <1>0, <2>0, <2>1, ContainerFacts
    <3>2. Size(it, inner) = Integer(Len(subs))
      BY <2>0, <2>1, <3>1 DEF Size, OverContainer
    <3> QED
      BY <2>00, <3>1, <3>2
  <2>2. CASE it.form = "range"
    <3>1. RangeFormed(it) /\ it.step # 0
      BY <1>0, <2>0, <2>2 DEF Formed, FormedOne, Simple
    <3>2. RangeSize(it) = Integer(RangeCount(it))
      BY <3>1, RangeFacts DEF RangeCount
    <3>3. Size(it, inner) = RangeSize(it)
      BY <2>2 DEF Size
    <3>4. Count(iters, Sizes, i) = RangeCount(it)
      BY <1>0, <2>0, <2>2, PlaceForms
    <3> QED
      BY <2>00, <3>2, <3>3, <3>4
  <2>3. CASE Wraps(it)
    <3>1. PICK c : c = it.of[1] /\ c \in 1..(i - 1) /\ Below(iters, c) \subseteq Below(iters, i)
      BY <1>0, <2>0, <2>3, Inners
    <3>2. Simple(iters, c)
      BY Zenon, <3>1, Inherited
    <3>3. PICK s \in Nat : s = Count(iters, Sizes, c) /\ Holds(s)
      BY <1>0, <3>1, <3>2, CountFacts
    <3>4. IterSize(iters, c) = Integer(s)
      BY <1>1, <1>2, <3>1, <3>2, <3>3
    <3>5. CASE it.form = "reversed"
      <4>1. DOMAIN Inner(it) = 1..1 /\ Inner(it)[1] = c
        BY <1>0, <2>0, <3>1, <3>5, Inners
      <4>2. Size(it, inner) = inner[1]
        BY <3>5 DEF Size
      <4>3. inner[1] = IterSize(iters, c)
        BY <2>00, <4>1
      <4>4. Count(iters, Sizes, i) = s
        BY <1>0, <2>0, <3>1, <3>3, <3>5, PlaceForms
      <4> QED
        BY <2>00, <3>4, <4>2, <4>3, <4>4
    <3>6. CASE it.form = "combined"
      <4>1. PICK d : d = it.of[2] /\ d \in 1..(i - 1) /\ Below(iters, d) \subseteq Below(iters, i)
        BY <1>0, <2>0, <3>6, Inners
      <4>2. Simple(iters, d)
        BY <4>1, Inherited
      <4>3. PICK t \in Nat : t = Count(iters, Sizes, d) /\ Holds(t)
        BY <1>0, <4>1, <4>2, CountFacts
      <4>4. IterSize(iters, d) = Integer(t)
        BY <1>1, <1>2, <4>1, <4>2, <4>3
      <4>5. DOMAIN Inner(it) = 1..2 /\ Inner(it)[1] = c /\ Inner(it)[2] = d
        BY <1>0, <2>0, <3>1, <3>6, <4>1, Inners
      <4>6. PICK x, y : /\ x = Integer(s) /\ y = Integer(t)
                        /\ inner[1] = x /\ inner[2] = y /\ DOMAIN inner = 1..2
        BY <2>00, <3>4, <4>4, <4>5
      <4>7. x.n = s /\ y.n = t /\ x.k = "int" /\ y.k = "int"
        <5>1. Integer(s) = Scalar("int", s) /\ Integer(t) = Scalar("int", t)
          BY <3>3, <4>3 DEF Holds
        <5> QED
          BY <4>6, <5>1, ScalarFields
      <4>8. PICK sizes : sizes = {inner[j] : j \in DOMAIN inner} /\ sizes = {x, y}
        <5>1. 1 \in 1..2 /\ 2 \in 1..2 /\ \A j \in 1..2 : j = 1 \/ j = 2
          OBVIOUS
        <5>2. \A j \in DOMAIN inner : inner[j] \in {x, y}
          BY <4>6, <5>1
        <5>3. x \in {inner[j] : j \in DOMAIN inner} /\ y \in {inner[j] : j \in DOMAIN inner}
          BY <4>6, <5>1
        <5> QED
          BY Zenon, <5>2, <5>3
      <4>9. Crash \notin sizes
        <5>1. Crash.k = "crash"
          BY DEF Crash, Raise, Scalar, Object
        <5> QED
          BY <4>7, <4>8, <5>1
      <4>10. it.of # <<>>
        <5>1. Len(it.of) = 2
          BY <1>0, <2>0, <3>6 DEF Formed, FormedOne
        <5> QED
          BY <5>1
      <4>11. z = CHOOSE r \in sizes : \A u \in sizes : r.n <= u.n
        <5>1. Size(it, inner) = IF it.of = <<>> THEN Integer(0)
                                ELSE IF Crash \in sizes THEN Crash
                                ELSE CHOOSE r \in sizes : \A u \in sizes : r.n <= u.n
          BY <3>6, <4>8 DEF Size
        <5> QED
          BY <2>00, <4>9, <4>10, <5>1
      <4>12. z \in sizes /\ \A u \in sizes : z.n <= u.n
        <5>1. \E r \in sizes : \A u \in sizes : r.n <= u.n
          <6>1. x \in sizes /\ y \in sizes /\ \A u \in sizes : u = x \/ u = y
            BY <4>8
          <6>2. CASE s <= t
            <7>1. \A u \in sizes : x.n <= u.n
              BY <4>7, <6>1, <6>2
            <7> QED
              BY <6>1, <7>1
          <6>3. CASE t <= s
            <7>1. \A u \in sizes : y.n <= u.n
              BY <4>7, <6>1, <6>3
            <7> QED
              BY <6>1, <7>1
          <6> QED
            BY <6>2, <6>3
        <5> QED
          BY <4>11, <5>1
      <4>13. z = Integer(Smaller(s, t))
        <5>1. z = x \/ z = y
          BY <4>8, <4>12
        <5>2. z.n <= s /\ z.n <= t
          BY <4>7, <4>8, <4>12
        <5>3. z = x => Smaller(s, t) = s
          BY <4>7, <5>2 DEF Smaller
        <5>4. z = y => Smaller(s, t) = t
          BY <4>7, <5>2 DEF Smaller
        <5> QED
          BY <4>6, <5>1, <5>3, <5>4
      <4>14. Count(iters, Sizes, i) = Smaller(s, t)
        BY <1>0, <2>0, <3>1, <3>3, <3>6, <4>1, <4>3, PlaceForms
      <4> QED
        BY <2>00, <4>13, <4>14
    <3> QED
      BY <2>3, <3>5, <3>6 DEF Wraps
  <2> QED
    BY <1>0, <2>0, <2>1, <2>2, <2>3 DEF Formed, FormedOne
<1>3. \A i \in 1..N : i \in T
  BY <1>2, Upwards
<1> QED
  BY <1>0, <1>1, <1>3

-----------------------------------------------------------------------------
(* What moves move *)

LEMMA FlattenPair ==
    ASSUME NEW s, IsSequence(s), Len(s) = 2
    PROVE  FlattenSeq(s) = s[1] \o s[2]
<1>0. PICK n \in Nat : n = Len(s) /\ n = 2
  OBVIOUS
<1>9. PICK g : IsFlat(s, Len(s), g)
  BY <1>0, FlatExists
<1>1. PICK f : IsFlat(s, n, f) /\ FlattenSeq(s) = f[n]
  <2>1. \E f : IsFlat(s, Len(s), f) /\ FlattenSeq(s) = f[Len(s)]
    <3>1. Len(s) # 0
      BY <1>0
    <3> QED
      BY <1>9, <3>1, FlattenIs, Zenon
  <2> QED
    BY <1>0, <2>1
<1>2. \A i \in 1..2 : f[i] = IF i = 1 THEN s[i] ELSE f[i - 1] \o s[i]
  BY <1>0, <1>1, Zenon DEF IsFlat
<1>3. f[1] = s[1]
  BY <1>2
<1>4. f[2] = f[1] \o s[2]
  BY <1>2
<1> QED
  BY <1>0, <1>1, <1>3, <1>4

IsMove(m) == m = [at |-> m.at, by |-> m.by]

LEMMA BackwardsFacts ==
    ASSUME NEW s, IsSequence(s), NEW k \in 1..Len(s), IsMove(s[k])
    PROVE  /\ Len(Backwards(s)) = Len(s) /\ IsMove(Backwards(s)[k])
           /\ Backwards(s)[k].at = s[k].at /\ Backwards(s)[k].by = -(s[k].by)
<1>1. PICK n \in Nat : n = Len(s) /\ DOMAIN s = 1..n
  BY SequenceFacts
<1>2. PICK b : b = Backwards(s)
  OBVIOUS
<1>3. b = [j \in 1..n |-> [s[j] EXCEPT !.by = -@]]
  BY <1>1, <1>2 DEF Backwards
<1>4. b = [j \in 1..n |-> b[j]]
  BY <1>3
<1>5. Len(b) = n
  BY <1>4, FunctionIsSequence
<1>6. PICK a, y : s[k] = [at |-> a, by |-> y]
  BY Zenon DEF IsMove
<1>7. b[k] = [s[k] EXCEPT !.by = -@]
  BY <1>1, <1>3
<1>8. b[k] = [at |-> a, by |-> -y]
  BY <1>6, <1>7
<1> QED
  BY <1>1, <1>2, <1>5, <1>6, <1>8 DEF IsMove

LEMMA MovesForms ==
    ASSUME NEW its, NEW sizes, NEW kinds, Formed(its, sizes, kinds), NEW i \in 1..Len(its)
    PROVE  /\ ~Wraps(its[i]) => Moves(its, i) = <<[at |-> i, by |-> 1]>>
           /\ its[i].form = "reversed" => Moves(its, i) = Backwards(Moves(its, its[i].of[1]))
           /\ its[i].form = "combined" =>
                 Moves(its, i) = Moves(its, its[i].of[1]) \o Moves(its, its[i].of[2])
<1>1. PICK it, c, d : it = its[i] /\ c = it.of[1] /\ d = it.of[2]
  OBVIOUS
<1>2. PICK inner : /\ inner = [j \in DOMAIN Inner(it) |-> Moves(its, Inner(it)[j])]
                   /\ Moves(its, i) = MovesOf(it, i, inner)
  BY Zenon, <1>1, MovesFacts DEF Formed
<1>3. CASE ~Wraps(it)
  <2>1. MovesOf(it, i, inner) = <<[at |-> i, by |-> 1]>>
    BY <1>3 DEF MovesOf, Wraps
  <2> QED
    BY <1>1, <1>2, <1>3, <2>1 DEF Wraps
<1>4. CASE it.form = "reversed"
  <2>1. DOMAIN Inner(it) = 1..1 /\ Inner(it)[1] = c
    BY <1>1, <1>4, Inners
  <2>2. inner[1] = Moves(its, c)
    BY <1>2, <2>1
  <2>3. MovesOf(it, i, inner) = Backwards(inner[1])
    BY <1>4 DEF MovesOf
  <2> QED
    BY <1>1, <1>2, <1>4, <2>2, <2>3 DEF Wraps
<1>5. CASE it.form = "combined"
  <2>1. DOMAIN Inner(it) = 1..2 /\ Inner(it)[1] = c /\ Inner(it)[2] = d
    BY <1>1, <1>5, Inners
  <2>2. inner[1] = Moves(its, c) /\ inner[2] = Moves(its, d)
    BY <1>2, <2>1
  <2>3. inner = [j \in 1..2 |-> inner[j]]
    BY <1>2, <2>1
  <2>4. IsSequence(inner) /\ Len(inner) = 2
    BY Zenon, <2>3, FunctionIsSequence
  <2>5. MovesOf(it, i, inner) = FlattenSeq(inner)
    BY <1>5 DEF MovesOf
  <2>6. FlattenSeq(inner) = inner[1] \o inner[2]
    BY Zenon, <2>4, FlattenPair
  <2> QED
    BY Zenon, <1>1, <1>2, <1>5, <2>2, <2>5, <2>6 DEF Wraps
<1> QED
  BY <1>1, <1>3, <1>4, <1>5 DEF Wraps

\* A move moves only iterators below, and if these are apart, each once.
MovesBelow(its, i) ==
    \A k \in 1..Len(Moves(its, i)) :
        LET m == Moves(its, i)[k]
        IN /\ IsMove(m) /\ m.by \in {1, -1}
           /\ m.at \in Below(its, i) /\ ~Wraps(its[m.at])
MovesOnce(its, i) ==
    \A k, l \in 1..Len(Moves(its, i)) : k # l => Moves(its, i)[k].at # Moves(its, i)[l].at

LEMMA MovesOrdered ==
    ASSUME NEW its, NEW sizes, NEW kinds, Formed(its, sizes, kinds)
    PROVE  \A i \in 1..Len(its) : MovesBelow(its, i) /\ (Simple(its, i) => MovesOnce(its, i))
<1>0. PICK N \in Nat : N = Len(its) /\ Nested(its)
  BY SequenceFacts DEF Nested, Formed
<1>1. PICK T : T = {i \in 1..N : MovesBelow(its, i) /\ (Simple(its, i) => MovesOnce(its, i))}
  OBVIOUS
<1>2. ASSUME NEW i \in 1..N, \A k \in 1..(i - 1) : k \in T
      PROVE  i \in T
  <2> SUFFICES MovesBelow(its, i) /\ (Simple(its, i) => MovesOnce(its, i))
    BY <1>1
  <2>0. PICK it, m : it = its[i] /\ m = Moves(its, i) /\ i \in Below(its, i)
    BY <1>0, BelowOlder
  <2>1. CASE ~Wraps(it)
    <3>1. m = <<[at |-> i, by |-> 1]>>
      BY <1>0, <2>0, <2>1, MovesForms
    <3>2. Len(m) = 1 /\ m[1] = [at |-> i, by |-> 1]
      BY <3>1, OneElement
    <3> QED
      BY <2>0, <2>1, <3>2 DEF MovesBelow, MovesOnce, IsMove
  <2>2. CASE Wraps(it)
    <3>1. PICK c, s : c = it.of[1] /\ c \in 1..(i - 1) /\ Below(its, c) \subseteq Below(its, i) /\ s = Moves(its, c)
      BY <1>0, <2>0, <2>2, Inners
    <3>2. /\ MovesBelow(its, c) /\ (Simple(its, i) => MovesOnce(its, c))
          /\ IsSequence(s) /\ Len(s) \in Nat
      BY Zenon, <1>0, <1>1, <1>2, <3>1, Inherited, MovesSequence, SequenceFacts
    <3>3. CASE it.form = "reversed"
      <4>1. m = Backwards(s)
        BY <1>0, <2>0, <3>1, <3>3, MovesForms
      <4>2. \A k \in 1..Len(s) : IsMove(s[k]) /\ s[k].by \in {1, -1} /\ s[k].at \in Below(its, c) /\ ~Wraps(its[s[k].at])
        BY <3>1, <3>2 DEF MovesBelow
      <4>3. \A k \in 1..Len(s) : IsMove(m[k]) /\ m[k].at = s[k].at /\ m[k].by = -(s[k].by) /\ Len(m) = Len(s)
        BY <3>2, <4>1, <4>2, BackwardsFacts
      <4>4. Len(m) = Len(s)
        <5>1. DOMAIN s = 1..Len(s)
          BY <3>2, SequenceFacts
        <5>2. m = [k \in 1..Len(s) |-> m[k]]
          BY <4>1, <5>1 DEF Backwards
        <5> QED
          BY <3>2, <5>2, FunctionIsSequence
      <4>5. MovesBelow(its, i)
        BY <2>0, <3>1, <4>2, <4>3, <4>4 DEF MovesBelow
      <4>6. Simple(its, i) => MovesOnce(its, i)
        BY <2>0, <3>1, <3>2, <4>3, <4>4 DEF MovesOnce
      <4> QED
        BY <4>5, <4>6
    <3>4. CASE it.form = "combined"
      <4>1. PICK d, t : d = it.of[2] /\ d \in 1..(i - 1) /\ Below(its, d) \subseteq Below(its, i) /\ t = Moves(its, d)
        BY <1>0, <2>0, <3>4, Inners
      <4>2. /\ MovesBelow(its, d) /\ (Simple(its, i) => MovesOnce(its, d))
            /\ IsSequence(t) /\ Len(t) \in Nat
        BY Zenon, <1>0, <1>1, <1>2, <4>1, Inherited, MovesSequence, SequenceFacts
      <4>3. m = s \o t
        BY Zenon, <1>0, <2>0, <3>1, <3>4, <4>1, MovesForms
      <4>4. /\ Len(m) = Len(s) + Len(t) /\ \A k \in 1..Len(s) : m[k] = s[k]
            /\ \A k \in 1..Len(t) : m[Len(s) + k] = t[k]
        BY <3>2, <4>2, <4>3, JoinSequences
      <4>5. \A k \in 1..Len(m) : (k \in 1..Len(s) /\ m[k] = s[k]) \/
                                 (k > Len(s) /\ \E l \in 1..Len(t) : k = Len(s) + l /\ m[k] = t[l])
        <5>1. ASSUME NEW k \in 1..Len(m), k > Len(s)
              PROVE  \E l \in 1..Len(t) : k = Len(s) + l /\ m[k] = t[l]
          <6>1. k - Len(s) \in 1..Len(t) /\ k = Len(s) + (k - Len(s))
            BY <3>2, <4>2, <4>4, <5>1
          <6> QED
            BY Zenon, <4>4, <6>1
        <5> QED
          BY <3>2, <4>4, <5>1
      <4>6. /\ \A k \in 1..Len(s) : IsMove(s[k]) /\ s[k].by \in {1, -1} /\ s[k].at \in Below(its, c) /\ ~Wraps(its[s[k].at])
            /\ \A k \in 1..Len(t) : IsMove(t[k]) /\ t[k].by \in {1, -1} /\ t[k].at \in Below(its, d) /\ ~Wraps(its[t[k].at])
        BY <3>1, <3>2, <4>1, <4>2 DEF MovesBelow
      <4>7. MovesBelow(its, i)
        <5>1. ASSUME NEW k \in 1..Len(m)
              PROVE  /\ IsMove(m[k]) /\ m[k].by \in {1, -1}
                     /\ m[k].at \in Below(its, i) /\ ~Wraps(its[m[k].at])
          <6>1. \/ \E l \in 1..Len(s) : m[k] = s[l]
                \/ \E l \in 1..Len(t) : m[k] = t[l]
            BY <4>5
          <6> QED
            BY Zenon, <3>1, <4>1, <4>6, <6>1
        <5> QED
          BY <2>0, <5>1 DEF MovesBelow
      <4>8. ASSUME Simple(its, i), NEW k \in 1..Len(m), NEW l \in 1..Len(m), k # l
            PROVE  m[k].at # m[l].at
        <5>1. Below(its, c) \cap Below(its, d) = {}
          BY Zenon, <2>0, <3>1, <3>4, <4>1, <4>8 DEF Simple
        <5>2. \A x, y \in 1..Len(s) : x # y => s[x].at # s[y].at
          BY <3>1, <3>2, <4>8 DEF MovesOnce
        <5>3. \A x, y \in 1..Len(t) : x # y => t[x].at # t[y].at
          BY <4>1, <4>2, <4>8 DEF MovesOnce
        <5>4. CASE k \in 1..Len(s) /\ l \in 1..Len(s)
          BY Zenon, <4>4, <4>8, <5>2, <5>4
        <5>5. CASE k \in 1..Len(s) /\ l \notin 1..Len(s)
          BY Zenon, <4>4, <4>5, <4>6, <5>1, <5>5
        <5>6. CASE k \notin 1..Len(s) /\ l \in 1..Len(s)
          BY Zenon, <4>4, <4>5, <4>6, <5>1, <5>6
        <5>7. CASE k \notin 1..Len(s) /\ l \notin 1..Len(s)
          <6>1. PICK x \in 1..Len(t) : k = Len(s) + x /\ m[k] = t[x]
            BY Zenon, <4>5, <5>7
          <6>2. PICK y \in 1..Len(t) : l = Len(s) + y /\ m[l] = t[y]
            BY <4>5, <5>7
          <6> QED
            BY Zenon, <4>8, <5>3, <6>1, <6>2
        <5> QED
          BY <5>4, <5>5, <5>6, <5>7
      <4> QED
        BY <2>0, <4>7, <4>8 DEF MovesOnce
    <3> QED
      BY <2>2, <3>3, <3>4 DEF Wraps
  <2> QED
    BY <2>1, <2>2
<1>3. \A i \in 1..N : i \in T
  BY <1>2, Upwards
<1> QED
  BY <1>0, <1>1, <1>3

LEMMA MovedTo0 ==
    ASSUME NEW its, Nested(its), NEW i \in 1..Len(its), NEW x, NEW t
    PROVE  /\ At0(its, i, x, t).thrown = t /\ At0(its, i, x, t).iters[i].index = x
           /\ \A j \in 1..Len(its) : j # i => At0(its, i, x, t).iters[j] = its[j]
<1>1. PICK o : o = At0(its, i, x, t)
  OBVIOUS
<1>2. PICK s : s = [its EXCEPT ![i].index = x]
  OBVIOUS
<1>3. o = [iters |-> s, thrown |-> t]
  BY <1>1, <1>2 DEF At0
<1>4. o.iters = s /\ o.thrown = t
  BY <1>3
<1>5. DOMAIN its = 1..Len(its)
  BY SequenceFacts DEF Nested
<1>6. \A j \in 1..Len(its) : j # i => s[j] = its[j]
  BY <1>2, <1>5
<1>7. s[i] = [its[i] EXCEPT !.index = x]
  BY <1>2, <1>5
<1>8. PICK f, g, y, v, b, e, w :
          its[i] = [form |-> f, of |-> g, index |-> y, version |-> v, begin |-> b, end |-> e, step |-> w]
  BY Zenon DEF Nested, IsIterator
<1>9. s[i].index = x
  BY <1>7, <1>8
<1> QED
  BY <1>1, <1>4, <1>6, <1>9

Stride(it) == IF it.form = "range" THEN it.step ELSE 1
\* An iterator that a move by n moves just so.
Movable(it, n) ==
    /\ n \in Int /\ ~Wraps(it) /\ ~Stale(it)
    /\ it.form \in {"map", "coroutine"} => it.index + n \in 0..Len(heap[it.of[1]].subs)
    /\ it.form = "coroutine" => n > 0

LEMMA AloneThere ==
    ASSUME NEW its, NEW i, its[i].index \in Int, its[i].form = "range" => its[i].step \in Int,
           OverContainer(its[i]) \/ its[i].form = "range", NEW n, Movable(its[i], n)
    PROVE  MovedAlone(its, i, n) = {At0(its, i, its[i].index + n * Stride(its[i]), Null)}
<1>1. PICK it, size : it = its[i] /\ size = Len(heap[it.of[1]].subs) /\ it.index \in Int /\ n \in Int
  BY Zenon DEF Movable
<1>2. CASE it.form \in {"contiguous", "string"}
  <2>1. MovedAlone(its, i, n) = {At0(its, i, it.index + n, Null)}
    BY <1>1, <1>2 DEF MovedAlone, Movable
  <2>2. it.index + n * Stride(it) = it.index + n
    BY <1>1, <1>2 DEF Stride
  <2> QED
    BY <1>1, <2>1, <2>2
<1>3. CASE it.form = "map"
  <2>1. MovedAlone(its, i, n) = {At0(its, i, it.index + n, Null)}
    BY <1>1, <1>3 DEF MovedAlone, Movable
  <2>2. it.index + n * Stride(it) = it.index + n
    BY <1>1, <1>3 DEF Stride
  <2> QED
    BY <1>1, <2>1, <2>2
<1>4. CASE it.form = "coroutine"
  <2>1. ~(n <= 0) /\ it.index + n <= size
    BY <1>1, <1>4 DEF Movable
  <2>2. MovedAlone(its, i, n) = {At0(its, i, it.index + n, Null)}
    BY <1>1, <1>4, <2>1 DEF MovedAlone, Movable
  <2>3. it.index + n * Stride(it) = it.index + n
    BY <1>1, <1>4 DEF Stride
  <2> QED
    BY <1>1, <2>2, <2>3
<1>5. CASE it.form = "range"
  <2>1. MovedAlone(its, i, n) = {At0(its, i, it.index + n * it.step, Null)}
    BY <1>1, <1>5 DEF MovedAlone, Movable
  <2> QED
    BY <1>1, <1>5, <2>1 DEF Stride
<1> QED
  BY <1>1, <1>2, <1>3, <1>4, <1>5 DEF OverContainer

LEMMA AloneElsewhere ==
    ASSUME NEW its, Nested(its), NEW i \in 1..Len(its), NEW n, NEW o \in MovedAlone(its, i, n)
    PROVE  /\ \A j \in 1..Len(its) : j # i => o.iters[j] = its[j]
           /\ \A size \in Nat :
                 its[i].form = "coroutine" /\ size = Len(heap[its[i].of[1]].subs) /\ n \in Int
                 /\ its[i].index \in 0..size => o.iters[i].index \in 0..size
<1>1. PICK x, t : o = At0(its, i, x, t)
  BY DEF MovedAlone
<1>2. ASSUME NEW size \in Nat, its[i].form = "coroutine", size = Len(heap[its[i].of[1]].subs), n \in Int,
             its[i].index \in 0..size
      PROVE  o.iters[i].index \in 0..size
  <2>1. ~Stale(its[i])
    BY <1>2 DEF Stale
  <2>2. \E y \in 0..size : \E u : o = At0(its, i, y, u)
    <3>1. CASE n <= 0
      <4>1. o = At0(its, i, its[i].index, Null)
        BY <1>2, <2>1, <3>1 DEF MovedAlone
      <4> QED
        BY <1>2, <4>1
    <3>2. CASE n > 0 /\ its[i].index + n <= size
      <4>1. o = At0(its, i, its[i].index + n, Null)
        BY <1>2, <2>1, <3>2 DEF MovedAlone
      <4> QED
        BY <1>2, <3>2, <4>1
    <3>3. CASE n > 0 /\ ~(its[i].index + n <= size)
      <4>1. o = At0(its, i, size, Crash)
        BY <1>2, <2>1, <3>3 DEF MovedAlone
      <4> QED
        BY <1>2, <4>1
    <3> QED
      BY <1>2, <3>1, <3>2, <3>3
  <2> QED
    BY <2>2, MovedTo0
<1> QED
  BY <1>1, <1>2, MovedTo0

\* A move changes nothing but the places below the iterator, and takes no
\* coroutine beyond its end.
LEMMA MovedKeeps ==
    ASSUME NEW its, HeapOK, Formed(its, Sizes, Kinds), NEW i \in 1..Len(its), NEW n \in Int,
           NEW out \in Moved(its, i, n)
    PROVE  /\ Alike(its, out.iters) /\ Nested(out.iters)
           /\ \A j \in 1..Len(its) :
                 /\ j \notin Below(its, i) => out.iters[j].index = its[j].index
                 /\ its[j].form = "coroutine" => out.iters[j].index \in 0..Sizes[its[j].of[1]]
<1>0. PICK moves : moves = Moves(its, i)
  OBVIOUS
<1>1. PICK m \in Nat : moves = Moves(its, i) /\ m = Len(moves)
  BY <1>0, MovesSequence, SequenceFacts DEF Formed
<1>2. PICK f : IsAfter(its, moves, n, m, f) /\ Moved(its, i, n) = f[m]
  <2>1. \E g : IsAfter(its, moves, n, m, g)
    BY Zenon, <1>1, AfterExists
  <2> QED
    BY <1>1, <2>1, MovedIs
<1>3. \A k \in 0..m : f[k] = IF k = 0 THEN {[iters |-> its, thrown |-> Null]}
                             ELSE UNION {MovedOn(o, moves[k], n) : o \in f[k - 1]}
  BY <1>2, Zenon DEF IsAfter
<1>4. PICK N \in Nat : N = Len(its) /\ Nested(its)
  BY Zenon, SequenceFacts DEF Nested, Formed
<1>5. PICK T : T = {k \in Nat : k \in 0..m => \A o \in f[k] :
                       /\ Alike(its, o.iters) /\ Nested(o.iters)
                       /\ \A j \in 1..N :
                             /\ j \notin Below(its, i) => o.iters[j].index = its[j].index
                             /\ its[j].form = "coroutine" => o.iters[j].index \in 0..Sizes[its[j].of[1]]}
  OBVIOUS
<1>6. ASSUME NEW k \in Nat, \A j \in 0..(k - 1) : j \in T
      PROVE  k \in T
  <2> SUFFICES ASSUME k \in 0..m, NEW o \in f[k]
               PROVE  /\ Alike(its, o.iters) /\ Nested(o.iters)
                      /\ \A j \in 1..N :
                            /\ j \notin Below(its, i) => o.iters[j].index = its[j].index
                            /\ its[j].form = "coroutine" => o.iters[j].index \in 0..Sizes[its[j].of[1]]
    BY <1>5
  <2>1. CASE k = 0
    <3>1. o = [iters |-> its, thrown |-> Null]
      BY Zenon, <1>3, <2>1
    <3>2. o.iters = its
      BY <3>1
    <3>3. \A j \in 1..N : its[j].form = "coroutine" => its[j].index \in 0..Sizes[its[j].of[1]]
      BY <1>4 DEF Formed, FormedOne
    <3> QED
      BY <1>4, <3>2, <3>3, AlikeItself
  <2>2. CASE k # 0
    <3>0. f[k] = UNION {MovedOn(b, moves[k], n) : b \in f[k - 1]}
      BY <1>3, <2>2, Zenon
    <3>1. PICK before \in f[k - 1] : o \in MovedOn(before, moves[k], n)
      BY <3>0, Zenon
    <3>2. /\ Alike(its, before.iters) /\ Nested(before.iters)
          /\ \A j \in 1..N :
                /\ j \notin Below(its, i) => before.iters[j].index = its[j].index
                /\ its[j].form = "coroutine" => before.iters[j].index \in 0..Sizes[its[j].of[1]]
      <4>1. k - 1 \in T /\ k - 1 \in 0..m
        BY <1>6, <2>2
      <4> QED
        BY Zenon, <1>5, <3>1, <4>1
    <3>3. CASE before.thrown # Null
      <4>1. o = before
        BY <3>1, <3>3 DEF MovedOn
      <4> QED
        BY <3>2, <4>1
    <3>4. CASE before.thrown = Null
      <4>1. PICK at, by : at = moves[k].at /\ by = n * moves[k].by
        OBVIOUS
      <4>2. PICK mid : mid = before.iters
        OBVIOUS
      <4>3. o \in MovedAlone(mid, at, by)
        BY <3>1, <3>4, <4>1, <4>2 DEF MovedOn
      <4>4. at \in Below(its, i) /\ at \in 1..N /\ by \in Int
        <5>1. k \in 1..m
          BY <2>2
        <5>2. moves[k].at \in Below(its, i) /\ moves[k].by \in {1, -1}
          BY <1>1, <5>1, MovesOrdered DEF MovesBelow
        <5>3. Below(its, i) \subseteq 1..N
          BY <1>4, BelowOlder
        <5> QED
          BY <4>1, <5>2, <5>3
      <4>5. Alike(its, o.iters)
        BY <3>2, <4>2, <4>3, AloneAlike
      <4>6. Nested(o.iters)
        <5>1. \A j \in 1..N : Wraps(o.iters[j]) = Wraps(its[j])
          BY Zenon, <1>4, <4>5 DEF Alike, Wraps
        <5> QED
          BY <1>4, <4>5, <5>1 DEF Nested, Alike
      <4>7. Len(mid) = N /\ Nested(mid) /\ \A j \in 1..N : mid[j].form = its[j].form /\ mid[j].of = its[j].of
        BY <1>4, <3>2, <4>2 DEF Alike
      <4>8. \A j \in 1..N : j # at => o.iters[j] = mid[j]
        BY <4>3, <4>4, <4>7, AloneElsewhere
      <4>9. ASSUME its[at].form = "coroutine"
            PROVE  o.iters[at].index \in 0..Sizes[its[at].of[1]]
        <5>1. PICK a : a = its[at].of[1] /\ a \in 1..Len(heap)
          BY Zenon, <1>4, <4>4, <4>9 DEF Formed, FormedOne, OverContainer, Sizes
        <5>2. PICK size \in Nat : size = Len(heap[a].subs) /\ size = Sizes[a]
          BY Zenon, <5>1, SequenceFacts DEF HeapOK, WellMade, Sizes
        <5>3. mid[at].form = "coroutine" /\ mid[at].of[1] = a /\ mid[at].index \in 0..size
          BY Zenon, <3>2, <4>2, <4>4, <4>7, <4>9, <5>1, <5>2
        <5>4. size = Len(heap[mid[at].of[1]].subs)
          BY Zenon, <5>2, <5>3
        <5>5. at \in 1..Len(mid)
          BY <4>4, <4>7
        <5>6. o.iters[at].index \in 0..size
          BY Zenon, <4>3, <4>4, <4>7, <5>3, <5>4, <5>5, AloneElsewhere
        <5> QED
          BY <5>1, <5>2, <5>6
      <4>10. ASSUME NEW j \in 1..N
             PROVE  /\ j \notin Below(its, i) => o.iters[j].index = its[j].index
                    /\ its[j].form = "coroutine" => o.iters[j].index \in 0..Sizes[its[j].of[1]]
        <5>1. CASE j = at
          BY <4>4, <4>9, <5>1
        <5>2. CASE j # at
          <6>1. o.iters[j] = mid[j]
            BY <4>8, <5>2
          <6> QED
            BY <3>2, <4>2, <6>1
        <5> QED
          BY <5>1, <5>2
      <4> QED
        BY <4>5, <4>6, <4>10
    <3> QED
      BY Zenon, <3>3, <3>4
  <2> QED
    BY <2>1, <2>2
<1>7. T = Nat
  BY Zenon, <1>5, <1>6, Induction
<1> QED
  BY <1>2, <1>4, <1>5, <1>7

\* A move of iterators that can all be moved moves them all.
LEMMA MovedThere ==
    ASSUME NEW its, HeapOK, Formed(its, Sizes, Kinds), NEW i \in 1..Len(its), MovesOnce(its, i), NEW n \in Int,
           \A k \in 1..Len(Moves(its, i)) : Movable(its[Moves(its, i)[k].at], n * Moves(its, i)[k].by),
           NEW out \in Moved(its, i, n)
    PROVE  /\ out.thrown = Null
           /\ \A k \in 1..Len(Moves(its, i)) :
                 LET at == Moves(its, i)[k].at
                     by == Moves(its, i)[k].by
                 IN out.iters[at].index = its[at].index + n * by * Stride(its[at])
<1>0. PICK moves : moves = Moves(its, i)
  OBVIOUS
<1>1. PICK m \in Nat : moves = Moves(its, i) /\ m = Len(moves)
  BY <1>0, MovesSequence, SequenceFacts DEF Formed
<1>2. PICK f : IsAfter(its, moves, n, m, f) /\ Moved(its, i, n) = f[m]
  <2>1. \E g : IsAfter(its, moves, n, m, g)
    BY Zenon, <1>1, AfterExists
  <2> QED
    BY <1>1, <2>1, MovedIs
<1>3. \A k \in 0..m : f[k] = IF k = 0 THEN {[iters |-> its, thrown |-> Null]}
                             ELSE UNION {MovedOn(o, moves[k], n) : o \in f[k - 1]}
  BY <1>2, Zenon DEF IsAfter
<1>4. PICK N \in Nat : N = Len(its) /\ Nested(its)
  BY Zenon, SequenceFacts DEF Nested, Formed
<1>5. PICK there : there = [k \in 1..m |-> its[moves[k].at].index + n * moves[k].by * Stride(its[moves[k].at])]
  OBVIOUS
<1>6. PICK T : T = {k \in Nat : k \in 0..m => \A o \in f[k] :
                       /\ o.thrown = Null /\ Alike(its, o.iters) /\ Nested(o.iters)
                       /\ \A l \in 1..m : o.iters[moves[l].at].index =
                                             IF l <= k THEN there[l] ELSE its[moves[l].at].index}
  OBVIOUS
<1>7. \A l \in 1..m : moves[l].at \in 1..N /\ moves[l].by \in {1, -1} /\ ~Wraps(its[moves[l].at])
  <2>1. ASSUME NEW l \in 1..m
        PROVE  moves[l].at \in 1..N /\ moves[l].by \in {1, -1} /\ ~Wraps(its[moves[l].at])
    <3>1. moves[l].at \in Below(its, i) /\ moves[l].by \in {1, -1} /\ ~Wraps(its[moves[l].at])
      BY <1>1, MovesOrdered DEF MovesBelow
    <3>2. Below(its, i) \subseteq 1..N
      BY <1>4, BelowOlder
    <3> QED
      BY <3>1, <3>2
  <2> QED
    BY <2>1
<1>8. ASSUME NEW k \in Nat, \A j \in 0..(k - 1) : j \in T
      PROVE  k \in T
  <2> SUFFICES ASSUME k \in 0..m, NEW o \in f[k]
               PROVE  /\ o.thrown = Null /\ Alike(its, o.iters) /\ Nested(o.iters)
                      /\ \A l \in 1..m : o.iters[moves[l].at].index =
                                            IF l <= k THEN there[l] ELSE its[moves[l].at].index
    BY Zenon, <1>6
  <2>1. CASE k = 0
    <3>1. o = [iters |-> its, thrown |-> Null]
      BY Zenon, <1>3, <2>1
    <3>2. o.iters = its /\ o.thrown = Null
      BY <3>1
    <3>3. \A l \in 1..m : ~(l <= k)
      BY <2>1
    <3> QED
      BY <1>4, <3>2, <3>3, AlikeItself
  <2>2. CASE k # 0
    <3>0. f[k] = UNION {MovedOn(b, moves[k], n) : b \in f[k - 1]}
      BY <1>3, <2>2, Zenon
    <3>1. PICK before \in f[k - 1] : o \in MovedOn(before, moves[k], n)
      BY <3>0, Zenon
    <3>2. /\ before.thrown = Null /\ Alike(its, before.iters) /\ Nested(before.iters)
          /\ \A l \in 1..m : before.iters[moves[l].at].index =
                                IF l <= k - 1 THEN there[l] ELSE its[moves[l].at].index
      <4>1. k - 1 \in T /\ k - 1 \in 0..m
        BY <1>8, <2>2
      <4> QED
        BY Zenon, <1>6, <3>1, <4>1
    <3>3. PICK at, by, mid : at = moves[k].at /\ by = n * moves[k].by /\ mid = before.iters
      OBVIOUS
    <3>4. o \in MovedAlone(mid, at, by)
      BY <3>1, <3>2, <3>3 DEF MovedOn
    <3>5. at \in 1..N /\ by \in Int /\ k \in 1..m
      BY <1>7, <2>2, <3>3
    <3>6. Movable(its[at], by)
      BY Zenon, <1>1, <3>3, <3>5
    <3>7. /\ Len(mid) = N /\ Nested(mid)
          /\ mid[at].form = its[at].form /\ mid[at].of = its[at].of
          /\ mid[at].version = its[at].version /\ mid[at].step = its[at].step
          /\ mid[at].index = its[at].index
      <4>1. Alike(its, mid) /\ Nested(mid)
        BY <3>2, <3>3
      <4>2. /\ Len(mid) = N
            /\ mid[at].form = its[at].form /\ mid[at].of = its[at].of
            /\ mid[at].version = its[at].version /\ mid[at].step = its[at].step
        BY <1>4, <3>5, <4>1 DEF Alike
      <4>3. ~(k <= k - 1)
        BY <2>2
      <4>4. mid[at].index = its[at].index
        BY <3>2, <3>3, <3>5, <4>3
      <4> QED
        BY <4>1, <4>2, <4>4
    <3>8. /\ its[at].index \in Int /\ (its[at].form = "range" => its[at].step \in Int)
          /\ OverContainer(its[at]) \/ its[at].form = "range"
      BY Zenon, <1>4, <1>7, <3>3, <3>5 DEF Formed, FormedOne, RangeFormed
    <3>9. Movable(mid[at], by) /\ Stride(mid[at]) = Stride(its[at])
      BY <3>6, <3>7 DEF Movable, Wraps, Stale, Stride
    <3>10. o = At0(mid, at, mid[at].index + by * Stride(mid[at]), Null)
      <4>1. /\ mid[at].index \in Int /\ (mid[at].form = "range" => mid[at].step \in Int)
            /\ OverContainer(mid[at]) \/ mid[at].form = "range"
        BY <3>7, <3>8 DEF OverContainer
      <4>2. MovedAlone(mid, at, by) = {At0(mid, at, mid[at].index + by * Stride(mid[at]), Null)}
        BY <3>9, <4>1, AloneThere
      <4> QED
        BY <3>4, <4>2
    <3>11. /\ o.thrown = Null /\ o.iters[at].index = mid[at].index + by * Stride(mid[at])
           /\ \A j \in 1..N : j # at => o.iters[j] = mid[j]
      <4>1. at \in 1..Len(mid)
        BY <3>5, <3>7
      <4> QED
        BY <3>7, <3>10, <4>1, MovedTo0
    <3>12. o.iters[at].index = there[k]
      <4>1. there[k] = its[at].index + by * Stride(its[at])
        BY <1>5, <3>3, <3>5
      <4> QED
        BY <3>7, <3>9, <3>11, <4>1
    <3>13. Alike(its, o.iters)
      BY <3>2, <3>3, <3>4, AloneAlike
    <3>14. Nested(o.iters)
      <4>1. \A j \in 1..N : Wraps(o.iters[j]) = Wraps(its[j])
        BY Zenon, <1>4, <3>13 DEF Alike, Wraps
      <4> QED
        BY <1>4, <3>13, <4>1 DEF Nested, Alike
    <3>15. ASSUME NEW l \in 1..m
           PROVE  o.iters[moves[l].at].index = IF l <= k THEN there[l] ELSE its[moves[l].at].index
      <4>1. CASE l = k
        BY <3>3, <3>12, <4>1
      <4>2. CASE l # k
        <5>1. moves[l].at # at /\ moves[l].at \in 1..N
          BY <1>1, <1>7, <3>3, <3>5, <4>2 DEF MovesOnce
        <5>2. o.iters[moves[l].at] = mid[moves[l].at]
          BY Zenon, <3>11, <5>1
        <5>3. l <= k - 1 <=> l <= k
          BY <3>5, <4>2
        <5> QED
          BY <3>2, <3>3, <5>2, <5>3
      <4> QED
        BY <4>1, <4>2
    <3> QED
      BY <3>11, <3>13, <3>14, <3>15
  <2> QED
    BY <2>1, <2>2
<1>9. T = Nat
  BY Zenon, <1>6, <1>8, Induction
<1>10. out.thrown = Null /\ \A l \in 1..m : out.iters[moves[l].at].index = there[l]
  BY <1>2, <1>6, <1>9
<1> QED
  BY <1>1, <1>5, <1>10

\* Every iterator that a move by n moves can be moved so.
MovableAll(its, i, n) ==
    \A k \in 1..Len(Moves(its, i)) :
        Movable(its[Moves(its, i)[k].at], n * Moves(its, i)[k].by)

\* It stands at an element.
InsideSpot(its, i) == \E p \in Spots(its, Sizes, i) : p \in 0..(Count(its, Sizes, i) - 1)

LEMMA AllMovable ==
    ASSUME NEW its, HeapOK, Formed(its, Sizes, Kinds)
    PROVE  \A i \in 1..Len(its) :
              Simple(its, i) /\ FreshIn(its, version, i) /\ OrderlyIn(its, i) =>
                 \A n \in Int :
                    ReversibleIn(its, i) \/ (n = 1 /\ InsideSpot(its, i)) => MovableAll(its, i, n)
<1>0. PICK N \in Nat : N = Len(its) /\ Nested(its)
  BY SequenceFacts DEF Nested, Formed
<1>1. PICK T : T = {i \in 1..N :
              Simple(its, i) /\ FreshIn(its, version, i) /\ OrderlyIn(its, i) =>
                 \A n \in Int :
                    ReversibleIn(its, i) \/ (n = 1 /\ InsideSpot(its, i)) => MovableAll(its, i, n)}
  OBVIOUS
<1>2. ASSUME NEW i \in 1..N, \A k \in 1..(i - 1) : k \in T
      PROVE  i \in T
  <2> SUFFICES ASSUME Simple(its, i), FreshIn(its, version, i), OrderlyIn(its, i),
                      NEW n \in Int, ReversibleIn(its, i) \/ (n = 1 /\ InsideSpot(its, i))
               PROVE  MovableAll(its, i, n)
    BY <1>1
  <2>0. PICK it, m : it = its[i] /\ m = Moves(its, i) /\ i \in Below(its, i)
    BY <1>0, BelowOlder
  <2>1. CASE ~Wraps(it)
    <3>1. m = <<[at |-> i, by |-> 1]>>
      BY <1>0, <2>0, <2>1, MovesForms
    <3>2. Len(m) = 1 /\ m[1] = [at |-> i, by |-> 1]
      BY <3>1, OneElement
    <3>3. ~Stale(it)
      BY <2>0 DEF FreshIn, StaleIn, Stale
    <3>4. ASSUME it.form \in {"map", "coroutine"}
          PROVE  n = 1 /\ it.index + n \in 0..Len(heap[it.of[1]].subs)
      <4>1. PICK p \in Spots(its, Sizes, i) : n = 1 /\ p \in 0..(Count(its, Sizes, i) - 1)
        BY <2>0, <3>4 DEF ReversibleIn, InsideSpot
      <4>2. OverContainer(it)
        BY <3>4 DEF OverContainer
      <4>3. Count(its, Sizes, i) = Sizes[it.of[1]] /\ it.index = p
        BY <1>0, <2>0, <4>2, PlaceForms
      <4>4. PICK a : a = it.of[1] /\ a \in 1..Len(heap)
        BY <1>0, <2>0, <4>2 DEF Formed, FormedOne, Sizes
      <4>5. PICK size \in Nat : size = Len(heap[a].subs) /\ size = Sizes[a]
        BY Zenon, <4>4, SequenceFacts DEF HeapOK, WellMade, Sizes
      <4> QED
        BY <4>1, <4>3, <4>4, <4>5
    <3>5. Movable(it, n)
      BY <2>1, <3>3, <3>4 DEF Movable
    <3>6. n * 1 = n
      OBVIOUS
    <3> QED
      BY <2>0, <3>2, <3>5, <3>6 DEF MovableAll
  <2>2. CASE Wraps(it)
    <3>1. PICK c, s : c = it.of[1] /\ c \in 1..(i - 1) /\ Below(its, c) \subseteq Below(its, i) /\ s = Moves(its, c)
      BY <1>0, <2>0, <2>2, Inners
    <3>2. /\ Simple(its, c) /\ FreshIn(its, version, c) /\ OrderlyIn(its, c)
          /\ ReversibleIn(its, i) => ReversibleIn(its, c)
      BY Zenon, <3>1, Inherited
    <3>3. \A x \in Int : ReversibleIn(its, c) \/ (x = 1 /\ InsideSpot(its, c)) => MovableAll(its, c, x)
      BY <1>1, <1>2, <3>1, <3>2
    <3>4. IsSequence(s) /\ Len(s) \in Nat /\ MovesBelow(its, c) /\ Count(its, Sizes, c) \in Nat
      <4>1. c \in 1..Len(its)
        BY <1>0, <3>1
      <4>2. IsSequence(s) /\ Len(s) \in Nat
        BY <1>0, <3>1, <4>1, MovesSequence, SequenceFacts
      <4>3. MovesBelow(its, c)
        BY <4>1, MovesOrdered
      <4>4. Count(its, Sizes, c) \in Nat
        BY <3>2, <4>1, CountFacts
      <4> QED
        BY <4>2, <4>3, <4>4
    <3>5. CASE it.form = "reversed"
      <4>1. m = Backwards(s)
        BY <1>0, <2>0, <3>1, <3>5, MovesForms
      <4>2. ReversibleIn(its, c)
        BY <2>0, <3>2, <3>5 DEF OrderlyIn
      <4>11. PICK x \in Int : x = -n
        OBVIOUS
      <4>4. MovableAll(its, c, -n)
        BY <3>3, <4>2, <4>11
      <4>5. \A k \in 1..Len(s) : IsMove(s[k]) /\ s[k].by \in {1, -1}
        BY <3>1, <3>4 DEF MovesBelow
      <4>6. \A k \in 1..Len(s) : m[k].at = s[k].at /\ m[k].by = -(s[k].by)
        BY <3>4, <4>1, <4>5, BackwardsFacts
      <4>7. Len(m) = Len(s)
        <5>1. DOMAIN s = 1..Len(s)
          BY <3>4, SequenceFacts
        <5>2. m = [k \in 1..Len(s) |-> m[k]]
          BY <4>1, <5>1 DEF Backwards
        <5> QED
          BY <3>4, <5>2, FunctionIsSequence
      <4>8. \A k \in 1..Len(s) : n * m[k].by = (-n) * s[k].by
        BY <4>5, <4>6
      <4>9. \A k \in 1..Len(s) : Movable(its[s[k].at], (-n) * s[k].by)
        BY <3>1, <4>4 DEF MovableAll
      <4>10. \A k \in 1..Len(m) : Movable(its[m[k].at], n * m[k].by)
        BY <4>6, <4>7, <4>8, <4>9
      <4> QED
        BY <2>0, <4>10 DEF MovableAll
    <3>6. CASE it.form = "combined"
      <4>1. PICK d, t : d = it.of[2] /\ d \in 1..(i - 1) /\ Below(its, d) \subseteq Below(its, i) /\ t = Moves(its, d)
        BY <1>0, <2>0, <3>6, Inners
      <4>2. /\ Simple(its, d) /\ FreshIn(its, version, d) /\ OrderlyIn(its, d)
            /\ ReversibleIn(its, i) => ReversibleIn(its, d)
        BY Zenon, <4>1, Inherited
      <4>3. \A x \in Int : ReversibleIn(its, d) \/ (x = 1 /\ InsideSpot(its, d)) => MovableAll(its, d, x)
        BY <1>1, <1>2, <4>1, <4>2
      <4>4. IsSequence(t) /\ Len(t) \in Nat /\ Count(its, Sizes, d) \in Nat
        BY <1>0, <4>1, <4>2, MovesSequence, SequenceFacts, CountFacts
      <4>5. m = s \o t
        BY Zenon, <1>0, <2>0, <3>1, <3>6, <4>1, MovesForms
      <4>6. /\ Len(m) = Len(s) + Len(t) /\ \A k \in 1..Len(s) : m[k] = s[k]
            /\ \A k \in 1..Len(t) : m[Len(s) + k] = t[k]
        BY <3>4, <4>4, <4>5, JoinSequences
      <4>7. ASSUME InsideSpot(its, i)
            PROVE  InsideSpot(its, c) /\ InsideSpot(its, d)
        <5>1. PICK p \in Spots(its, Sizes, i) : p \in 0..(Count(its, Sizes, i) - 1)
          BY <4>7 DEF InsideSpot
        <5>2. /\ p \in Spots(its, Sizes, c) /\ p \in Spots(its, Sizes, d) /\ p \in Int
              /\ Count(its, Sizes, i) = Smaller(Count(its, Sizes, c), Count(its, Sizes, d))
          BY <1>0, <2>0, <3>1, <3>6, <4>1, <5>1, PlaceForms
        <5>3. p \in 0..(Count(its, Sizes, c) - 1) /\ p \in 0..(Count(its, Sizes, d) - 1)
          BY <3>4, <4>4, <5>1, <5>2 DEF Smaller
        <5> QED
          BY <5>2, <5>3 DEF InsideSpot
      <4>9. MovableAll(its, c, n) /\ MovableAll(its, d, n)
        BY <3>2, <3>3, <4>2, <4>3, <4>7
      <4>10. \A k \in 1..Len(s) : Movable(its[s[k].at], n * s[k].by)
        BY <3>1, <4>9 DEF MovableAll
      <4>11. \A k \in 1..Len(t) : Movable(its[t[k].at], n * t[k].by)
        BY <4>1, <4>9 DEF MovableAll
      <4>12. ASSUME NEW k \in 1..Len(m)
             PROVE  Movable(its[m[k].at], n * m[k].by)
        <5>1. CASE k \in 1..Len(s)
          BY <4>6, <4>10, <5>1
        <5>2. CASE k \notin 1..Len(s)
          <6>1. k - Len(s) \in 1..Len(t) /\ k = Len(s) + (k - Len(s))
            BY <3>4, <4>4, <4>6, <5>2
          <6>2. m[k] = t[k - Len(s)]
            BY <4>6, <6>1
          <6> QED
            BY Zenon, <4>11, <6>1, <6>2
        <5> QED
          BY <5>1, <5>2
      <4> QED
        BY <2>0, <4>12 DEF MovableAll
    <3> QED
      BY <2>2, <3>5, <3>6 DEF Wraps
  <2> QED
    BY <2>1, <2>2
<1>3. \A i \in 1..N : i \in T
  BY <1>2, Upwards
<1> QED
  BY <1>0, <1>1, <1>3

\* Where the iterators below one are after a move by n.
Shifted(its, others, i, n) ==
    \A k \in 1..Len(Moves(its, i)) :
        LET at == Moves(its, i)[k].at
            by == Moves(its, i)[k].by
        IN others[at].index = its[at].index + n * by * Stride(its[at])

LEMMA Carried ==
    ASSUME NEW its, Formed(its, Sizes, Kinds), NEW others, Formed(others, Sizes, Kinds), Extends(its, others)
    PROVE  \A i \in 1..Len(its) :
              Simple(its, i) =>
                 \A n \in Int : Shifted(its, others, i, n) =>
                    \A p \in Spots(its, Sizes, i) : p + n \in Spots(others, Sizes, i)
<1>0. PICK N \in Nat, M \in Nat : N = Len(its) /\ M = Len(others) /\ N <= M /\ Nested(its)
  BY SequenceFacts DEF Nested, Formed, Extends
<1>1. PICK T : T = {i \in 1..N :
              Simple(its, i) =>
                 \A n \in Int : Shifted(its, others, i, n) =>
                    \A p \in Spots(its, Sizes, i) : p + n \in Spots(others, Sizes, i)}
  OBVIOUS
<1>2. ASSUME NEW i \in 1..N, \A k \in 1..(i - 1) : k \in T
      PROVE  i \in T
  <2> SUFFICES ASSUME Simple(its, i), NEW n \in Int, Shifted(its, others, i, n), NEW p \in Spots(its, Sizes, i)
               PROVE  p + n \in Spots(others, Sizes, i)
    BY <1>1
  <2>0. PICK it, other, m : it = its[i] /\ other = others[i] /\ m = Moves(its, i) /\ SameOne(it, other)
    BY <1>0 DEF Extends
  <2>9. i \in 1..Len(its) /\ i \in 1..Len(others)
    BY <1>0
  <2>1. CASE ~Wraps(it)
    <3>1. m = <<[at |-> i, by |-> 1]>>
      BY <2>0, <2>1, <2>9, MovesForms
    <3>2. Len(m) = 1 /\ m[1] = [at |-> i, by |-> 1]
      BY <3>1, OneElement
    <3>3. other.index = it.index + n * 1 * Stride(it)
      BY <2>0, <3>2 DEF Shifted
    <3>4. CASE OverContainer(it)
      <4>1. p \in Int /\ it.index = p
        BY <2>0, <2>9, <3>4, PlaceForms
      <4>2. Stride(it) = 1
        BY <3>4 DEF Stride, OverContainer
      <4>3. other.index = p + n
        BY <3>3, <4>1, <4>2
      <4>4. OverContainer(other)
        BY <2>0, <3>4 DEF OverContainer, SameOne
      <4>5. Spots(others, Sizes, i) = {q \in Int : other.index = q}
        BY <2>0, <2>9, <4>4, PlaceForms
      <4> QED
        BY <4>1, <4>3, <4>5
    <3>5. CASE it.form = "range"
      <4>1. p \in Int /\ it.index = it.begin + p * it.step
        BY <2>0, <2>9, <3>5, PlaceForms
      <4>2. PICK b, s : b = it.begin /\ s = it.step /\ b \in Int /\ s \in Int /\ Stride(it) = s
        BY Zenon, <2>0, <2>9, <3>5 DEF Formed, FormedOne, RangeFormed, Stride
      <4>3. n * 1 * s = n * s /\ p * s \in Int /\ n * s \in Int
        BY <4>1, <4>2
      <4>4. (p + n) * s = p * s + n * s
        BY <4>1, <4>2
      <4>5. other.index = b + (p + n) * s
        BY <3>3, <4>1, <4>2, <4>3, <4>4
      <4>6. other.form = "range" /\ other.begin = b /\ other.step = s
        BY <2>0, <3>5, <4>2 DEF SameOne
      <4>7. Spots(others, Sizes, i) = {q \in Int : other.index = other.begin + q * other.step}
        BY <2>0, <2>9, <4>6, PlaceForms
      <4>8. p + n \in Int
        BY <4>1
      <4> QED
        BY <4>5, <4>6, <4>7, <4>8
    <3> QED
      BY <2>0, <2>1, <2>9, <3>4, <3>5 DEF Formed, FormedOne
  <2>2. CASE Wraps(it)
    <3>1. PICK c, s : c = it.of[1] /\ c \in 1..(i - 1) /\ Below(its, c) \subseteq Below(its, i) /\ s = Moves(its, c)
      BY <2>0, <2>2, <2>9, Inners
    <3>2. Simple(its, c) /\ c \in 1..Len(its)
      <4>1. c \in 1..N
        BY <3>1
      <4>2. Simple(its, c)
        BY Zenon, <3>1, Inherited
      <4> QED
        BY <1>0, <4>1, <4>2
    <3>3. \A x \in Int : Shifted(its, others, c, x) =>
             \A q \in Spots(its, Sizes, c) : q + x \in Spots(others, Sizes, c)
      BY Zenon, <1>1, <1>2, <3>1, <3>2
    <3>4. IsSequence(s) /\ Len(s) \in Nat /\ MovesBelow(its, c)
      <4>1. IsSequence(s) /\ Len(s) \in Nat
        BY Zenon, <1>0, <3>1, <3>2, MovesSequence, SequenceFacts
      <4>2. MovesBelow(its, c)
        BY <3>2, MovesOrdered
      <4> QED
        BY <4>1, <4>2
    <3>5. Count(its, Sizes, c) \in Nat /\ Count(others, Sizes, c) = Count(its, Sizes, c)
      <4>1. Count(its, Sizes, c) \in Nat
        BY <3>2, CountFacts
      <4>2. Count(others, Sizes, c) = Count(its, Sizes, c)
        BY <3>2, PlacesSame
      <4> QED
        BY <4>1, <4>2
    <3>6. \A k \in 1..Len(m) : others[m[k].at].index = its[m[k].at].index + n * m[k].by * Stride(its[m[k].at])
      BY <2>0 DEF Shifted
    <3>7. CASE it.form = "reversed"
      <4>1. m = Backwards(s)
        BY <2>0, <2>9, <3>1, <3>7, MovesForms
      <4>2. p \in Int /\ Count(its, Sizes, c) - 1 - p \in Spots(its, Sizes, c)
        BY <2>0, <2>9, <3>1, <3>7, PlaceForms
      <4>3. other.form = "reversed" /\ other.of[1] = c
        BY <2>0, <3>1, <3>7 DEF SameOne
      <4>4. Spots(others, Sizes, i) = {q \in Int : Count(others, Sizes, c) - 1 - q \in Spots(others, Sizes, c)}
        BY <2>0, <2>9, <4>3, PlaceForms
      <4>5. \A k \in 1..Len(s) : IsMove(s[k]) /\ s[k].by \in {1, -1}
        BY <3>1, <3>4 DEF MovesBelow
      <4>6. \A k \in 1..Len(s) : m[k].at = s[k].at /\ m[k].by = -(s[k].by)
        BY <3>4, <4>1, <4>5, BackwardsFacts
      <4>7. Len(m) = Len(s)
        <5>1. DOMAIN s = 1..Len(s)
          BY <3>4, SequenceFacts
        <5>2. m = [k \in 1..Len(s) |-> m[k]]
          BY <4>1, <5>1 DEF Backwards
        <5> QED
          BY <3>4, <5>2, FunctionIsSequence
      <4>8. \A k \in 1..Len(s) : n * m[k].by = (-n) * s[k].by
        BY <4>5, <4>6
      <4>9. \A k \in 1..Len(s) : others[s[k].at].index = its[s[k].at].index + (-n) * s[k].by * Stride(its[s[k].at])
        BY <3>6, <4>6, <4>7, <4>8
      <4>10. Shifted(its, others, c, -n)
        BY <3>1, <4>9 DEF Shifted
      <4>13. PICK x \in Int : x = -n
        OBVIOUS
      <4>11. (Count(its, Sizes, c) - 1 - p) + (-n) \in Spots(others, Sizes, c)
        BY Zenon, <3>3, <4>2, <4>10, <4>13
      <4>12. (Count(its, Sizes, c) - 1 - p) + (-n) = Count(others, Sizes, c) - 1 - (p + n)
        BY <3>5, <4>2
      <4> QED
        BY <4>2, <4>4, <4>11, <4>12
    <3>8. CASE it.form = "combined"
      <4>1. PICK d, t : d = it.of[2] /\ d \in 1..(i - 1) /\ Below(its, d) \subseteq Below(its, i) /\ t = Moves(its, d)
        BY <2>0, <2>9, <3>8, Inners
      <4>2. Simple(its, d) /\ d \in 1..Len(its)
        <5>1. d \in 1..N
          BY <4>1
        <5>2. Simple(its, d)
          BY Zenon, <4>1, Inherited
        <5> QED
          BY <1>0, <5>1, <5>2
      <4>3. \A x \in Int : Shifted(its, others, d, x) =>
               \A q \in Spots(its, Sizes, d) : q + x \in Spots(others, Sizes, d)
        BY Zenon, <1>1, <1>2, <4>1, <4>2
      <4>4. IsSequence(t) /\ Len(t) \in Nat
        BY Zenon, <1>0, <4>1, <4>2, MovesSequence, SequenceFacts
      <4>5. m = s \o t
        BY Zenon, <2>0, <2>9, <3>1, <3>8, <4>1, MovesForms
      <4>6. /\ Len(m) = Len(s) + Len(t) /\ \A k \in 1..Len(s) : m[k] = s[k]
            /\ \A k \in 1..Len(t) : m[Len(s) + k] = t[k]
        BY <3>4, <4>4, <4>5, JoinSequences
      <4>7. p \in Spots(its, Sizes, c) /\ p \in Spots(its, Sizes, d) /\ p \in Int
        BY <2>0, <2>9, <3>1, <3>8, <4>1, PlaceForms
      <4>8. \A k \in 1..Len(s) : others[s[k].at].index = its[s[k].at].index + n * s[k].by * Stride(its[s[k].at])
        <5>1. \A k \in 1..Len(s) : k \in 1..Len(m)
          BY <3>4, <4>4, <4>6
        <5> QED
          BY <3>6, <4>6, <5>1
      <4>9. \A k \in 1..Len(t) : others[t[k].at].index = its[t[k].at].index + n * t[k].by * Stride(its[t[k].at])
        <5>1. \A k \in 1..Len(t) : Len(s) + k \in 1..Len(m)
          BY <3>4, <4>4, <4>6
        <5> QED
          BY <3>6, <4>6, <5>1
      <4>10. Shifted(its, others, c, n) /\ Shifted(its, others, d, n)
        BY <3>1, <4>1, <4>8, <4>9 DEF Shifted
      <4>11. p + n \in Spots(others, Sizes, c) /\ p + n \in Spots(others, Sizes, d)
        BY <3>3, <4>3, <4>7, <4>10
      <4>12. other.form = "combined" /\ other.of[1] = c /\ other.of[2] = d
        BY <2>0, <3>1, <3>8, <4>1 DEF SameOne
      <4>13. Spots(others, Sizes, i) = {q \in Int : q \in Spots(others, Sizes, c) /\ q \in Spots(others, Sizes, d)}
        BY <2>0, <2>9, <4>12, PlaceForms
      <4> QED
        BY <4>7, <4>11, <4>13
    <3> QED
      BY <2>2, <3>7, <3>8 DEF Wraps
  <2> QED
    BY <2>1, <2>2
<1>3. \A i \in 1..N : i \in T
  BY <1>2, Upwards
<1> QED
  BY <1>0, <1>1, <1>3

-----------------------------------------------------------------------------
(* Containers of elements *)

PlainPart(k, v) == IF k = "map" THEN IsElement(v.subs[1]) /\ IsElement(v.subs[2]) ELSE IsElement(v)
PlainParts(k, s) == \A i \in 1..Len(s) : PlainPart(k, s[i])

LEMMA PlainIs ==
    ASSUME NEW c
    PROVE  Plain(c) <=> (c.k # "struct" => PlainParts(c.k, c.subs))
BY DEF Plain, PlainParts, PlainPart

\* What t has of s, and x.
Mixes(s, t, x) == \A i \in 1..Len(t) : t[i] = x \/ \E j \in 1..Len(s) : t[i] = s[j]

LEMMA MixesPlain ==
    ASSUME NEW k, NEW s, PlainParts(k, s), NEW x, PlainPart(k, x), NEW t, Mixes(s, t, x)
    PROVE  PlainParts(k, t)
BY DEF PlainParts, Mixes

LEMMA SequencesMix ==
    ASSUME NEW s, IsSequence(s), NEW x
    PROVE  /\ Mixes(s, s, x) /\ Mixes(s, Append(s, x), x) /\ Mixes(s, Reverse(s), x)
           /\ \A i \in 1..Len(s) : Mixes(s, RemoveAt(s, i), x)
           /\ \A i \in 1..(Len(s) + 1) : Mixes(s, InsertAt(s, i, x), x)
           /\ \A i : Mixes(s, [s EXCEPT ![i] = x], x)
           /\ s # <<>> => Mixes(s, Front(s), x) /\ Mixes(s, Tail(s), x)
<1>1. PICK n \in Nat : n = Len(s)
  BY SequenceFacts
<1>2. Mixes(s, s, x)
  BY DEF Mixes
<1>3. Mixes(s, Append(s, x), x)
  <2>1. PICK t : t = Append(s, x)
    OBVIOUS
  <2>2. Len(t) = n + 1 /\ (\A i \in 1..n : t[i] = s[i]) /\ t[n + 1] = x
    BY <1>1, <2>1, AppendSequence
  <2>3. \A i \in 1..(n + 1) : i \in 1..n \/ i = n + 1
    OBVIOUS
  <2> QED
    BY <1>1, <2>1, <2>2, <2>3 DEF Mixes
<1>4. Mixes(s, Reverse(s), x)
  BY ReverseFacts DEF Mixes
<1>5. ASSUME NEW i \in 1..n
      PROVE  Mixes(s, RemoveAt(s, i), x)
  <2>1. PICK t : t = RemoveAt(s, i)
    OBVIOUS
  <2>2. Len(t) = n - 1 /\ \A j \in 1..(n - 1) : t[j] = IF j < i THEN s[j] ELSE s[j + 1]
    BY Zenon, <1>1, <2>1, RemoveSequence
  <2>3. \A j \in 1..(n - 1) : j \in 1..n /\ j + 1 \in 1..n
    OBVIOUS
  <2> QED
    BY Zenon, <1>1, <2>1, <2>2, <2>3 DEF Mixes
<1>6. ASSUME NEW i \in 1..(n + 1)
      PROVE  Mixes(s, InsertAt(s, i, x), x)
  <2>1. PICK t : t = InsertAt(s, i, x)
    OBVIOUS
  <2>2. Len(t) = n + 1 /\ \A j \in 1..(n + 1) : t[j] = IF j < i THEN s[j] ELSE IF j = i THEN x ELSE s[j - 1]
    BY <1>1, <2>1, InsertSequence
  <2>3. \A j \in 1..(n + 1) : (j < i => j \in 1..n) /\ (~(j < i) /\ j # i => j - 1 \in 1..n)
    OBVIOUS
  <2> QED
    BY <1>1, <2>1, <2>2, <2>3 DEF Mixes
<1>7. ASSUME NEW i
      PROVE  Mixes(s, [s EXCEPT ![i] = x], x)
  <2>1. PICK t : t = [s EXCEPT ![i] = x]
    OBVIOUS
  <2>2. Len(t) = n /\ \A j \in 1..n : t[j] = IF j = i THEN x ELSE s[j]
    BY <1>1, <2>1, OverwrittenSequence
  <2> QED
    BY <1>1, <2>1, <2>2 DEF Mixes
<1>8. ASSUME s # <<>>
      PROVE  Mixes(s, Front(s), x)
  <2>1. n # 0
    BY <1>1, <1>8, SequenceFacts
  <2>2. PICK t : t = Front(s) /\ t = SubSeq(s, 1, n - 1)
    BY Zenon, <1>1 DEF Front
  <2>3. /\ Len(t) = IF 1 <= n - 1 THEN (n - 1) - 1 + 1 ELSE 0
        /\ \A i \in 1..((n - 1) - 1 + 1) : t[i] = s[1 + i - 1]
    <3>1. n - 1 \in Nat /\ n - 1 <= Len(s)
      BY <1>1, <2>1
    <3>2. 1 \in Nat \ {0}
      OBVIOUS
    <3> QED
      BY <2>2, <3>1, <3>2, PartSequence
  <2>4. Len(t) = n - 1 /\ \A i \in 1..(n - 1) : t[i] = s[i] /\ i \in 1..n
    <3>1. Len(t) = n - 1
      BY <2>1, <2>3
    <3>2. \A i \in 1..(n - 1) : i \in 1..((n - 1) - 1 + 1) /\ 1 + i - 1 = i /\ i \in 1..n
      BY <2>1
    <3> QED
      BY <2>3, <3>1, <3>2
  <2> QED
    BY <1>1, <2>2, <2>4 DEF Mixes
<1>9. ASSUME s # <<>>
      PROVE  Mixes(s, Tail(s), x)
  <2>1. s \in Seq(ToSet(s))
    BY SequenceFacts
  <2>2. PICK t : t = Tail(s)
    OBVIOUS
  <2>3. Len(t) = n - 1
    BY <1>1, <1>9, <2>2, TailSequence
  <2>4. \A i \in 1..(n - 1) : t[i] = s[i + 1]
    BY <1>1, <1>9, <2>1, <2>2
  <2>5. \A i \in 1..(n - 1) : i + 1 \in 1..n
    OBVIOUS
  <2> QED
    BY <1>1, <2>2, <2>3, <2>4, <2>5 DEF Mixes
<1> QED
  BY <1>1, <1>2, <1>3, <1>4, <1>5, <1>6, <1>7, <1>8, <1>9

\* What an operation leaves of a container.
Harmless(c, o) ==
    /\ c.k # "struct" /\ PlainParts(c.k, c.subs) => PlainParts(c.k, o.subs)
    /\ c.k \in {"string", "coroutine"} => Len(o.subs) = Len(c.subs)

LEMMA SameHarmless ==
    ASSUME NEW c, NEW o, o.subs = c.subs
    PROVE  Harmless(c, o)
BY DEF Harmless

LEMMA MixHarmless ==
    ASSUME NEW c, c.k \notin {"map", "string", "coroutine"}, NEW x, IsElement(x), NEW o, Mixes(c.subs, o.subs, x)
    PROVE  Harmless(c, o)
<1>1. PlainPart(c.k, x)
  BY DEF PlainPart
<1> QED
  BY <1>1, MixesPlain DEF Harmless

LEMMA FunctionsHarmless ==
    ASSUME NEW c, WellMade(c), NEW x, IsElement(x)
    PROVE  /\ Harmless(c, Push(c, x)) /\ Harmless(c, InsertFront(c, x)) /\ Harmless(c, InsertBack(c, x))
           /\ Harmless(c, Pop(c)) /\ Harmless(c, RemoveFront(c)) /\ Harmless(c, RemoveBack(c))
<1>1. PICK s : s = c.subs /\ IsSequence(s) /\ Len(s) \in Nat
  BY SequenceFacts DEF WellMade
<1>2. \A v : Harmless(c, Answer(c, v))
  BY SameHarmless, OutcomeFields
<1>3. ASSUME c.k \in {"array", "stack", "queue"}, NEW v, NEW t, Mixes(s, t, x)
      PROVE  Harmless(c, Change(c, v, t)) /\ Harmless(c, Returning(Null, Change(c, v, t)))
  <2>1. Change(c, v, t).subs = t /\ Returning(Null, Change(c, v, t)).subs = t
    BY OutcomeFields, ReturningFields
  <2> QED
    BY <1>1, <1>3, <2>1, MixHarmless
<1>4. /\ Mixes(s, Append(s, x), x)
      /\ s # <<>> => Mixes(s, Front(s), x) /\ Mixes(s, Tail(s), x) /\ Mixes(s, RemoveAt(s, 1), x)
      /\ Mixes(s, InsertAt(s, 1, x), x)
  <2>1. s # <<>> => 1 \in 1..Len(s)
    BY <1>1, SequenceFacts
  <2>2. 1 \in 1..(Len(s) + 1)
    BY <1>1
  <2> QED
    BY <1>1, <2>1, <2>2, SequencesMix
<1>5. Harmless(c, Push(c, x))
  BY <1>1, <1>2, <1>3, <1>4 DEF Push, PushBack
<1>6. Harmless(c, InsertFront(c, x)) /\ Harmless(c, InsertBack(c, x))
  BY <1>1, <1>2, <1>3, <1>4 DEF InsertFront, InsertBack, UnsafeInsert, PushBack
<1>7. Harmless(c, Pop(c))
  <2>1. CASE c.k \in {"array", "stack"}
    <3>1. Pop(c) = IF s = <<>> THEN Answer(c, OutOfRange) ELSE Change(c, Last(s), Front(s))
      BY <1>1, <2>1 DEF Pop, OrEmpty, UnsafePopBack
    <3> QED
      BY <1>2, <1>3, <1>4, <2>1, <3>1
  <2>2. CASE c.k = "queue"
    <3>1. Pop(c) = IF s = <<>> THEN Answer(c, OutOfRange) ELSE Change(c, Head(s), Tail(s))
      BY <1>1, <2>2 DEF Pop, OrEmpty, PopFront
    <3> QED
      BY <1>2, <1>3, <1>4, <2>2, <3>1
  <2>3. CASE c.k \notin {"array", "stack", "queue"}
    <3>1. Pop(c) = Answer(c, InvalidArgument)
      BY <2>3 DEF Pop
    <3> QED
      BY <1>2, <3>1
  <2> QED
    BY <2>1, <2>2, <2>3
<1>8. Harmless(c, RemoveFront(c))
  <2>1. CASE c.k = "array" /\ s # <<>>
    <3>1. RemoveFront(c) = Returning(Null, Change(c, s[1], RemoveAt(s, 1)))
      BY <1>1, <2>1 DEF RemoveFront, UnsafeErase
    <3> QED
      BY <1>3, <1>4, <2>1, <3>1
  <2>2. CASE ~(c.k = "array" /\ s # <<>>)
    <3>1. \E v : RemoveFront(c) = Answer(c, v)
      BY <1>1, <2>2 DEF RemoveFront
    <3> QED
      BY <1>2, <3>1
  <2> QED
    BY <2>1, <2>2
<1>9. Harmless(c, RemoveBack(c))
  <2>1. CASE c.k = "array" /\ s # <<>>
    <3>1. RemoveBack(c) = Returning(Null, Change(c, Last(s), Front(s)))
      BY <1>1, <2>1 DEF RemoveBack, UnsafePopBack
    <3> QED
      BY <1>3, <1>4, <2>1, <3>1
  <2>2. CASE ~(c.k = "array" /\ s # <<>>)
    <3>1. \E v : RemoveBack(c) = Answer(c, v)
      BY <1>1, <2>2 DEF RemoveBack
    <3> QED
      BY <1>2, <3>1
  <2> QED
    BY <2>1, <2>2
<1> QED
  BY <1>5, <1>6, <1>7, <1>8, <1>9

\* The pair of a key and what is written to it.
LEMMA PairPlain ==
    ASSUME NEW key, NEW x, IsElement(key), IsElement(x)
    PROVE  PlainPart("map", Pair(key, x)) /\ Pair(key, x).subs[1] = key /\ Pair(key, x).subs[2] = x
<1>1. Pair(key, x).subs[1] = key /\ Pair(key, x).subs[2] = x
  BY DEF Pair, Container, Object
<1> QED
  BY <1>1 DEF PlainPart

\* Where a key is found, there is an entry.
LEMMA MapsHarmless ==
    ASSUME NEW c, WellMade(c), c.k = "map", NEW key, IsElement(key), NEW x, IsElement(x)
    PROVE  /\ Harmless(c, MapAssign(c, key, x)) /\ Harmless(c, MapErase(c, key))
           /\ PlainParts("map", c.subs) => PlainParts("map", MapAssign(c, key, x).subs)
<1>1. PICK s : s = c.subs /\ IsSequence(s) /\ Len(s) \in Nat
  BY SequenceFacts DEF WellMade
<1>2. PICK i : i = MapFind(c, key)
  OBVIOUS
<1>3. PICK l : l = LowerBound(c, key)
  OBVIOUS
<1>4. l \in 1..(Len(s) + 1) /\ (i # 0 => i \in 1..Len(s))
  <2>1. l \in 1..(Len(s) + 1)
    BY <1>1, <1>3, LowerBoundRange
  <2>2. i = IF l <= Len(s) /\ StrictOrder(key, s[l].subs[1]) # -1 THEN l ELSE 0
    BY <1>1, <1>2, <1>3 DEF MapFind
  <2> QED
    BY <1>1, <2>1, <2>2
<1>5. ASSUME PlainParts("map", s)
      PROVE  PlainParts("map", MapAssign(c, key, x).subs) /\ PlainParts("map", MapErase(c, key).subs)
  <2>1. MapContains(c, key) <=> i # 0
    BY <1>2 DEF MapContains
  <2>2. CASE i # 0
    <3>1. PICK old : old = s[i].subs[1] /\ IsElement(old)
      BY <1>4, <1>5, <2>2 DEF PlainParts, PlainPart
    <3>2. PlainPart("map", Pair(old, x))
      BY <3>1, PairPlain
    <3>3. MapAssign(c, key, x) = Overwrite(c, Null, [s EXCEPT ![i] = Pair(old, x)])
      BY <1>1, <1>2, <2>1, <2>2, <3>1 DEF MapAssign
    <3>4. MapAssign(c, key, x).subs = [s EXCEPT ![i] = Pair(old, x)]
      BY <3>3, OutcomeFields
    <3>5. PlainParts("map", MapAssign(c, key, x).subs)
      <4>1. Mixes(s, [s EXCEPT ![i] = Pair(old, x)], Pair(old, x))
        BY Zenon, <1>1, SequencesMix
      <4> QED
        BY <1>5, <3>2, <3>4, <4>1, MixesPlain
    <3>6. MapErase(c, key).subs = RemoveAt(s, i)
      BY <1>1, <1>2, <2>1, <2>2, OutcomeFields DEF MapErase
    <3>7. PlainParts("map", RemoveAt(s, i))
      <4>1. Mixes(s, RemoveAt(s, i), Pair(old, x))
        BY <1>1, <1>4, <2>2, SequencesMix
      <4> QED
        BY <1>5, <3>2, <4>1, MixesPlain
    <3> QED
      BY <3>5, <3>6, <3>7
  <2>3. CASE i = 0
    <3>1. PlainPart("map", Pair(key, x))
      BY PairPlain
    <3>2. MapAssign(c, key, x).subs = InsertAt(s, l, Pair(key, x))
      BY <1>1, <1>3, <2>1, <2>3, OutcomeFields DEF MapAssign
    <3>3. Mixes(s, InsertAt(s, l, Pair(key, x)), Pair(key, x))
      BY <1>1, <1>4, SequencesMix
    <3>4. PlainParts("map", MapAssign(c, key, x).subs)
      BY <1>5, <3>1, <3>2, <3>3, MixesPlain
    <3>5. MapErase(c, key).subs = s
      BY <1>1, <2>1, <2>3, OutcomeFields DEF MapErase
    <3> QED
      BY <1>5, <3>4, <3>5
  <2> QED
    BY <2>2, <2>3
<1> QED
  BY <1>1, <1>5 DEF Harmless

LEMMA EntriesHarmless ==
    ASSUME NEW c, WellMade(c), NEW key, IsElement(key), NEW x, IsElement(x)
    PROVE  /\ Harmless(c, Insert(c, key, x)) /\ Harmless(c, RemoveKey(c, key)) /\ Harmless(c, AtWrite(c, key, x))
           /\ c.k = "map" => Harmless(c, MapMemberErase(c, key)) /\ Harmless(c, PluginMapPut(c, key, x))
<1>1. PICK s, n : s = c.subs /\ IsSequence(s) /\ n = Len(s) /\ n \in Nat
  BY SequenceFacts DEF WellMade
<1>2. \A v : Harmless(c, Answer(c, v))
  BY SameHarmless, OutcomeFields
<1>3. CASE c.k = "map"
  <2>1. PICK a, e : a = MapAssign(c, key, x) /\ e = MapErase(c, key)
    OBVIOUS
  <2>2. Harmless(c, a) /\ Harmless(c, e)
    BY <1>3, <2>1, MapsHarmless
  <2>3. IsOutcome(a) /\ IsOutcome(e)
    BY Zenon, <1>3, <2>1, MapsSound DEF Sound
  <2>4. MapMemberErase(c, key).subs = e.subs
    <3>1. PICK v, w : v = MapAt(c, key) /\ w = [e EXCEPT !.value = v]
      OBVIOUS
    <3>2. PICK y, u, t, b : e = [value |-> y, subs |-> u, ids |-> t, bumped |-> b]
      BY <2>3 DEF IsOutcome
    <3>3. w.subs = e.subs
      BY <3>1, <3>2
    <3> QED
      BY <2>1, <3>1, <3>3 DEF MapMemberErase
  <2>5. PluginMapPut(c, key, x).subs = a.subs
    <3>1. PICK w : w = [a EXCEPT !.bumped = FALSE]
      OBVIOUS
    <3>2. PICK y, u, t, b : a = [value |-> y, subs |-> u, ids |-> t, bumped |-> b]
      BY <2>3 DEF IsOutcome
    <3>3. w.subs = a.subs
      BY <3>1, <3>2
    <3> QED
      BY <2>1, <3>1, <3>3 DEF PluginMapPut
  <2>6. Insert(c, key, x) = a /\ RemoveKey(c, key) = e /\ AtWrite(c, key, x) = a
    BY <1>3, <2>1 DEF Insert, RemoveKey, AtWrite, IsContiguous
  <2> QED
    BY <2>2, <2>4, <2>5, <2>6 DEF Harmless
<1>4. CASE c.k # "map"
  <2>1. Harmless(c, Insert(c, key, x))
    <3>1. CASE c.k = "array" /\ ToIndex(key, n + 1) # 0
      <4>1. PICK i : i = ToIndex(key, n + 1) /\ i \in 1..(n + 1)
        <5>1. PICK j : j = (IF key.n < 0 THEN key.n + (n + 1) ELSE key.n) /\ j \in 0..((n + 1) - 1)
                       /\ ToIndex(key, n + 1) = j + 1
          BY <3>1 DEF ToIndex
        <5>2. j + 1 \in 1..(n + 1)
          BY <1>1, <5>1
        <5> QED
          BY <5>1, <5>2
      <4>2. Insert(c, key, x) = Change(c, Null, InsertAt(s, i, x))
        BY <1>1, <3>1, <4>1 DEF Insert, UnsafeInsert
      <4>3. Mixes(s, InsertAt(s, i, x), x)
        BY <1>1, <4>1, SequencesMix
      <4>4. Mixes(c.subs, Insert(c, key, x).subs, x)
        BY <1>1, <4>2, <4>3, OutcomeFields
      <4> QED
        BY <3>1, <4>4, MixHarmless
    <3>2. CASE ~(c.k = "array" /\ ToIndex(key, n + 1) # 0)
      <4>1. \E v : Insert(c, key, x) = Answer(c, v)
        BY <1>1, <1>4, <3>2 DEF Insert
      <4> QED
        BY <1>2, <4>1
    <3> QED
      BY <3>1, <3>2
  <2>2. ToIndex(key, n) # 0 => ToIndex(key, n) \in 1..n
    <3>1. ASSUME ToIndex(key, n) # 0
          PROVE  ToIndex(key, n) \in 1..n
      <4>1. PICK j : j = (IF key.n < 0 THEN key.n + n ELSE key.n) /\ j \in 0..(n - 1)
                     /\ ToIndex(key, n) = j + 1
        BY <3>1 DEF ToIndex
      <4> QED
        BY <1>1, <4>1
    <3> QED
      BY <3>1
  <2>3. Harmless(c, RemoveKey(c, key))
    <3>1. CASE c.k = "array" /\ ToIndex(key, n) # 0
      <4>1. PICK i : i = ToIndex(key, n) /\ i \in 1..n
        BY <2>2, <3>1
      <4>2. RemoveKey(c, key) = Returning(Null, Change(c, s[i], RemoveAt(s, i)))
        BY <1>1, <3>1, <4>1 DEF RemoveKey, UnsafeErase
      <4>3. Mixes(s, RemoveAt(s, i), x)
        BY <1>1, <4>1, SequencesMix
      <4>4. Mixes(c.subs, RemoveKey(c, key).subs, x)
        BY <1>1, <4>2, <4>3, ReturningFields
      <4> QED
        BY <3>1, <4>4, MixHarmless
    <3>2. CASE ~(c.k = "array" /\ ToIndex(key, n) # 0)
      <4>1. \E v : RemoveKey(c, key) = Answer(c, v)
        BY <1>1, <1>4, <3>2 DEF RemoveKey
      <4> QED
        BY <1>2, <4>1
    <3> QED
      BY <3>1, <3>2
  <2>4. Harmless(c, AtWrite(c, key, x))
    <3>1. CASE IsContiguous(c) /\ ToIndex(key, n) # 0
      <4>1. PICK i : i = ToIndex(key, Len(c.subs)) /\ i # 0
        BY <1>1, <3>1
      <4>2. AtWrite(c, key, x) = Overwrite(c, Null, [s EXCEPT ![i] = x])
        <5>1. PICK w : w = Overwrite(c, Null, [c.subs EXCEPT ![i] = x])
          OBVIOUS
        <5>2. c.k \in {"array", "tuple"}
          BY <3>1 DEF IsContiguous
        <5>3. AtWrite(c, key, x) = IF i = 0 THEN Answer(c, OutOfRange) ELSE w
          BY <4>1, <5>1, <5>2 DEF AtWrite, IsContiguous
        <5> QED
          BY <1>1, <4>1, <5>1, <5>3
      <4>3. Mixes(s, [s EXCEPT ![i] = x], x)
        BY Zenon, <1>1, SequencesMix
      <4>4. Mixes(c.subs, AtWrite(c, key, x).subs, x)
        BY <1>1, <4>2, <4>3, OutcomeFields
      <4>5. c.k \notin {"map", "string", "coroutine"}
        BY <3>1 DEF IsContiguous
      <4> QED
        BY <4>4, <4>5, MixHarmless
    <3>2. CASE ~(IsContiguous(c) /\ ToIndex(key, n) # 0)
      <4>1. \E v : AtWrite(c, key, x) = Answer(c, v)
        BY <1>1, <1>4, <3>2 DEF AtWrite
      <4> QED
        BY <1>2, <4>1
    <3> QED
      BY <3>1, <3>2
  <2> QED
    BY <1>4, <2>1, <2>3, <2>4
<1> QED
  BY <1>3, <1>4

LEMMA ArraysHarmless ==
    ASSUME NEW c, WellMade(c), c.k = "array", NEW i, NEW x, IsElement(x)
    PROVE  /\ Harmless(c, MemberInsert(c, i, x)) /\ Harmless(c, MemberErase(c, i)) /\ Harmless(c, PluginArrayPut(c, i, x))
           /\ Harmless(c, ReverseInPlace(c)) /\ Harmless(c, Fill(c, x))
           /\ \A sign : \A o \in Sorted(c, sign) : Harmless(c, o)
<1>1. PICK s, n : s = c.subs /\ IsSequence(s) /\ n = Len(s) /\ n \in Nat /\ DOMAIN s = 1..n
  BY SequenceFacts DEF WellMade
<1>2. \A v : Harmless(c, Answer(c, v))
  BY SameHarmless, OutcomeFields
<1>3. ASSUME NEW v, NEW t, Mixes(s, t, x)
      PROVE  Harmless(c, Change(c, v, t)) /\ Harmless(c, Overwrite(c, v, t))
  <2>1. Change(c, v, t).subs = t /\ Overwrite(c, v, t).subs = t
    BY OutcomeFields
  <2> QED
    BY <1>1, <1>3, <2>1, MixHarmless
<1>4. Harmless(c, MemberInsert(c, i, x))
  <2>1. PICK g : g = GuardIndex(i, n + 1) /\ (g # 0 => g \in 1..(n + 1))
    <3>1. GuardIndex(i, n + 1) # 0 => GuardIndex(i, n + 1) \in 1..(n + 1)
      BY <1>1 DEF GuardIndex
    <3> QED
      BY <3>1
  <2>2. MemberInsert(c, i, x) = IF g = 0 THEN Answer(c, OutOfRange) ELSE Change(c, Null, InsertAt(s, g, x))
    BY <1>1, <2>1 DEF MemberInsert, UnsafeInsert
  <2>3. g # 0 => Mixes(s, InsertAt(s, g, x), x)
    BY <1>1, <2>1, SequencesMix
  <2> QED
    BY <1>2, <1>3, <2>2, <2>3
<1>5. Harmless(c, MemberErase(c, i)) /\ Harmless(c, PluginArrayPut(c, i, x))
  <2>1. PICK g : g = GuardIndex(i, n) /\ (g # 0 => g \in 1..n)
    <3>1. GuardIndex(i, n) # 0 => GuardIndex(i, n) \in 1..n
      BY <1>1 DEF GuardIndex
    <3> QED
      BY <3>1
  <2>2. MemberErase(c, i) = IF g = 0 THEN Answer(c, OutOfRange) ELSE Change(c, s[g], RemoveAt(s, g))
    BY <1>1, <2>1 DEF MemberErase, UnsafeErase
  <2>3. PluginArrayPut(c, i, x) = IF g = 0 THEN Answer(c, OutOfRange) ELSE Overwrite(c, Null, [s EXCEPT ![g] = x])
    BY <1>1, <2>1 DEF PluginArrayPut
  <2>4. /\ g # 0 => Mixes(s, RemoveAt(s, g), x)
        /\ Mixes(s, [s EXCEPT ![g] = x], x)
    BY Zenon, <1>1, <2>1, SequencesMix
  <2>5. Harmless(c, MemberErase(c, i))
    BY <1>2, <1>3, <2>2, <2>4
  <2>6. Harmless(c, PluginArrayPut(c, i, x))
    BY <1>2, <1>3, <2>3, <2>4
  <2> QED
    BY <2>5, <2>6
<1>6. Harmless(c, ReverseInPlace(c))
  <2>1. Mixes(s, Reverse(s), x)
    BY <1>1, SequencesMix
  <2> QED
    BY <1>1, <1>3, <2>1 DEF ReverseInPlace
<1>7. Harmless(c, Fill(c, x))
  <2>1. PICK t : t = [j \in 1..n |-> x]
    OBVIOUS
  <2>2. t = [j \in 1..n |-> t[j]]
    BY <2>1
  <2>3. Len(t) = n
    BY <1>1, <2>2, FunctionIsSequence
  <2>4. Mixes(s, t, x)
    BY Zenon, <2>1, <2>3 DEF Mixes
  <2>5. Fill(c, x) = Overwrite(c, Null, t)
    BY <1>1, <2>1 DEF Fill
  <2> QED
    BY <1>3, <2>4, <2>5
<1>8. ASSUME NEW sign, NEW o \in Sorted(c, sign)
      PROVE  Harmless(c, o)
  <2>1. PICK t \in Arrangements(s) : o = Overwrite(c, Null, t)
    BY <1>1 DEF Sorted
  <2>2. PICK p \in [1..n -> 1..n] : t = [j \in 1..n |-> s[p[j]]]
    BY <1>1, <2>1 DEF Arrangements
  <2>3. t = [j \in 1..n |-> t[j]]
    BY <2>2
  <2>4. Len(t) = n
    BY <1>1, <2>3, FunctionIsSequence
  <2>5. \A j \in 1..n : t[j] = s[p[j]] /\ p[j] \in 1..n
    BY <2>2
  <2>6. Mixes(s, t, x)
    BY Zenon, <1>1, <2>4, <2>5 DEF Mixes
  <2> QED
    BY <1>3, <2>1, <2>6
<1> QED
  BY <1>4, <1>5, <1>6, <1>7, <1>8

\* What the functions that make new containers put into them.
LEMMA MergedPlain ==
    ASSUME NEW l, WellMade(l), l.k = "map", Plain(l), NEW r, WellMade(r), r.k = "map", Plain(r)
    PROVE  Plain(Merged(l, r))
<1>1. PICK n \in Nat : n = Len(r.subs) /\ IsSequence(r.subs)
  BY SequenceFacts DEF WellMade
<1>2. PlainParts("map", l.subs) /\ \A i \in 1..n : IsElement(r.subs[i].subs[1]) /\ IsElement(r.subs[i].subs[2])
  BY <1>1, PlainIs DEF PlainParts, PlainPart
<1>3. PICK f : IsMerge(l, r, n, f) /\ Merged(l, r) = f[n]
  BY Zenon, <1>1, MergeExists, MergedIs
<1>4. \A k \in 0..n : f[k] = IF k = 0 THEN l ELSE MergeStep(l, r, k, f[k - 1])
  BY <1>3 DEF IsMerge
<1>5. PICK T : T = {k \in Nat : k \in 0..n => WellMade(f[k]) /\ f[k].k = "map" /\ PlainParts("map", f[k].subs)}
  OBVIOUS
<1>6. ASSUME NEW k \in Nat, \A j \in 0..(k - 1) : j \in T
      PROVE  k \in T
  <2>1. CASE k = 0 \/ k > n
    BY <1>2, <1>4, <1>5, <2>1
  <2>2. CASE k # 0 /\ k \in 0..n
    <3>1. PICK m : m = f[k - 1] /\ WellMade(m) /\ m.k = "map" /\ PlainParts("map", m.subs)
      BY <1>5, <1>6, <2>2
    <3>2. f[k] = MergeStep(l, r, k, m)
      BY <1>4, <2>2, <3>1
    <3>3. PICK o : /\ o = MapAssign(m, r.subs[k].subs[1], r.subs[k].subs[2])
                   /\ IsSequence(o.subs) /\ PlainParts("map", o.subs)
      <4>1. IsElement(r.subs[k].subs[1]) /\ IsElement(r.subs[k].subs[2])
        BY <1>2, <2>2
      <4> QED
        BY Zenon, <3>1, <4>1, MapsSound, MapsHarmless DEF Sound
    <3>4. /\ WellMade(Container("map", o.subs)) /\ Container("map", o.subs).k = "map"
          /\ Container("map", o.subs).subs = o.subs
      BY <3>3, NewWellMade
    <3>5. WellMade(f[k]) /\ f[k].k = "map" /\ PlainParts("map", f[k].subs)
      BY Zenon, <3>1, <3>2, <3>3, <3>4 DEF MergeStep
    <3> QED
      BY <1>5, <3>5
  <2> QED
    BY <2>1, <2>2
<1>7. T = Nat
  BY <1>5, <1>6, Induction
<1> QED
  BY <1>3, <1>5, <1>7, PlainIs

LEMMA DerivedPlain ==
    ASSUME NEW c, WellMade(c), Plain(c), c.k # "struct"
    PROVE  /\ c.k = "map" => Plain(MapKeys(c)) /\ Plain(MapValues(c))
           /\ c.k # "map" =>
                 /\ Plain(Reversed(c)) /\ Plain(Container("array", c.subs))
                 /\ \A b, e : Slice(c, b, e) # OutOfRange => Plain(Slice(c, b, e))
<1>1. PICK s, n : s = c.subs /\ IsSequence(s) /\ n = Len(s) /\ n \in Nat /\ DOMAIN s = 1..n
  BY SequenceFacts DEF WellMade
<1>2. /\ c.k = "map" => \A i \in 1..n : IsElement(s[i].subs[1]) /\ IsElement(s[i].subs[2])
      /\ c.k # "map" => \A i \in 1..n : IsElement(s[i])
  BY <1>1 DEF Plain
<1>3. ASSUME NEW t, \A i \in 1..Len(t) : IsElement(t[i])
      PROVE  Plain(Container("array", t))
  <2>1. Container("array", t).k = "array" /\ Container("array", t).subs = t
    BY DEF Container, Object
  <2> QED
    BY <1>3, <2>1 DEF Plain
<1>4. ASSUME c.k = "map"
      PROVE  Plain(MapKeys(c)) /\ Plain(MapValues(c))
  <2>1. PICK t : t = [i \in 1..n |-> s[i].subs[1]]
    OBVIOUS
  <2>2. PICK u : u = [i \in 1..n |-> s[i].subs[2]]
    OBVIOUS
  <2>3. Len(t) = n /\ Len(u) = n
    BY <1>1, <2>1, <2>2
  <2>4. \A i \in 1..n : IsElement(t[i]) /\ IsElement(u[i])
    BY <1>2, <1>4, <2>1, <2>2
  <2>5. MapKeys(c) = Container("array", t) /\ MapValues(c) = Container("array", u)
    BY <1>1, <2>1, <2>2 DEF MapKeys, MapValues, KeysOf
  <2> QED
    BY <1>3, <2>3, <2>4, <2>5
<1>5. ASSUME c.k # "map"
      PROVE  Plain(Reversed(c)) /\ Plain(Container("array", c.subs))
  <2>1. Len(Reverse(s)) = n /\ \A i \in 1..n : IsElement(Reverse(s)[i])
    BY Zenon, <1>1, <1>2, <1>5, ReverseFacts
  <2> QED
    BY <1>1, <1>2, <1>3, <1>5, <2>1 DEF Reversed
<1>6. ASSUME c.k # "map", NEW b, NEW e, Slice(c, b, e) # OutOfRange
      PROVE  Plain(Slice(c, b, e))
  <2>1. /\ b \in 0..n /\ e \in 0..n /\ b <= e
        /\ Slice(c, b, e) = Container("array", SubSeq(s, b + 1, e))
    BY <1>1, <1>6 DEF Slice
  <2>2. b + 1 \in Nat \ {0} /\ e \in Nat /\ e <= Len(s)
    BY <1>1, <2>1
  <2>3. PICK t : t = SubSeq(s, b + 1, e)
    OBVIOUS
  <2>4. /\ Len(t) = IF b + 1 <= e THEN e - (b + 1) + 1 ELSE 0
        /\ \A i \in 1..(e - (b + 1) + 1) : t[i] = s[(b + 1) + i - 1]
    BY <1>1, <2>2, <2>3, PartSequence
  <2>5. \A i \in 1..Len(t) : i \in 1..(e - (b + 1) + 1) /\ (b + 1) + i - 1 \in 1..n
    <3>1. PICK x, y : x = b /\ x \in 0..n /\ y = e /\ y \in 0..n
      BY <2>1
    <3>2. Len(t) = IF x + 1 <= y THEN y - (x + 1) + 1 ELSE 0
      BY <2>4, <3>1
    <3>3. \A i \in 1..Len(t) : i \in 1..(y - (x + 1) + 1) /\ (x + 1) + i - 1 \in 1..n
      BY <1>1, <3>1, <3>2
    <3> QED
      BY <3>1, <3>3
  <2>6. \A i \in 1..Len(t) : IsElement(t[i])
    BY <1>2, <1>6, <2>4, <2>5
  <2> QED
    BY Zenon, <1>3, <2>1, <2>3, <2>6
<1> QED
  BY <1>4, <1>5, <1>6

\* The iterators after a move, and after another has been made.
LEMMA AlikeFormed ==
    ASSUME NEW its, NEW sizes, NEW kinds, Formed(its, sizes, kinds), NEW others, Alike(its, others), Nested(others),
           \A j \in 1..Len(its) : others[j].index \in Int,
           \A j \in 1..Len(its) : its[j].form = "coroutine" => others[j].index \in 0..sizes[its[j].of[1]]
    PROVE  Formed(others, sizes, kinds) /\ Extends(its, others) /\ Len(others) = Len(its)
<1>1. Extends(its, others) /\ Len(others) = Len(its)
  BY AlikeExtends DEF Alike
<1>2. ASSUME NEW j \in 1..Len(its)
      PROVE  FormedOne(others[j], sizes, kinds)
  <2>1. PICK it, other : it = its[j] /\ other = others[j]
    OBVIOUS
  <2>2. /\ other.form = it.form /\ other.of = it.of
        /\ other.begin = it.begin /\ other.end = it.end /\ other.step = it.step
    BY <1>1, <2>1 DEF Extends, SameOne
  <2>3. FormedOne(it, sizes, kinds)
    BY <2>1 DEF Formed
  <2>4. other.index \in Int /\ (other.form = "coroutine" => other.index \in 0..sizes[other.of[1]])
    BY <2>1, <2>2
  <2>5. (OverContainer(other) <=> OverContainer(it)) /\ (Wraps(other) <=> Wraps(it))
        /\ (RangeFormed(other) <=> RangeFormed(it))
    BY <2>2 DEF OverContainer, Wraps, RangeFormed
  <2>6. FormedOne(other, sizes, kinds)
    BY <2>2, <2>3, <2>4, <2>5 DEF FormedOne
  <2> QED
    BY <2>1, <2>6
<1> QED
  BY <1>1, <1>2 DEF Formed

LEMMA AppendFormed ==
    ASSUME NEW its, NEW sizes, NEW kinds, Formed(its, sizes, kinds), NEW it, FormedOne(it, sizes, kinds),
           Nested(Append(its, it))
    PROVE  Formed(Append(its, it), sizes, kinds)
<1>1. PICK others, n : others = Append(its, it) /\ n = Len(its) /\ n \in Nat
  BY Zenon, SequenceFacts DEF Formed, Nested
<1>2. Len(others) = n + 1 /\ (\A j \in 1..n : others[j] = its[j]) /\ others[n + 1] = it
  BY <1>1, AppendSequence DEF Formed, Nested
<1>3. ASSUME NEW j \in 1..(n + 1)
      PROVE  FormedOne(others[j], sizes, kinds)
  <2>1. CASE j = n + 1
    BY <1>2, <2>1
  <2>2. CASE j # n + 1
    <3>1. j \in 1..n
      BY <1>1, <2>2
    <3>2. others[j] = its[j]
      BY <1>2, <3>1
    <3> QED
      BY <1>1, <3>1, <3>2 DEF Formed
  <2> QED
    BY <2>1, <2>2
<1> QED
  BY <1>1, <1>2, <1>3 DEF Formed

LEMMA MoveWhole ==
    ASSUME NEW its, HeapOK, Formed(its, Sizes, Kinds), NEW i \in 1..Len(its), Simple(its, i), NEW n \in Int,
           MovableAll(its, i, n), NEW out \in Moved(its, i, n)
    PROVE  /\ out.thrown = Null
           /\ (\A j \in 1..Len(its) : out.iters[j].index \in Int) =>
                 \A p \in Spots(its, Sizes, i) : p + n \in Spots(out.iters, Sizes, i)
<1>1. MovesOnce(its, i)
  BY MovesOrdered
<1>2. \A k \in 1..Len(Moves(its, i)) : Movable(its[Moves(its, i)[k].at], n * Moves(its, i)[k].by)
  BY DEF MovableAll
<1>3. out.thrown = Null
  BY <1>1, <1>2, MovedThere
<1>4. Shifted(its, out.iters, i, n)
  BY <1>1, <1>2, MovedThere DEF Shifted
<1>5. ASSUME \A j \in 1..Len(its) : out.iters[j].index \in Int
      PROVE  \A p \in Spots(its, Sizes, i) : p + n \in Spots(out.iters, Sizes, i)
  <2>1. /\ Alike(its, out.iters) /\ Nested(out.iters)
        /\ \A j \in 1..Len(its) : its[j].form = "coroutine" => out.iters[j].index \in 0..Sizes[its[j].of[1]]
    BY MovedKeeps
  <2>2. Formed(out.iters, Sizes, Kinds) /\ Extends(its, out.iters)
    BY Zenon, <1>5, <2>1, AlikeFormed
  <2> QED
    BY <1>4, <2>2, Carried
<1> QED
  BY <1>3, <1>5

-----------------------------------------------------------------------------
(* Traversals *)

\* The history of each iterator.
Booked(h, its) ==
    /\ IsSequence(h.taken) /\ Len(h.taken) = Len(its)
    /\ IsSequence(h.pristine) /\ Len(h.pristine) = Len(its)

\* Where an iterator is from which t elements have been taken.  Only a
\* reversed iterator moves on from its end.
Stands(its, sizes, i, t) ==
    \/ Count(its, sizes, i) = 0 /\ t = 0
    \/ t \in Spots(its, sizes, i)
    \/ its[i].form = "reversed" /\ t >= Count(its, sizes, i) /\ \E p \in Spots(its, sizes, i) : p >= t
Traversed(its, sizes, ver, h, i) ==
    h.pristine[i] =>
        /\ h.taken[i] \in Nat /\ Simple(its, i)
        /\ OrderlyIn(its, i) /\ FreshIn(its, ver, i) => Stands(its, sizes, i, h.taken[i])

TInv ==
    /\ PlainHeap /\ Formed(iters, Sizes, Kinds) /\ Booked(history, iters)
    /\ \A i \in 1..Len(iters) : Traversed(iters, Sizes, version, history, i)

\* The words of the property are those of the lemmas.
LEMMA TheSameWords ==
    ASSUME Formed(iters, Sizes, Kinds), NEW i \in 1..Len(iters)
    PROVE  /\ Fresh(i) <=> FreshIn(iters, version, i)
           /\ Orderly(i) <=> OrderlyIn(iters, i)
<1>1. Below(iters, i) \subseteq 1..i /\ \A j \in Below(iters, i) : j \in 1..Len(iters)
  BY BelowOlder, SequenceFacts DEF Formed, Nested
<1>2. Fresh(i) <=> FreshIn(iters, version, i)
  BY DEF Fresh, FreshIn, Stale, StaleIn
<1>3. ASSUME NEW j \in 1..Len(iters)
      PROVE  Reversible(j) <=> ReversibleIn(iters, j)
  <2>1. \A k \in Below(iters, j) : k \in 1..Len(iters)
    BY BelowOlder, SequenceFacts DEF Formed, Nested
  <2>2. ASSUME NEW k \in Below(iters, j), iters[k].form = "range"
        PROVE  ((iters[k].step < 0) = (iters[k].end < iters[k].begin))
               <=> Along(iters[k].begin, iters[k].end, iters[k].step)
    <3>1. FormedOne(iters[k], Sizes, Kinds)
      BY <2>1 DEF Formed
    <3>2. iters[k].begin \in Int /\ iters[k].end \in Int /\ iters[k].step \in Int
      BY <2>2, <3>1 DEF FormedOne, RangeFormed
    <3> QED
      BY <3>2 DEF Along
  <2>3. (\A k \in Below(iters, j) :
            /\ iters[k].form \notin {"map", "coroutine"}
            /\ iters[k].form = "range" => (iters[k].step < 0) = (iters[k].end < iters[k].begin))
        <=> ReversibleIn(iters, j)
    BY <2>2 DEF ReversibleIn
  <2> QED
    BY <2>3 DEF Reversible
<1> QED
  BY <1>1, <1>2, <1>3 DEF Orderly, OrderlyIn

LEMMA SpotsAreInt ==
    ASSUME NEW its, NEW sizes, NEW kinds, Formed(its, sizes, kinds), NEW i \in 1..Len(its)
    PROVE  Spots(its, sizes, i) \subseteq Int
<1>1. FormedOne(its[i], sizes, kinds)
  BY DEF Formed
<1>2. OverContainer(its[i]) \/ its[i].form = "range" \/ its[i].form = "reversed" \/ its[i].form = "combined"
  BY <1>1 DEF FormedOne, Wraps
<1> QED
  BY <1>2, PlaceForms

LEMMA TraversedComes ==
    ASSUME HeapOK, TInv
    PROVE  TraversalsComplete
<1>1. DOMAIN iters = 1..Len(iters)
  BY SequenceFacts DEF TInv, Formed, Nested
<1>2. SUFFICES ASSUME NEW i \in 1..Len(iters), history.pristine[i], Orderly(i), Fresh(i)
               PROVE  /\ Get(iters, i) = Comes(ElementsOf(i), history.taken[i])
                      /\ history.taken[i] = 0 /\ (\A j \in Below(iters, i) : iters[j].form # "coroutine") =>
                            IterSize(iters, i) = Integer(Len(ElementsOf(i)))
  BY <1>1 DEF TraversalsComplete
<1>3. PlainHeap /\ Formed(iters, Sizes, Kinds)
  BY DEF TInv
<1>4. OrderlyIn(iters, i) /\ FreshIn(iters, version, i)
  BY <1>2, <1>3, TheSameWords
<1>5. PICK t \in Nat : t = history.taken[i]
  BY <1>2 DEF TInv, Traversed
<1>6. Simple(iters, i) /\ Stands(iters, Sizes, i, t)
  BY <1>2, <1>4, <1>5 DEF TInv, Traversed
<1>7. PICK n \in Nat : n = Count(iters, Sizes, i)
  BY <1>3, <1>6, CountFacts
<1>8. Len(ElementsOf(i)) = n
  BY <1>3, <1>6, <1>7, ElementsCounted
<1>9. Get(iters, i) = IF t < n THEN ElementsOf(i)[t + 1] ELSE Stop
  <2>1. CASE n = 0 /\ t = 0
    <3>1. Get(iters, i) = Stop
      BY Zenon, <1>3, <1>4, <1>6, <1>7, <2>1, GetEmpty
    <3> QED
      BY <2>1, <3>1
  <2>2. \A p \in Spots(iters, Sizes, i) :
           p >= 0 => Get(iters, i) = IF p \in 0..(n - 1) THEN ElementsOf(i)[p + 1] ELSE Stop
    BY <1>3, <1>4, <1>6, <1>7, GetThere
  <2>3. CASE t \in Spots(iters, Sizes, i)
    <3>1. Get(iters, i) = IF t \in 0..(n - 1) THEN ElementsOf(i)[t + 1] ELSE Stop
      BY <2>2, <2>3
    <3> QED
      BY <3>1
  <2>4. ASSUME t >= n, NEW p \in Spots(iters, Sizes, i), p >= t
        PROVE  Get(iters, i) = Stop /\ ~(t < n)
    <3>1. p \in Int
      <4>1. Spots(iters, Sizes, i) \subseteq Int
        BY <1>3, SpotsAreInt
      <4> QED
        BY <4>1
    <3>2. p >= 0 /\ p \notin 0..(n - 1)
      BY <2>4, <3>1
    <3> QED
      BY <2>2, <2>4, <3>2
  <2> QED
    BY <1>6, <1>7, <2>1, <2>3, <2>4 DEF Stands
<1>10. Get(iters, i) = Comes(ElementsOf(i), t)
  BY <1>8, <1>9 DEF Comes
<1>11. ASSUME \A j \in Below(iters, i) : iters[j].form # "coroutine"
       PROVE  IterSize(iters, i) = Integer(Len(ElementsOf(i)))
  BY <1>3, <1>6, <1>7, <1>8, <1>11, SizeThere
<1> QED
  BY <1>5, <1>10, <1>11

-----------------------------------------------------------------------------
(* Steps that leave the iterators alone *)

LEMMA RecordedTaken ==
    ASSUME NEW taken, IsSequence(taken), NEW pristine, NEW made, Recorded(taken, pristine, made)
    PROVE  /\ history'.pristine = pristine
           /\ IsSequence(history'.taken) /\ Len(history'.taken) = Len(taken)
           /\ \A i \in 1..Len(taken) : history'.taken[i] = IF pristine[i] THEN taken[i] ELSE 0
<1>1. PICK n \in Nat : n = Len(taken) /\ DOMAIN taken = 1..n
  BY SequenceFacts
<1>2. PICK t : t = [i \in 1..n |-> IF pristine[i] THEN taken[i] ELSE 0]
  OBVIOUS
<1>3. t = [i \in 1..n |-> t[i]]
  BY <1>2
<1>4. IsSequence(t) /\ Len(t) = n
  BY <1>3, FunctionIsSequence
<1>5. history'.pristine = pristine /\ history'.taken = t
  BY <1>1, <1>2 DEF Recorded
<1> QED
  BY <1>1, <1>2, <1>4, <1>5

\* An iterator that is not stale after a step was not stale before it, and
\* its container has as many elements as before.
LEMMA LengthStays ==
    ASSUME IInv, HeapOK', VersionsTell, VersionsTell', Len(heap) <= Len(heap'),
           iters' = iters, history'.edits = RecordEdits, history'.made = history.made,
           Formed(iters, Sizes, Kinds),
           \A a \in 1..Len(heap) :
              /\ version[a] \in Int /\ version'[a] \in Int /\ version[a] <= version'[a]
              /\ heap'[a].k = heap[a].k
              /\ heap[a].k \in {"string", "coroutine"} => Len(heap'[a].subs) = Len(heap[a].subs),
           NEW i \in 1..Len(iters), OverContainer(iters[i]), ~StaleIn(iters[i], version')
    PROVE  /\ ~StaleIn(iters[i], version)
           /\ LET a == iters[i].of[1]
              IN a \in 1..Len(heap) /\ Len(heap'[a].subs) = Len(heap[a].subs)
<1>1. PICK it, a : it = iters[i] /\ a = it.of[1]
  OBVIOUS
<1>2. a \in 1..Len(heap) /\ it.form = FormOf(heap[a].k)
  <2>1. FormedOne(it, Sizes, Kinds)
    BY <1>1 DEF Formed
  <2>2. a \in DOMAIN Sizes /\ it.form = FormOf(Kinds[a])
    BY <1>1, <2>1 DEF FormedOne
  <2> QED
    BY <2>2 DEF Sizes, Kinds
<1>3. WellMade(heap[a]) /\ WellMade(heap'[a])
  <2>1. a \in 1..Len(heap')
    <3>1. Len(heap) \in Nat /\ Len(heap') \in Nat
      BY SequenceFacts DEF IInv, HeapOK
    <3> QED
      BY <1>2, <3>1
  <2> QED
    BY <1>2, <2>1 DEF IInv, HeapOK
<1>4. CASE it.form \in {"string", "coroutine"}
  <2>1. heap[a].k \in {"string", "coroutine"}
    BY <1>2, <1>4 DEF FormOf
  <2> QED
    BY Zenon, <1>1, <1>2, <1>4, <2>1 DEF StaleIn
<1>5. CASE it.form \in {"contiguous", "map"}
  <2>1. it.version = version'[a]
    BY <1>1, <1>5 DEF StaleIn
  <2>2. /\ it.version \in Nat /\ it.version <= version[a]
        /\ it.version = version[a] => history.edits[a] = history.made[i][a]
    BY <1>1, <1>5 DEF VersionsTell, Tells
  <2>3. it.version = version'[a] => history'.edits[a] = history.made[i][a]
    <3>1. Tells(iters, history.made, version', history'.edits)
      BY DEF VersionsTell
    <3> QED
      BY <1>1, <1>5, <3>1 DEF Tells
  <2>4. it.version = version[a]
    BY <1>2, <2>1, <2>2
  <2>5. history'.edits[a] = history.edits[a] + (IF Shape(heap'[a]) # Shape(heap[a]) THEN 1 ELSE 0)
    BY <1>2, EditsFacts DEF IInv, HeapOK
  <2>6. history.edits[a] \in Nat
    BY <1>2 DEF IInv, EditsOK
  <2>7. Shape(heap'[a]) = Shape(heap[a])
    BY <2>1, <2>2, <2>3, <2>4, <2>5, <2>6
  <2>8. heap[a].k \in {"array", "tuple", "map"} /\ heap'[a].k = heap[a].k
    BY <1>2, <1>5 DEF FormOf
  <2>9. /\ DOMAIN heap[a].subs = 1..Len(heap[a].subs) /\ DOMAIN heap'[a].subs = 1..Len(heap'[a].subs)
        /\ Len(heap[a].subs) \in Nat /\ Len(heap'[a].subs) \in Nat
    BY <1>3, SequenceFacts DEF WellMade
  <2>10. DOMAIN heap[a].subs = DOMAIN heap'[a].subs
    <3>1. CASE heap[a].k = "map"
      <4>1. KeysOf(heap'[a]) = KeysOf(heap[a])
        BY <2>7, <2>8, <3>1 DEF Shape
      <4>2. DOMAIN KeysOf(heap'[a]) = DOMAIN heap'[a].subs /\ DOMAIN KeysOf(heap[a]) = DOMAIN heap[a].subs
        BY DEF KeysOf
      <4> QED
        BY <4>1, <4>2
    <3>2. CASE heap[a].k # "map"
      BY <2>7, <2>8, <3>2 DEF Shape
    <3> QED
      BY <3>1, <3>2
  <2>11. Len(heap'[a].subs) = Len(heap[a].subs)
    <3>1. PICK m, n : m = Len(heap[a].subs) /\ n = Len(heap'[a].subs) /\ m \in Nat /\ n \in Nat
      BY Zenon, <2>9
    <3>2. 1..m = 1..n
      BY Zenon, <2>9, <2>10, <3>1
    <3>3. m = n
      BY <3>1, <3>2
    <3> QED
      BY <3>1, <3>3
  <2> QED
    BY <1>1, <1>2, <2>4, <2>11 DEF StaleIn
<1> QED
  BY <1>1, <1>4, <1>5 DEF OverContainer

LEMMA SizesHold ==
    ASSUME NEW h, IsSequence(h), \A a \in 1..Len(h) : WellMade(h[a]),
           \A a \in DOMAIN h : \A n \in -1..Len(h[a].subs) : Integer(n) = Scalar("int", n)
    PROVE  \A a \in 1..Len(h) : Len(h[a].subs) \in Nat /\ Holds(Len(h[a].subs))
<1>1. DOMAIN h = 1..Len(h)
  BY SequenceFacts
<1>2. ASSUME NEW a \in 1..Len(h)
      PROVE  Len(h[a].subs) \in Nat /\ Holds(Len(h[a].subs))
  <2>1. PICK n \in Nat : n = Len(h[a].subs)
    BY Zenon, SequenceFacts DEF WellMade
  <2>2. \A m \in -1..n : Integer(m) = Scalar("int", m)
    BY <1>1, <2>1
  <2>3. \A m \in 0..n : m \in -1..n
    BY <2>1
  <2> QED
    BY <2>1, <2>2, <2>3 DEF Holds
<1> QED
  BY <1>2

\* Steps that leave the iterators alone.
LEMMA HeapTraversed ==
    ASSUME IInv, TInv, HeapOK', PlainHeap', SizesFit', VersionsTell, VersionsTell',
           Len(heap) <= Len(heap'), SameIterators,
           \A a \in 1..Len(heap) :
              /\ version[a] \in Int /\ version'[a] \in Int /\ version[a] <= version'[a]
              /\ heap'[a].k = heap[a].k
              /\ heap[a].k \in {"string", "coroutine"} => Len(heap'[a].subs) = Len(heap[a].subs)
    PROVE  TInv'
<1>1. PICK sizez, kindz : sizez = Sizes' /\ kindz = Kinds'
  OBVIOUS
<1>2. /\ sizez = [a \in 1..Len(heap') |-> Len(heap'[a].subs)]
      /\ kindz = [a \in 1..Len(heap') |-> heap'[a].k]
  BY <1>1 DEF Sizes, Kinds
<1>3. /\ iters' = iters /\ history'.edits = RecordEdits /\ history'.made = history.made
      /\ Recorded(history.taken, history.pristine, history.made)
  BY RecordedFacts DEF SameIterators
<1>4. Formed(iters, Sizes, Kinds) /\ Booked(history, iters)
  BY DEF TInv
<1>5. \A a \in 1..Len(heap) : a \in 1..Len(heap')
  BY SequenceFacts DEF IInv, HeapOK
<1>6. Formed(iters, sizez, kindz)
  <2>1. ASSUME NEW a \in DOMAIN sizez
        PROVE  sizez[a] \in Nat /\ Holds(sizez[a])
    <3>1. \A b \in 1..Len(heap') : Len(heap'[b].subs) \in Nat /\ Holds(Len(heap'[b].subs))
      <4>1. PICK h : h = heap' /\ IsSequence(h) /\ \A b \in 1..Len(h) : WellMade(h[b])
        BY DEF HeapOK
      <4>2. \A b \in DOMAIN h : \A n \in -1..Len(h[b].subs) : Integer(n) = Scalar("int", n)
        BY <4>1 DEF SizesFit
      <4> QED
        BY <4>1, <4>2, SizesHold
    <3> QED
      BY <1>2, <2>1, <3>1
  <2>2. ASSUME NEW i \in 1..Len(iters)
        PROVE  FormedOne(iters[i], sizez, kindz)
    <3>1. PICK it, a : it = iters[i] /\ a = it.of[1]
      OBVIOUS
    <3>2. FormedOne(it, Sizes, Kinds)
      BY <1>4, <3>1 DEF Formed
    <3>3. CASE OverContainer(it)
      <4>1. a \in 1..Len(heap) /\ it.form = FormOf(heap[a].k) /\ Len(it.of) = 1
        <5>1. a \in DOMAIN Sizes /\ it.form = FormOf(Kinds[a]) /\ Len(it.of) = 1
          BY <3>1, <3>2, <3>3 DEF FormedOne
        <5> QED
          BY <5>1 DEF Sizes, Kinds
      <4>2. a \in DOMAIN sizez /\ it.form = FormOf(kindz[a])
        BY <1>2, <1>5, <4>1
      <4>3. it.form = "coroutine" => it.index \in 0..sizez[a]
        <5>1. ASSUME it.form = "coroutine"
              PROVE  it.index \in 0..sizez[a]
          <6>1. heap[a].k = "coroutine"
            BY <4>1, <5>1 DEF FormOf
          <6>2. sizez[a] = Sizes[a]
            <7>1. sizez[a] = Len(heap'[a].subs)
              BY <1>2, <4>2
            <7>2. Sizes[a] = Len(heap[a].subs)
              BY <4>1 DEF Sizes
            <7> QED
              BY <4>1, <6>1, <7>1, <7>2
          <6>3. it.index \in 0..Sizes[a]
            BY <3>1, <3>2, <5>1 DEF FormedOne
          <6> QED
            BY <6>2, <6>3
        <5> QED
          BY <5>1
      <4> QED
        BY <3>1, <3>2, <3>3, <4>1, <4>2, <4>3 DEF FormedOne
    <3>4. CASE ~OverContainer(it)
      <4>1. it.form # "coroutine"
        BY <3>4 DEF OverContainer
      <4> QED
        BY <3>1, <3>2, <3>4, <4>1 DEF FormedOne
    <3> QED
      BY <3>3, <3>4
  <2>3. Nested(iters)
    BY <1>4 DEF Formed
  <2> QED
    BY <2>1, <2>2, <2>3 DEF Formed
<1>7. Extends(iters, iters)
  <2>1. Nested(iters)
    BY <1>4 DEF Formed
  <2> QED
    BY <2>1, AlikeItself, AlikeExtends
<1>8. ASSUME NEW i \in 1..Len(iters)
      PROVE  Traversed(iters, sizez, version', history', i)
  <2>1. /\ history'.pristine = history.pristine /\ Len(history'.taken) = Len(iters)
        /\ history'.taken[i] = IF history.pristine[i] THEN history.taken[i] ELSE 0
    BY <1>3, <1>4, RecordedTaken DEF Booked
  <2>2. Traversed(iters, Sizes, version, history, i)
    BY DEF TInv
  <2>3. ASSUME history.pristine[i], OrderlyIn(iters, i), FreshIn(iters, version', i)
        PROVE  Stands(iters, sizez, i, history.taken[i])
    <3>1. ASSUME NEW j \in Below(iters, i), OverContainer(iters[j])
          PROVE  ~StaleIn(iters[j], version) /\ Sizes[iters[j].of[1]] = sizez[iters[j].of[1]]
      <4>1. j \in 1..Len(iters)
        BY <1>4, BelowOlder, SequenceFacts DEF Formed, Nested
      <4>2. ~StaleIn(iters[j], version')
        BY <2>3, <3>1 DEF FreshIn
      <4>3. PICK a : a = iters[j].of[1]
        OBVIOUS
      <4>4. ~StaleIn(iters[j], version) /\ a \in 1..Len(heap) /\ Len(heap'[a].subs) = Len(heap[a].subs)
        BY Zenon, <1>3, <1>4, <3>1, <4>1, <4>2, <4>3, LengthStays
      <4>5. Sizes[a] = Len(heap[a].subs) /\ sizez[a] = Len(heap'[a].subs)
        BY <1>2, <1>5, <4>4 DEF Sizes
      <4> QED
        BY <4>3, <4>4, <4>5
    <3>2. FreshIn(iters, version, i)
      <4>1. ASSUME NEW j \in Below(iters, i), StaleIn(iters[j], version)
            PROVE  FALSE
        <5>1. OverContainer(iters[j])
          BY <4>1 DEF StaleIn, OverContainer
        <5> QED
          BY <3>1, <4>1, <5>1
      <4> QED
        BY <4>1 DEF FreshIn
    <3>3. Stands(iters, Sizes, i, history.taken[i])
      BY <2>2, <2>3, <3>2 DEF Traversed
    <3>4. /\ Count(iters, sizez, i) = Count(iters, Sizes, i)
          /\ Spots(iters, sizez, i) = Spots(iters, Sizes, i)
      BY <1>4, <1>6, <1>7, <3>1, PlacesSame
    <3> QED
      BY <3>3, <3>4 DEF Stands
  <2> QED
    BY <2>1, <2>2, <2>3 DEF Traversed
<1>9. Booked(history', iters)
  BY <1>3, <1>4, RecordedTaken DEF Booked
<1>10. Formed(iters', Sizes', Kinds')
  BY <1>1, <1>3, <1>6
<1>11. \A i \in 1..Len(iters') : Traversed(iters', Sizes', version', history', i)
  BY <1>1, <1>3, <1>8
<1> QED
  BY <1>3, <1>9, <1>10, <1>11 DEF TInv

LEMMA ApplyTraversed ==
    ASSUME IInv, TInv, IInv', VersionsTell, VersionsTell', SizesFit',
           NEW a \in 1..Len(heap), NEW o, Apply(a, o), Harmless(heap[a], o)
    PROVE  TInv'
<1>1. PICK m \in Nat : m = Len(heap) /\ DOMAIN heap = 1..m /\ IsSequence(heap)
  BY SequenceFacts DEF HeapOK, IInv
<1>2. PICK c, d : c = heap[a] /\ WellMade(c) /\ d = Rewritten(c, o)
  BY DEF IInv, HeapOK
<1>3. heap' = [heap EXCEPT ![a] = d]
  BY Zenon, <1>1, <1>2 DEF Apply, Rewritten
<1>4. d.k = c.k /\ d.subs = o.subs
  BY <1>2, RewrittenFields
<1>5. Len(heap') = m
  BY <1>1, <1>3, OverwrittenSequence
<1>6. \A b \in 1..m : heap'[b] = IF b = a THEN d ELSE heap[b]
  BY <1>1, <1>3
<1>7. PlainHeap'
  <2>1. ASSUME NEW b \in 1..m
        PROVE  Plain(heap'[b])
    <3>1. Plain(heap[b])
      BY <1>1 DEF TInv, PlainHeap
    <3>2. CASE b = a
      <4>1. c.k # "struct" => PlainParts(c.k, c.subs)
        BY <1>2, <3>1, <3>2, PlainIs
      <4>2. d.k # "struct" => PlainParts(d.k, d.subs)
        BY <1>2, <1>4, <4>1 DEF Harmless
      <4>3. Plain(d)
        BY <4>2, PlainIs
      <4> QED
        BY <1>6, <3>2, <4>3
    <3> QED
      BY <1>6, <3>1, <3>2
  <2> QED
    BY <1>5, <2>1 DEF PlainHeap
<1>8. ASSUME NEW b \in 1..m
      PROVE  /\ version[b] \in Int /\ version'[b] \in Int /\ version[b] <= version'[b]
             /\ heap'[b].k = heap[b].k
             /\ heap[b].k \in {"string", "coroutine"} => Len(heap'[b].subs) = Len(heap[b].subs)
  <2>1. /\ IsSequence(version) /\ Len(version) = m /\ version[b] \in Int
    BY <1>1 DEF IInv, VersionsOK
  <2>2. DOMAIN version = 1..m
    BY <2>1, SequenceFacts
  <2>3. version'[b] = IF b = a /\ o.bumped THEN version[b] + 1 ELSE version[b]
    <3>1. PICK v : v = version[a] + (IF o.bumped THEN 1 ELSE 0)
      OBVIOUS
    <3>2. version' = [version EXCEPT ![a] = v]
      BY <3>1 DEF Apply
    <3>3. version'[b] = IF b = a THEN v ELSE version[b]
      BY <2>2, <3>2
    <3>4. version[a] \in Int
      BY <1>1 DEF IInv, VersionsOK
    <3> QED
      BY <2>1, <3>1, <3>3, <3>4
  <2>4. heap'[b].k = heap[b].k
    BY <1>2, <1>4, <1>6
  <2>5. heap[b].k \in {"string", "coroutine"} => Len(heap'[b].subs) = Len(heap[b].subs)
    BY <1>2, <1>4, <1>6 DEF Harmless
  <2> QED
    BY <2>1, <2>3, <2>4, <2>5
<1>9. SameIterators
  BY DEF Apply
<1>10. HeapOK' /\ Len(heap) <= Len(heap')
  BY <1>1, <1>5 DEF IInv
<1> QED
  BY <1>1, <1>7, <1>8, <1>9, <1>10, HeapTraversed

LEMMA NewTraversed ==
    ASSUME IInv, TInv, IInv', VersionsTell, VersionsTell', SizesFit',
           NEW c, NEW v, New(c, v), Plain(c)
    PROVE  TInv'
<1>1. PICK m \in Nat : m = Len(heap) /\ IsSequence(heap) /\ IsSequence(version) /\ Len(version) = m
  BY SequenceFacts DEF HeapOK, VersionsOK, IInv
<1>2. Len(heap') = m + 1 /\ (\A a \in 1..m : heap'[a] = heap[a]) /\ heap'[m + 1] = c
  BY <1>1, AppendSequence DEF New
<1>3. \A a \in 1..m : version'[a] = version[a]
  BY <1>1, AppendSequence DEF New
<1>4. PlainHeap'
  <2>1. ASSUME NEW a \in 1..(m + 1)
        PROVE  Plain(heap'[a])
    <3>1. CASE a = m + 1
      BY <1>2, <3>1
    <3>2. CASE a # m + 1
      <4>1. a \in 1..m
        BY <3>2
      <4> QED
        BY <1>1, <1>2, <4>1 DEF TInv, PlainHeap
    <3> QED
      BY <3>1, <3>2
  <2> QED
    BY <1>2, <2>1 DEF PlainHeap
<1>5. ASSUME NEW b \in 1..m
      PROVE  /\ version[b] \in Int /\ version'[b] \in Int /\ version[b] <= version'[b]
             /\ heap'[b].k = heap[b].k
             /\ heap[b].k \in {"string", "coroutine"} => Len(heap'[b].subs) = Len(heap[b].subs)
  <2>1. version[b] \in Int
    BY <1>1 DEF IInv, VersionsOK
  <2> QED
    BY <1>2, <1>3, <2>1
<1>6. SameIterators
  BY DEF New
<1>7. HeapOK' /\ Len(heap) <= Len(heap')
  BY <1>1, <1>2 DEF IInv
<1> QED
  BY <1>1, <1>4, <1>5, <1>6, <1>7, HeapTraversed

LEMMA DeriveTraversed ==
    ASSUME IInv, TInv, IInv', VersionsTell, VersionsTell', SizesFit',
           NEW a \in 1..Len(heap), Derive(a) \/ CloneContainer(a)
    PROVE  TInv'
<1>0. PICK c : c = heap[a] /\ WellMade(c) /\ Plain(c)
  BY DEF IInv, HeapOK, TInv, PlainHeap
<1>1. CASE CloneContainer(a)
  <2>1. New(c, version[a])
    BY <1>0, <1>1 DEF CloneContainer
  <2> QED
    BY <1>0, <2>1, NewTraversed
<1>2. CASE Derive(a)
  <2>1. PICK d \in Derived(a) : New(d, 0)
    BY <1>2 DEF Derive
  <2>2. Plain(d)
    <3>1. CASE c.k = "map"
      <4>1. d \in {MapKeys(c), MapValues(c)} \cup {Merged(c, heap[b]) : b \in {b \in DOMAIN heap : heap[b].k = "map"}}
        BY <1>0, <2>1, <3>1 DEF Derived
      <4>2. CASE d \in {MapKeys(c), MapValues(c)}
        BY <1>0, <3>1, <4>2, DerivedPlain
      <4>3. CASE \E b \in DOMAIN heap : heap[b].k = "map" /\ d = Merged(c, heap[b])
        <5>1. PICK b \in DOMAIN heap : heap[b].k = "map" /\ d = Merged(c, heap[b])
          BY <4>3
        <5>2. WellMade(heap[b]) /\ Plain(heap[b])
          BY Zenon, <5>1, SequenceFacts DEF IInv, HeapOK, TInv, PlainHeap
        <5> QED
          BY <1>0, <3>1, <5>1, <5>2, MergedPlain
      <4> QED
        BY <4>1, <4>2, <4>3
    <3>2. CASE c.k = "array"
      <4>1. d \in {Reversed(c)} \cup ({Prefix(c, 1), Suffix(c, 1)} \ {OutOfRange})
        BY <1>0, <2>1, <3>2 DEF Derived
      <4>2. Plain(Reversed(c)) /\ \A b, e : Slice(c, b, e) # OutOfRange => Plain(Slice(c, b, e))
        BY <1>0, <3>2, DerivedPlain
      <4> QED
        BY <4>1, <4>2 DEF Prefix, Suffix
    <3>3. CASE c.k \in {"tuple", "queue", "stack"}
      <4>1. d = Container("array", c.subs)
        BY <1>0, <2>1, <3>3 DEF Derived
      <4> QED
        BY <1>0, <3>3, <4>1, DerivedPlain
    <3>4. CASE c.k \notin {"map", "array", "tuple", "queue", "stack"}
      <4>1. Derived(a) = {}
        BY <1>0, <3>4 DEF Derived
      <4> QED
        BY <2>1, <4>1
    <3> QED
      BY <3>1, <3>2, <3>3, <3>4
  <2> QED
    BY <2>1, <2>2, NewTraversed
<1> QED
  BY <1>1, <1>2

LEMMA ContainersTraversed ==
    ASSUME PlainPrograms, IInv, TInv, IInv', VersionsTell, VersionsTell', SizesFit', ContainerStep
    PROVE  TInv'
<1>1. PICK a \in 1..Len(heap) :
          \/ Derive(a) \/ CloneContainer(a) \/ PopFrom(a)
          \/ \E x \in Elements :
                \/ PushTo(a, x) \/ Rearrange(a, x)
                \/ \E id \in MemberIds : WriteMember(a, id, x)
                \/ \E key \in Indices : InsertInto(a, key, x) \/ WriteInto(a, key, x)
          \/ \E key \in Indices : RemoveFrom(a, key)
  <2>1. DOMAIN heap = 1..Len(heap)
    BY SequenceFacts DEF IInv, HeapOK
  <2> QED
    BY <2>1 DEF ContainerStep
<1>2. PICK c : c = heap[a] /\ WellMade(c)
  BY DEF IInv, HeapOK
<1>3. ASSUME NEW o, Apply(a, o), Harmless(c, o)
      PROVE  TInv'
  BY <1>2, <1>3, ApplyTraversed
<1>4. (\A x \in Elements : IsElement(x)) /\ \A key \in Indices : IsElement(key)
  BY DEF PlainPrograms
<1>5. CASE Derive(a) \/ CloneContainer(a)
  BY <1>5, DeriveTraversed
<1>6. CASE PopFrom(a) \/ \E x \in Elements : PushTo(a, x)
  <2>1. PICK x, o : /\ IsElement(x) /\ Apply(a, o)
                    /\ o \in {Push(c, x), InsertFront(c, x), InsertBack(c, x), Pop(c), RemoveFront(c), RemoveBack(c)}
    <3>1. CASE PopFrom(a)
      <4>1. IsElement(Integer(0))
        BY Elementary
      <4> QED
        BY <1>2, <3>1, <4>1 DEF PopFrom
    <3>2. CASE \E x \in Elements : PushTo(a, x)
      BY <1>2, <1>4, <3>2 DEF PushTo
    <3> QED
      BY <1>6, <3>1, <3>2
  <2>2. Harmless(c, o)
    BY <1>2, <2>1, FunctionsHarmless
  <2> QED
    BY <1>3, <2>1, <2>2
<1>7. CASE \E x \in Elements : Rearrange(a, x)
  <2>1. PICK x \in Elements : Rearrange(a, x)
    BY <1>7
  <2>2. c.k = "array" /\ IsElement(x)
    BY <1>2, <1>4, <2>1 DEF Rearrange
  <2>3. PICK o : /\ Apply(a, o)
                 /\ \/ o \in Sorted(c, -1) \/ o \in Sorted(c, 1)
                    \/ o = ReverseInPlace(c) \/ o = Fill(c, x)
    BY <1>2, <2>1 DEF Rearrange
  <2>4. Harmless(c, o)
    BY Zenon, <1>2, <2>2, <2>3, ArraysHarmless
  <2> QED
    BY <1>3, <2>3, <2>4
<1>8. CASE \E x \in Elements, id \in MemberIds : WriteMember(a, id, x)
  <2>1. PICK o : c.k = "struct" /\ Apply(a, o)
    BY <1>2, <1>8 DEF WriteMember
  <2>2. Harmless(c, o)
    BY <2>1 DEF Harmless
  <2> QED
    BY <1>3, <2>1, <2>2
<1>9. CASE \/ \E x \in Elements, key \in Indices : InsertInto(a, key, x) \/ WriteInto(a, key, x)
           \/ \E key \in Indices : RemoveFrom(a, key)
  <2>0. PICK x : IsElement(x) /\ \E key \in Indices : InsertInto(a, key, x) \/ WriteInto(a, key, x) \/ RemoveFrom(a, key)
    <3>1. IsElement(Integer(0))
      BY Elementary
    <3> QED
      BY <1>4, <1>9, <3>1
  <2>1. PICK key \in Indices : IsElement(x) /\ (InsertInto(a, key, x) \/ WriteInto(a, key, x) \/ RemoveFrom(a, key))
    BY <2>0
  <2>2. IsElement(key)
    BY <1>4
  <2>3. PICK o : /\ Apply(a, o)
                 /\ \/ o \in {Insert(c, key, x), RemoveKey(c, key), AtWrite(c, key, x)}
                    \/ c.k = "map" /\ o \in {MapMemberErase(c, key), PluginMapPut(c, key, x)}
                    \/ c.k = "array" /\ o \in {MemberInsert(c, key.n, x), MemberErase(c, key.n), PluginArrayPut(c, key.n, x)}
    BY <1>2, <2>1 DEF InsertInto, WriteInto, RemoveFrom
  <2>4. Harmless(c, o)
    <3>1. CASE o \in {Insert(c, key, x), RemoveKey(c, key), AtWrite(c, key, x)}
      BY <1>2, <2>1, <2>2, <3>1, EntriesHarmless
    <3>2. CASE c.k = "map" /\ o \in {MapMemberErase(c, key), PluginMapPut(c, key, x)}
      BY <1>2, <2>1, <2>2, <3>2, EntriesHarmless
    <3>3. CASE c.k = "array" /\ o \in {MemberInsert(c, key.n, x), MemberErase(c, key.n), PluginArrayPut(c, key.n, x)}
      BY <1>2, <2>1, <3>3, ArraysHarmless
    <3> QED
      BY <2>3, <3>1, <3>2, <3>3
  <2> QED
    BY <1>3, <2>3, <2>4
<1> QED
  BY <1>1, <1>5, <1>6, <1>7, <1>8, <1>9

-----------------------------------------------------------------------------
(* Steps that make and move iterators *)

LEMMA WithinInt ==
    ASSUME NEW its, IsSequence(its), Within(its)
    PROVE  \A i \in 1..Len(its) : its[i].index \in Int
<1>1. Reach \in Nat
  BY ProgramsAssumption
<1>2. \A i \in 1..Len(its) : its[i].index \in -Reach..Reach
  BY SequenceFacts DEF Within
<1> QED
  BY <1>1, <1>2

LEMMA MovedFormed ==
    ASSUME HeapOK, Formed(iters, Sizes, Kinds), NEW i \in 1..Len(iters), NEW n \in Int,
           NEW out \in Moved(iters, i, n), Within(out.iters)
    PROVE  /\ Alike(iters, out.iters) /\ Extends(iters, out.iters) /\ Len(out.iters) = Len(iters)
           /\ Formed(out.iters, Sizes, Kinds)
           /\ \A j \in 1..Len(iters) : out.iters[j].index \in Int
           /\ \A j \in 1..Len(iters) : j \notin Below(iters, i) => out.iters[j].index = iters[j].index
<1>1. /\ Alike(iters, out.iters) /\ Nested(out.iters)
      /\ \A j \in 1..Len(iters) :
            /\ j \notin Below(iters, i) => out.iters[j].index = iters[j].index
            /\ iters[j].form = "coroutine" => out.iters[j].index \in 0..Sizes[iters[j].of[1]]
  BY MovedKeeps
<1>2. \A j \in 1..Len(iters) : out.iters[j].index \in Int
  BY <1>1, WithinInt DEF Alike
<1> QED
  BY Zenon, <1>1, <1>2, AlikeFormed

\* Where nothing below moves, the iterator stays where it is.
LEMMA OthersStand ==
    ASSUME NEW its, Formed(its, Sizes, Kinds), NEW others, Formed(others, Sizes, Kinds), Extends(its, others),
           NEW i \in 1..Len(its), \A j \in Below(its, i) : others[j].index = its[j].index,
           NEW t
    PROVE  Stands(its, Sizes, i, t) => Stands(others, Sizes, i, t)
<1>1. /\ Count(others, Sizes, i) = Count(its, Sizes, i)
      /\ Spots(others, Sizes, i) = Spots(its, Sizes, i)
  BY PlacesSame
<1>2. others[i].form = its[i].form
  BY DEF Extends, SameOne
<1> QED
  BY <1>1, <1>2 DEF Stands

\* What a step that moves iterators, or adds one, does to the others.
Kept(its, i) ==
    /\ history.pristine[i]
    /\ \A j \in Below(iters, i) : its[j].index = iters[j].index

LEMMA KeptTraversed ==
    ASSUME TInv, NEW others, Formed(others, Sizes, Kinds), Extends(iters, others),
           NEW h, NEW i \in 1..Len(iters),
           h.pristine[i] => Kept(others, i) /\ h.taken[i] = history.taken[i]
    PROVE  Traversed(others, Sizes, version, h, i)
<1>1. SUFFICES ASSUME h.pristine[i]
               PROVE  /\ h.taken[i] \in Nat /\ Simple(others, i)
                      /\ OrderlyIn(others, i) /\ FreshIn(others, version, i) => Stands(others, Sizes, i, h.taken[i])
  BY DEF Traversed
<1>2. Formed(iters, Sizes, Kinds) /\ Traversed(iters, Sizes, version, history, i)
  BY DEF TInv
<1>3. /\ history.taken[i] \in Nat /\ Simple(iters, i) /\ h.taken[i] = history.taken[i]
      /\ OrderlyIn(iters, i) /\ FreshIn(iters, version, i) => Stands(iters, Sizes, i, h.taken[i])
  BY <1>1, <1>2 DEF Traversed, Kept
<1>4. /\ Simple(iters, i) <=> Simple(others, i)
      /\ FreshIn(iters, version, i) <=> FreshIn(others, version, i)
      /\ OrderlyIn(iters, i) <=> OrderlyIn(others, i)
  BY <1>2, ShapeSame
<1>5. Stands(iters, Sizes, i, h.taken[i]) => Stands(others, Sizes, i, h.taken[i])
  BY <1>1, <1>2, OthersStand DEF Kept
<1> QED
  BY <1>3, <1>4, <1>5

LEMMA AddedTraversed ==
    ASSUME TInv, NEW its, Alike(iters, its), Formed(its, Sizes, Kinds), NEW it, FormedOne(it, Sizes, Kinds),
           NEW t, NEW q, NEW b, IsSequence(q), Len(q) = Len(iters),
           NewIterator(its, it, t, Append(q, b)), IInv',
           \A i \in 1..Len(iters) : q[i] => Kept(its, i),
           NEW n, n = Len(iters) + 1,
           b => /\ t \in Nat /\ Simple(iters', n)
                /\ OrderlyIn(iters', n) /\ FreshIn(iters', version, n) => Stands(iters', Sizes, n, t)
    PROVE  TInv'
<1>0. PICK others : others = iters' /\ others = Append(its, it)
  BY DEF NewIterator
<1>1. /\ heap' = heap /\ version' = version /\ iters' = others
      /\ Recorded(Append(history.taken, t), Append(q, b), Append(history.made, history.edits))
  BY <1>0 DEF NewIterator
<1>2. /\ PlainHeap /\ Formed(iters, Sizes, Kinds) /\ Booked(history, iters)
      /\ IsSequence(iters)
  BY DEF TInv, Formed, Nested
<1>3. PICK m \in Nat : m = Len(iters) /\ n = m + 1
  BY <1>2, SequenceFacts
<1>4. IsSequence(its) /\ Len(its) = m
  BY <1>3 DEF Alike
<1>5. Len(others) = n /\ (\A i \in 1..m : others[i] = its[i]) /\ others[n] = it
  BY <1>0, <1>3, <1>4, AppendSequence
<1>6. Formed(others, Sizes, Kinds)
  <2>1. Nested(others)
    BY <1>1 DEF IInv, IteratorsOK
  <2> QED
    BY <1>0, <2>1, AppendFormed
<1>7. Extends(iters, others)
  <2>1. Nested(iters) /\ Nested(its) /\ Nested(Append(its, it))
    BY <1>0, <1>2, <1>6 DEF Formed
  <2>2. Extends(iters, its)
    BY <2>1, AlikeExtends
  <2>3. Extends(iters, Append(its, it))
    BY <2>1, <2>2, AppendExtends
  <2> QED
    BY <1>0, <2>3
<1>8. PICK taken : /\ taken = Append(history.taken, t) /\ IsSequence(taken) /\ Len(taken) = n
                   /\ (\A i \in 1..m : taken[i] = history.taken[i]) /\ taken[n] = t
  <2>1. PICK old : old = history.taken /\ IsSequence(old) /\ Len(old) = m
    BY <1>2, <1>3 DEF Booked
  <2>2. PICK new : new = Append(old, t)
    OBVIOUS
  <2>3. IsSequence(new) /\ Len(new) = m + 1 /\ (\A i \in 1..m : new[i] = old[i]) /\ new[m + 1] = t
    BY <2>1, <2>2, AppendSequence
  <2> QED
    BY Zenon, <1>3, <2>1, <2>2, <2>3
<1>9. PICK pristine : /\ pristine = Append(q, b) /\ IsSequence(pristine) /\ Len(pristine) = n
                      /\ (\A i \in 1..m : pristine[i] = q[i]) /\ (pristine[n] = b)
  <2>1. PICK new : new = Append(q, b)
    OBVIOUS
  <2>2. Len(q) = m
    BY <1>3
  <2>3. IsSequence(new) /\ Len(new) = m + 1 /\ (\A i \in 1..m : new[i] = q[i]) /\ new[m + 1] = b
    BY <2>1, <2>2, AppendSequence
  <2> QED
    BY Zenon, <1>3, <2>1, <2>3
<1>10. /\ history'.pristine = pristine
       /\ IsSequence(history'.taken) /\ Len(history'.taken) = n
       /\ \A i \in 1..n : history'.taken[i] = IF pristine[i] THEN taken[i] ELSE 0
  BY Zenon, <1>1, <1>8, <1>9, RecordedTaken
<1>11. Booked(history', others)
  BY <1>5, <1>9, <1>10 DEF Booked
<1>12. ASSUME NEW i \in 1..n
       PROVE  Traversed(others, Sizes, version, history', i)
  <2>1. CASE i = n
    <3>1. pristine[n] => b
      BY <1>9
    <3>2. b => /\ t \in Nat /\ Simple(others, n)
               /\ OrderlyIn(others, n) /\ FreshIn(others, version, n) => Stands(others, Sizes, n, t)
      BY <1>0
    <3>3. ASSUME pristine[n]
          PROVE  history'.taken[n] = t
      <4>1. n \in 1..n
        BY <2>1
      <4> QED
        BY <1>8, <1>10, <3>3, <4>1
    <3>4. Traversed(others, Sizes, version, history', n)
      BY <1>10, <3>1, <3>2, <3>3 DEF Traversed
    <3> QED
      BY <2>1, <3>4
  <2>2. CASE i # n
    <3>1. i \in 1..m
      BY <1>3, <2>2
    <3>2. ASSUME history'.pristine[i]
          PROVE  Kept(others, i) /\ history'.taken[i] = history.taken[i]
      <4>1. q[i] /\ history'.taken[i] = history.taken[i]
        BY <1>8, <1>9, <1>10, <3>1, <3>2
      <4>2. Kept(its, i)
        BY <1>3, <3>1, <4>1
      <4>3. \A j \in Below(iters, i) : j \in 1..m
        BY <1>2, <1>3, <3>1, BelowOlder DEF Formed
      <4>4. Kept(others, i)
        BY <1>5, <4>2, <4>3 DEF Kept
      <4> QED
        BY <4>1, <4>4
    <3> QED
      BY <1>3, <1>6, <1>7, <3>1, <3>2, KeptTraversed
  <2> QED
    BY <2>1, <2>2
<1>13. /\ iters' = others /\ Sizes' = Sizes /\ Kinds' = Kinds /\ version' = version
       /\ (PlainHeap' <=> PlainHeap)
  BY <1>1 DEF Sizes, Kinds, PlainHeap
<1> QED
  BY <1>2, <1>5, <1>6, <1>11, <1>12, <1>13 DEF TInv

LEMMA MovedTraversed ==
    ASSUME TInv, NEW its, Extends(iters, its), Len(its) = Len(iters), Formed(its, Sizes, Kinds),
           NEW taken, IsSequence(taken), Len(taken) = Len(iters),
           NEW pristine, IsSequence(pristine), Len(pristine) = Len(iters),
           MovedTo(its, taken, pristine),
           \A i \in 1..Len(iters) :
              pristine[i] =>
                 \/ Kept(its, i) /\ taken[i] = history.taken[i]
                 \/ /\ taken[i] \in Nat /\ Simple(iters, i)
                    /\ OrderlyIn(iters, i) /\ FreshIn(iters, version, i) => Stands(its, Sizes, i, taken[i])
    PROVE  TInv'
<1>1. /\ heap' = heap /\ version' = version /\ iters' = its
      /\ Recorded(taken, pristine, history.made)
  BY DEF MovedTo
<1>2. PlainHeap /\ Formed(iters, Sizes, Kinds) /\ Booked(history, iters)
  BY DEF TInv
<1>3. /\ history'.pristine = pristine
      /\ IsSequence(history'.taken) /\ Len(history'.taken) = Len(iters)
      /\ \A i \in 1..Len(iters) : history'.taken[i] = IF pristine[i] THEN taken[i] ELSE 0
  BY <1>1, RecordedTaken
<1>4. Booked(history', its)
  BY <1>3 DEF Booked
<1>5. ASSUME NEW i \in 1..Len(iters)
      PROVE  Traversed(its, Sizes, version, history', i)
  <2>1. CASE pristine[i] => Kept(its, i) /\ taken[i] = history.taken[i]
    <3>1. history'.pristine[i] => Kept(its, i) /\ history'.taken[i] = history.taken[i]
      BY <1>3, <2>1
    <3> QED
      BY <3>1, KeptTraversed
  <2>2. CASE pristine[i] /\ ~(Kept(its, i) /\ taken[i] = history.taken[i])
    <3>1. /\ taken[i] \in Nat /\ Simple(iters, i)
          /\ OrderlyIn(iters, i) /\ FreshIn(iters, version, i) => Stands(its, Sizes, i, taken[i])
      BY <2>2
    <3>2. /\ Simple(iters, i) <=> Simple(its, i)
          /\ FreshIn(iters, version, i) <=> FreshIn(its, version, i)
          /\ OrderlyIn(iters, i) <=> OrderlyIn(its, i)
      BY <1>2, ShapeSame
    <3>3. history'.taken[i] = taken[i]
      BY <1>3, <2>2
    <3> QED
      BY <3>1, <3>2, <3>3 DEF Traversed
  <2> QED
    BY <2>1, <2>2
<1>6. /\ iters' = its /\ Sizes' = Sizes /\ Kinds' = Kinds /\ version' = version
      /\ (PlainHeap' <=> PlainHeap)
  BY <1>1 DEF Sizes, Kinds, PlainHeap
<1> QED
  BY <1>2, <1>4, <1>5, <1>6 DEF TInv

\* The iterators with a new one.
LEMMA AddedFormed ==
    ASSUME Formed(iters, Sizes, Kinds), IInv', NEW its, Alike(iters, its), Formed(its, Sizes, Kinds),
           NEW it, FormedOne(it, Sizes, Kinds), iters' = Append(its, it)
    PROVE  LET others == Append(its, it)
               n == Len(iters) + 1
           IN /\ n \in 1..Len(others) /\ Formed(others, Sizes, Kinds) /\ Extends(iters, others) /\ Extends(its, others)
              /\ others[n] = it /\ \A i \in 1..Len(iters) : others[i] = its[i] /\ i \in 1..Len(others)
<1>1. PICK others, n : others = Append(its, it) /\ n = Len(iters) + 1
  OBVIOUS
<1>2. PICK m \in Nat : m = Len(iters) /\ n = m + 1
  BY <1>1, SequenceFacts DEF Formed, Nested
<1>3. IsSequence(its) /\ Len(its) = m
  BY <1>2 DEF Alike
<1>4. Len(others) = n /\ (\A i \in 1..m : others[i] = its[i]) /\ others[n] = it
  BY <1>1, <1>2, <1>3, AppendSequence
<1>5. Formed(others, Sizes, Kinds)
  <2>1. Nested(others)
    BY <1>1 DEF IInv, IteratorsOK
  <2> QED
    BY <1>1, <2>1, AppendFormed
<1>6. Extends(iters, others) /\ Extends(its, others)
  <2>1. Nested(iters) /\ Nested(its) /\ Nested(Append(its, it))
    BY <1>1, <1>5 DEF Formed
  <2>2. Extends(iters, its)
    BY <2>1, AlikeExtends
  <2>3. Extends(its, its)
    BY <2>1, AlikeItself, AlikeExtends
  <2>4. Extends(iters, Append(its, it))
    BY <2>1, <2>2, AppendExtends
  <2>5. Extends(its, Append(its, it))
    BY <2>1, <2>3, AppendExtends
  <2> QED
    BY <1>1, <2>4, <2>5
<1> QED
  BY <1>1, <1>2, <1>4, <1>5, <1>6

\* A new iterator beside the others, which stay as they are.
LEMMA AddedBeside ==
    ASSUME TInv, IInv', NEW it, FormedOne(it, Sizes, Kinds), NEW t, NEW b,
           NewIterator(iters, it, t, Append(history.pristine, b)),
           NEW n, n = Len(iters) + 1,
           b => /\ t \in Nat /\ Simple(iters', n)
                /\ OrderlyIn(iters', n) /\ FreshIn(iters', version, n) => Stands(iters', Sizes, n, t)
    PROVE  TInv'
<1>1. Formed(iters, Sizes, Kinds) /\ Booked(history, iters)
  BY DEF TInv
<1>2. Alike(iters, iters)
  BY <1>1, AlikeItself DEF Formed
<1>3. IsSequence(history.pristine) /\ Len(history.pristine) = Len(iters)
  BY <1>1 DEF Booked
<1>4. PICK q : q = history.pristine
  OBVIOUS
<1>5. /\ IsSequence(q) /\ Len(q) = Len(iters) /\ NewIterator(iters, it, t, Append(q, b))
      /\ \A i \in 1..Len(iters) : q[i] => Kept(iters, i)
  BY <1>3, <1>4 DEF Kept
<1> QED
  BY <1>1, <1>2, <1>5, AddedTraversed

LEMMA BelowAlone ==
    ASSUME NEW its, NEW sizes, NEW kinds, Formed(its, sizes, kinds), NEW i \in 1..Len(its), ~Wraps(its[i])
    PROVE  Below(its, i) = {i}
<1>1. DOMAIN Inner(its[i]) = {}
  BY Inners
<1>2. Below(its, i) = {i} \cup UNION {Below(its, Inner(its[i])[j]) : j \in DOMAIN Inner(its[i])}
  BY Zenon, BelowFacts DEF Formed
<1> QED
  BY <1>1, <1>2

LEMMA IterTraversed ==
    ASSUME IInv, TInv, IInv', NEW a \in 1..Len(heap), Iter(a)
    PROVE  TInv'
<1>1. PICK form, it : form = FormOf(heap[a].k) /\ it = Over(form, a)
  OBVIOUS
<1>2. form \in {"contiguous", "string", "map", "coroutine"}
  BY <1>1 DEF Iter, FormOf
<1>3. PICK v : v = version[a] /\ v \in Nat
  BY DEF IInv, VersionsOK
<1>4. it = [form |-> form, of |-> <<a>>, index |-> 0, version |-> v, begin |-> 0, end |-> 0, step |-> 0]
  BY <1>1, <1>3 DEF Over, Iterator
<1>5. it.form = form /\ it.of = <<a>> /\ it.index = 0
  BY <1>4
<1>6. Len(<<a>>) = 1 /\ <<a>>[1] = a
  BY OneElement
<1>7. OverContainer(it) /\ ~Wraps(it) /\ it.form \notin {"range", "combined", "reversed"}
  BY <1>2, <1>5 DEF Wraps, OverContainer
<1>8. Formed(iters, Sizes, Kinds)
  BY DEF TInv
<1>9. FormedOne(it, Sizes, Kinds)
  <2>1. a \in DOMAIN Sizes /\ it.form = FormOf(Kinds[a])
    BY <1>1, <1>5 DEF Sizes, Kinds
  <2>2. Sizes[a] \in Nat
    BY <1>8, <2>1 DEF Formed
  <2>3. Len(it.of) = 1 /\ it.of[1] = a
    BY <1>5, <1>6
  <2> QED
    BY <1>5, <1>7, <2>1, <2>2, <2>3 DEF FormedOne
<1>10. NewIterator(iters, it, 0, Append(history.pristine, TRUE))
  BY Zenon, <1>1 DEF Iter
<1>11. PICK others, n : others = Append(iters, it) /\ others = iters' /\ n = Len(iters) + 1
  BY <1>10 DEF NewIterator
<1>12. n \in 1..Len(others) /\ Formed(others, Sizes, Kinds) /\ others[n] = it
  <2>1. Alike(iters, iters)
    BY <1>8, AlikeItself DEF Formed
  <2>2. iters' = Append(iters, it)
    BY <1>10 DEF NewIterator
  <2> QED
    BY <1>8, <1>9, <1>11, <2>1, <2>2, AddedFormed
<1>13. Simple(others, n)
  <2>1. Below(others, n) = {n}
    BY <1>7, <1>12, BelowAlone
  <2> QED
    BY <1>7, <1>12, <2>1 DEF Simple
<1>14. Stands(others, Sizes, n, 0)
  <2>1. Spots(others, Sizes, n) = {p \in Int : others[n].index = p}
    BY <1>7, <1>12, PlaceForms
  <2> QED
    BY <1>5, <1>12, <2>1 DEF Stands
<1> QED
  BY Zenon, <1>9, <1>10, <1>11, <1>13, <1>14, AddedBeside

LEMMA RangeTraversed ==
    ASSUME IInv, TInv, IInv', NEW begin \in Int, NEW end \in Int, NEW step \in Int, Holds(Abs(end - begin)),
           RangeIter(begin, end, step)
    PROVE  TInv'
<1>1. PICK it : it = RangeOver(begin, end, step)
  OBVIOUS
<1>2. it = [form |-> "range", of |-> <<>>, index |-> begin, version |-> 0,
            begin |-> begin, end |-> end, step |-> step]
  BY Zenon, <1>1 DEF RangeOver, Iterator
<1>3. it.form = "range" /\ it.index = begin /\ it.begin = begin /\ it.end = end /\ it.step = step
  BY <1>2
<1>4. ~Wraps(it) /\ ~OverContainer(it)
  BY <1>3 DEF Wraps, OverContainer
<1>5. FormedOne(it, Sizes, Kinds)
  BY <1>3, <1>4 DEF FormedOne, RangeFormed
<1>6. NewIterator(iters, it, 0, Append(history.pristine, step # 0))
  BY <1>1 DEF RangeIter
<1>7. PICK others, n : others = Append(iters, it) /\ others = iters' /\ n = Len(iters) + 1
  BY <1>6 DEF NewIterator
<1>8. n \in 1..Len(others) /\ Formed(others, Sizes, Kinds) /\ others[n] = it
  <2>1. Formed(iters, Sizes, Kinds) /\ Alike(iters, iters)
    BY AlikeItself DEF TInv, Formed
  <2>2. iters' = Append(iters, it)
    BY <1>6 DEF NewIterator
  <2> QED
    BY <1>5, <1>7, <2>1, <2>2, AddedFormed
<1>9. step # 0 => Simple(others, n)
  <2>1. Below(others, n) = {n}
    BY <1>4, <1>8, BelowAlone
  <2> QED
    BY <1>3, <1>8, <2>1 DEF Simple
<1>10. Stands(others, Sizes, n, 0)
  <2>1. Spots(others, Sizes, n) = {p \in Int : it.index = it.begin + p * it.step}
    <3>1. others[n].form = "range"
      BY <1>3, <1>8
    <3>2. Spots(others, Sizes, n) = {p \in Int : others[n].index = others[n].begin + p * others[n].step}
      BY <1>8, <3>1, PlaceForms
    <3> QED
      BY <1>8, <3>2
  <2>2. begin = begin + 0 * step
    OBVIOUS
  <2>3. 0 \in Spots(others, Sizes, n)
    BY <1>3, <2>1, <2>2
  <2> QED
    BY <2>3 DEF Stands
<1> QED
  BY Zenon, <1>5, <1>6, <1>7, <1>9, <1>10, AddedBeside

LEMMA BelowWithin ==
    ASSUME NEW its, Nested(its), NEW i \in 1..Len(its)
    PROVE  \A l \in Below(its, i) : l \in 1..Len(its)
<1>1. Below(its, i) \subseteq 1..i
  BY BelowOlder
<1>2. PICK n \in Nat : n = Len(its)
  BY SequenceFacts DEF Nested
<1>3. \A l \in 1..i : l \in 1..n
  BY <1>2
<1> QED
  BY <1>1, <1>2, <1>3

LEMMA CombinedTraversed ==
    ASSUME IInv, TInv, IInv', NEW i \in 1..Len(iters), NEW j \in 1..Len(iters), Combined(<<i, j>>)
    PROVE  TInv'
<1>1. PICK of, it : of = <<i, j>> /\ it = Iterator("combined", of)
  OBVIOUS
<1>2. it.form = "combined" /\ it.of = of /\ it.index = 0
  BY <1>1 DEF Iterator
<1>3. Len(of) = 2 /\ DOMAIN of = 1..2 /\ of[1] = i /\ of[2] = j
  BY <1>1
<1>4. Wraps(it) /\ ~OverContainer(it)
  BY <1>2 DEF Wraps, OverContainer
<1>5. FormedOne(it, Sizes, Kinds)
  BY <1>2, <1>3, <1>4 DEF FormedOne, OverContainer
<1>6. NewIterator(iters, it, 0, Append(history.pristine, Untouched(of)))
  BY <1>1 DEF Combined
<1>7. PICK others, n : others = Append(iters, it) /\ others = iters' /\ n = Len(iters) + 1
  BY Zenon, <1>6 DEF NewIterator
<1>8. /\ n \in 1..Len(others) /\ Formed(others, Sizes, Kinds) /\ Extends(iters, others) /\ others[n] = it
      /\ \A k \in 1..Len(iters) : others[k] = iters[k] /\ k \in 1..Len(others)
      /\ Formed(iters, Sizes, Kinds)
  <2>1. Formed(iters, Sizes, Kinds) /\ Alike(iters, iters)
    BY AlikeItself DEF TInv, Formed
  <2>2. iters' = Append(iters, it)
    BY <1>7
  <2> QED
    BY <1>5, <1>7, <2>1, <2>2, AddedFormed
<1>9. /\ DOMAIN Inner(others[n]) = 1..2
      /\ Inner(others[n])[1] = i /\ Inner(others[n])[2] = j
      /\ Below(others, i) \subseteq Below(others, n) /\ Below(others, j) \subseteq Below(others, n)
  <2>1. others[n].of[1] = i /\ others[n].of[2] = j /\ others[n].form = "combined"
    BY <1>2, <1>3, <1>8
  <2> QED
    BY <1>2, <1>4, <1>8, <2>1, Inners
<1>10. \A k \in Below(others, n) : k = n \/ k \in Below(others, i) \/ k \in Below(others, j)
  <2>1. Below(others, n) = {n} \cup UNION {Below(others, Inner(others[n])[k]) : k \in DOMAIN Inner(others[n])}
    BY Zenon, <1>8, BelowFacts DEF Formed
  <2>2. \A k \in 1..2 : k = 1 \/ k = 2
    OBVIOUS
  <2> QED
    BY <1>9, <2>1, <2>2
<1>11. ASSUME Untouched(of)
       PROVE  /\ Simple(others, n)
              /\ OrderlyIn(others, n) /\ FreshIn(others, version, n) => Stands(others, Sizes, n, 0)
  <2>1. /\ history.pristine[i] /\ history.taken[i] = 0
        /\ history.pristine[j] /\ history.taken[j] = 0
        /\ Below(iters, i) \cap Below(iters, j) = {}
    <3>1. 1 \in DOMAIN of /\ 2 \in DOMAIN of
      BY <1>3
    <3>2. 1 # 2
      OBVIOUS
    <3> QED
      BY <1>3, <1>11, <3>1, <3>2 DEF Untouched
  <2>2. \A k \in {i, j} : Traversed(iters, Sizes, version, history, k)
    BY DEF TInv
  <2>3. ASSUME NEW k \in {i, j}
        PROVE  /\ Simple(others, k)
               /\ OrderlyIn(others, n) /\ FreshIn(others, version, n) => Stands(others, Sizes, k, 0)
               /\ Below(others, k) = Below(iters, k)
    <3>1. k \in 1..Len(iters) /\ history.pristine[k] /\ history.taken[k] = 0
          /\ Below(others, k) \subseteq Below(others, n)
      BY <1>9, <2>1
    <3>2. /\ Simple(iters, k)
          /\ OrderlyIn(iters, k) /\ FreshIn(iters, version, k) => Stands(iters, Sizes, k, 0)
      BY <2>2, <3>1 DEF Traversed
    <3>3. /\ Simple(iters, k) <=> Simple(others, k)
          /\ FreshIn(iters, version, k) <=> FreshIn(others, version, k)
          /\ OrderlyIn(iters, k) <=> OrderlyIn(others, k)
      BY <1>8, <3>1, ShapeSame
    <3>4. /\ FreshIn(others, version, n) => FreshIn(others, version, k)
          /\ OrderlyIn(others, n) => OrderlyIn(others, k)
      BY Zenon, <3>1, Inherited
    <3>5. \A l \in Below(iters, k) : others[l].index = iters[l].index
      <4>1. \A l \in Below(iters, k) : l \in 1..Len(iters)
        BY <1>8, <3>1, BelowWithin DEF Formed
      <4> QED
        BY Zenon, <1>8, <4>1
    <3>6. Stands(iters, Sizes, k, 0) => Stands(others, Sizes, k, 0)
      BY Zenon, <1>8, <3>1, <3>5, OthersStand
    <3>7. Below(others, k) = Below(iters, k)
      <4>1. Nested(iters)
        BY <1>8 DEF Formed
      <4> QED
        BY <1>8, <3>1, <4>1, BelowSame
    <3> QED
      BY <3>2, <3>3, <3>4, <3>6, <3>7
  <2>4. Simple(others, n)
    <3>1. Simple(others, i) /\ Simple(others, j) /\ Below(others, i) \cap Below(others, j) = {}
      BY <2>1, <2>3
    <3>2. others[n].form = "combined" /\ others[n].of[1] = i /\ others[n].of[2] = j
      BY <1>2, <1>3, <1>8
    <3> QED
      BY Zenon, <1>10, <3>1, <3>2 DEF Simple
  <2>5. ASSUME OrderlyIn(others, n), FreshIn(others, version, n)
        PROVE  Stands(others, Sizes, n, 0)
    <3>1. ASSUME NEW k \in {i, j}
          PROVE  Count(others, Sizes, k) \in Nat /\ (Count(others, Sizes, k) = 0 \/ 0 \in Spots(others, Sizes, k))
      <4>1. k \in 1..Len(others)
        BY <1>8
      <4>2. Simple(others, k) /\ Stands(others, Sizes, k, 0)
        BY <2>3, <2>5, <3>1
      <4>3. Count(others, Sizes, k) \in Nat
        BY <1>8, <4>1, <4>2, CountFacts
      <4> QED
        BY <4>2, <4>3 DEF Stands
    <3>2. PICK r \in Nat, s \in Nat : r = Count(others, Sizes, i) /\ s = Count(others, Sizes, j)
      BY <3>1
    <3>3. /\ Count(others, Sizes, n) = Smaller(r, s)
          /\ Spots(others, Sizes, n) = {p \in Int : p \in Spots(others, Sizes, i) /\ p \in Spots(others, Sizes, j)}
      <4>1. others[n].form = "combined" /\ others[n].of[1] = i /\ others[n].of[2] = j
        BY <1>2, <1>3, <1>8
      <4> QED
        BY <1>8, <3>2, <4>1, PlaceForms
    <3>4. CASE r = 0 \/ s = 0
      <4>1. Smaller(r, s) = 0
        BY <3>2, <3>4 DEF Smaller
      <4> QED
        BY <3>3, <4>1 DEF Stands
    <3>5. CASE r # 0 /\ s # 0
      <4>1. 0 \in Spots(others, Sizes, n)
        BY <3>1, <3>2, <3>3, <3>5
      <4> QED
        BY <4>1 DEF Stands
    <3> QED
      BY <3>4, <3>5
  <2> QED
    BY <2>4, <2>5
<1>12. PICK b : b = Untouched(of)
  OBVIOUS
<1> QED
  BY <1>5, <1>6, <1>7, <1>11, AddedBeside

\* Two iterators that are the same record.
LEMMA TwinFacts ==
    ASSUME NEW its, NEW sizes, NEW kinds, Formed(its, sizes, kinds), NEW i \in 1..Len(its), NEW n \in 1..Len(its),
           its[n] = its[i]
    PROVE  /\ Simple(its, i) => Simple(its, n)
           /\ \A ver : FreshIn(its, ver, n) => FreshIn(its, ver, i)
           /\ OrderlyIn(its, n) => OrderlyIn(its, i)
           /\ Count(its, sizes, n) = Count(its, sizes, i) /\ Spots(its, sizes, n) = Spots(its, sizes, i)
<1>1. PICK inner, U : inner = Inner(its[i]) /\ inner = Inner(its[n])
                      /\ U = UNION {Below(its, inner[j]) : j \in DOMAIN inner}
  BY Zenon
<1>2. Nested(its)
  BY DEF Formed
<1>3. Below(its, i) = {i} \cup U /\ Below(its, n) = {n} \cup U
  <2>1. Below(its, i) = {i} \cup UNION {Below(its, Inner(its[i])[j]) : j \in DOMAIN Inner(its[i])}
    BY Zenon, <1>2, BelowFacts
  <2>2. Below(its, n) = {n} \cup UNION {Below(its, Inner(its[n])[j]) : j \in DOMAIN Inner(its[n])}
    BY Zenon, <1>2, BelowFacts
  <2>3. Below(its, i) = {i} \cup UNION {Below(its, inner[j]) : j \in DOMAIN inner}
    BY Zenon, <1>1, <2>1
  <2>4. Below(its, n) = {n} \cup UNION {Below(its, inner[j]) : j \in DOMAIN inner}
    BY Zenon, <1>1, <2>2
  <2> QED
    BY <1>1, <2>3, <2>4
<1>4. Simple(its, i) => Simple(its, n)
  BY <1>3 DEF Simple
<1>5. \A ver : FreshIn(its, ver, n) => FreshIn(its, ver, i)
  BY <1>3 DEF FreshIn
<1>6. ReversibleIn(its, n) => ReversibleIn(its, i)
  BY <1>3 DEF ReversibleIn
<1>7. OrderlyIn(its, n) => OrderlyIn(its, i)
  BY <1>3, <1>6 DEF OrderlyIn
<1>8. Places(its, sizes)[n] = Places(its, sizes)[i]
  <2>1. Places(its, sizes)[i] =
           PlaceOf(its[i], sizes, [j \in DOMAIN Inner(its[i]) |-> Places(its, sizes)[Inner(its[i])[j]]])
    BY Zenon, <1>2, PlacesFacts
  <2>2. Places(its, sizes)[n] =
           PlaceOf(its[n], sizes, [j \in DOMAIN Inner(its[n]) |-> Places(its, sizes)[Inner(its[n])[j]]])
    BY Zenon, <1>2, PlacesFacts
  <2>3. PlaceOf(its[n], sizes, [j \in DOMAIN Inner(its[n]) |-> Places(its, sizes)[Inner(its[n])[j]]])
        = PlaceOf(its[i], sizes, [j \in DOMAIN Inner(its[i]) |-> Places(its, sizes)[Inner(its[i])[j]]])
    BY Zenon
  <2> QED
    BY Zenon, <2>1, <2>2, <2>3
<1> QED
  BY <1>4, <1>5, <1>7, <1>8 DEF Count, Spots

LEMMA CloneTraversed ==
    ASSUME IInv, TInv, IInv', NEW i \in 1..Len(iters), CloneIter(i)
    PROVE  TInv'
<1>1. PICK it, t : it = iters[i] /\ t = history.taken[i]
  OBVIOUS
<1>2. Formed(iters, Sizes, Kinds) /\ Alike(iters, iters) /\ Traversed(iters, Sizes, version, history, i)
  BY AlikeItself DEF TInv, Formed
<1>3. FormedOne(it, Sizes, Kinds)
  BY <1>1, <1>2 DEF Formed
<1>4. NewIterator(iters, it, t, Append(history.pristine, history.pristine[i]))
  BY <1>1 DEF CloneIter
<1>5. PICK others, n : others = Append(iters, it) /\ others = iters' /\ n = Len(iters) + 1
  BY <1>4 DEF NewIterator
<1>6. /\ n \in 1..Len(others) /\ Formed(others, Sizes, Kinds) /\ Extends(iters, others) /\ others[n] = it
      /\ \A k \in 1..Len(iters) : others[k] = iters[k] /\ k \in 1..Len(others)
  <2>1. iters' = Append(iters, it)
    BY <1>5
  <2> QED
    BY <1>2, <1>3, <1>5, <2>1, AddedFormed
<1>7. ASSUME history.pristine[i]
      PROVE  /\ t \in Nat /\ Simple(others, n)
             /\ OrderlyIn(others, n) /\ FreshIn(others, version, n) => Stands(others, Sizes, n, t)
  <2>1. /\ t \in Nat /\ Simple(iters, i)
        /\ OrderlyIn(iters, i) /\ FreshIn(iters, version, i) => Stands(iters, Sizes, i, t)
    BY <1>1, <1>2, <1>7 DEF Traversed
  <2>2. /\ Simple(iters, i) <=> Simple(others, i)
        /\ FreshIn(iters, version, i) <=> FreshIn(others, version, i)
        /\ OrderlyIn(iters, i) <=> OrderlyIn(others, i)
    BY <1>2, <1>6, ShapeSame
  <2>3. others[n] = others[i] /\ i \in 1..Len(others)
    BY <1>1, <1>6
  <2>4. /\ Simple(others, i) => Simple(others, n)
        /\ FreshIn(others, version, n) => FreshIn(others, version, i)
        /\ OrderlyIn(others, n) => OrderlyIn(others, i)
        /\ Count(others, Sizes, n) = Count(others, Sizes, i) /\ Spots(others, Sizes, n) = Spots(others, Sizes, i)
    BY <1>6, <2>3, TwinFacts
  <2>5. \A l \in Below(iters, i) : others[l].index = iters[l].index
    <3>1. \A l \in Below(iters, i) : l \in 1..Len(iters)
      BY <1>2, BelowOlder, SequenceFacts DEF Formed, Nested
    <3> QED
      BY <1>6, <3>1
  <2>6. Stands(iters, Sizes, i, t) => Stands(others, Sizes, i, t)
    BY <1>2, <1>6, <2>5, OthersStand
  <2>7. Stands(others, Sizes, i, t) => Stands(others, Sizes, n, t)
    BY <2>3, <2>4 DEF Stands
  <2> QED
    BY <2>1, <2>2, <2>4, <2>6, <2>7
<1> QED
  BY <1>3, <1>4, <1>5, <1>7, AddedBeside

\* What size answers is a number, or the process ends.
LEMMA SizeSane ==
    ASSUME HeapOK, PlainHeap, Formed(iters, Sizes, Kinds)
    PROVE  \A i \in 1..Len(iters) : IterSize(iters, i).n \in Int
<1>0. PICK N \in Nat : N = Len(iters) /\ Nested(iters)
  BY SequenceFacts DEF Nested, Formed
<1>1. PICK T : T = {i \in 1..N : IterSize(iters, i).n \in Int}
  OBVIOUS
<1>2. ASSUME NEW m, Holds(m), NEW n \in 0..m
      PROVE  Integer(n).n \in Int
  <2>1. Integer(n) = Scalar("int", n)
    BY <1>2 DEF Holds
  <2> QED
    BY <2>1, ScalarFields
<1>3. Crash.n = 0
  BY DEF Crash, Raise, Scalar, Object
<1>4. ASSUME NEW i \in 1..N, \A k \in 1..(i - 1) : k \in T
      PROVE  i \in T
  <2> SUFFICES IterSize(iters, i).n \in Int
    BY <1>1
  <2>0. PICK it : it = iters[i]
    OBVIOUS
  <2>00. PICK inner, z : /\ inner = [j \in DOMAIN Inner(it) |-> IterSize(iters, Inner(it)[j])]
                         /\ z = IterSize(iters, i) /\ z = Size(it, inner)
    BY Zenon, <1>0, <2>0, SizesFacts
  <2>1. CASE OverContainer(it) /\ it.form # "coroutine"
    <3>1. PICK subs : subs = heap[it.of[1]].subs /\ Count(iters, Sizes, i) = Len(subs)
      BY <1>0, <2>0, <2>1, ContainerFacts
    <3>2. Size(it, inner) = Integer(Len(subs))
      BY <2>1, <3>1 DEF Size, OverContainer
    <3>3. Count(iters, Sizes, i) = Sizes[it.of[1]]
      BY <1>0, <2>0, <2>1, PlaceForms
    <3>4. FormedOne(it, Sizes, Kinds)
      BY <1>0, <2>0 DEF Formed
    <3>5. PICK s : s = Len(subs) /\ s \in Nat /\ Holds(s)
      BY <2>1, <3>1, <3>3, <3>4 DEF Formed, FormedOne
    <3> QED
      BY <1>2, <2>00, <3>2, <3>5
  <2>2. CASE it.form = "coroutine"
    <3>1. Size(it, inner) = Integer(0)
      BY <2>2 DEF Size
    <3>2. PICK a : a \in DOMAIN Sizes
      BY <1>0, <2>0, <2>2 DEF Formed, FormedOne, OverContainer
    <3>3. Sizes[a] \in Nat /\ Holds(Sizes[a])
      BY <3>2 DEF Formed
    <3> QED
      BY <1>2, <2>00, <3>1, <3>3
  <2>3. CASE it.form = "range"
    <3>1. RangeFormed(it) /\ Holds(Abs(it.end - it.begin))
      BY <1>0, <2>0, <2>3 DEF Formed, FormedOne
    <3>2. Size(it, inner) = RangeSize(it)
      BY <2>3 DEF Size
    <3>3. CASE it.step # 0
      <4>1. PICK m \in 0..Abs(it.end - it.begin) : RangeSize(it) = Integer(m)
        BY <3>1, <3>3, RangeFacts
      <4>2. Integer(m).n \in Int
        BY <1>2, <3>1, <4>1
      <4> QED
        BY <2>00, <3>2, <4>1, <4>2
    <3>4. CASE it.step = 0
      <4>1. PICK d \in Int : d = it.end - it.begin
        BY <3>1 DEF RangeFormed
      <4>2. RangeSize(it) = IF d < 0 THEN Integer(1) ELSE Crash
        BY <3>4, <4>1 DEF RangeSize
      <4>3. ASSUME d < 0
            PROVE  Integer(1).n \in Int
        <5>1. 1 \in 0..Abs(d)
          BY <4>1, <4>3 DEF Abs
        <5> QED
          BY <1>2, <3>1, <4>1, <5>1
      <4> QED
        BY <1>3, <2>00, <3>2, <4>2, <4>3
    <3> QED
      BY <3>3, <3>4
  <2>4. CASE Wraps(it)
    <3>1. PICK c : c = it.of[1] /\ c \in 1..(i - 1)
      BY <1>0, <2>0, <2>4, Inners
    <3>2. IterSize(iters, c).n \in Int
      BY <1>1, <1>4, <3>1
    <3>5. CASE it.form = "reversed"
      <4>1. DOMAIN Inner(it) = 1..1 /\ Inner(it)[1] = c
        BY <1>0, <2>0, <3>1, <3>5, Inners
      <4>2. Size(it, inner) = inner[1]
        BY <3>5 DEF Size
      <4>3. inner[1] = IterSize(iters, c)
        BY <2>00, <4>1
      <4> QED
        BY <2>00, <3>2, <4>2, <4>3
    <3>6. CASE it.form = "combined"
      <4>1. PICK d : d = it.of[2] /\ d \in 1..(i - 1)
        BY <1>0, <2>0, <3>6, Inners
      <4>4. IterSize(iters, d).n \in Int
        BY <1>1, <1>4, <4>1
      <4>5. DOMAIN Inner(it) = 1..2 /\ Inner(it)[1] = c /\ Inner(it)[2] = d
        BY <1>0, <2>0, <3>1, <3>6, <4>1, Inners
      <4>6. PICK x, y : /\ x.n \in Int /\ y.n \in Int
                        /\ inner[1] = x /\ inner[2] = y /\ DOMAIN inner = 1..2
        BY <2>00, <3>2, <4>4, <4>5
      <4>8. PICK sizes : sizes = {inner[j] : j \in DOMAIN inner} /\ sizes = {x, y}
        <5>1. 1 \in 1..2 /\ 2 \in 1..2 /\ \A j \in 1..2 : j = 1 \/ j = 2
          OBVIOUS
        <5>2. \A j \in DOMAIN inner : inner[j] \in {x, y}
          BY <4>6, <5>1
        <5>3. x \in {inner[j] : j \in DOMAIN inner} /\ y \in {inner[j] : j \in DOMAIN inner}
          BY <4>6, <5>1
        <5> QED
          BY Zenon, <5>2, <5>3
      <4>10. it.of # <<>>
        <5>1. Len(it.of) = 2
          BY <1>0, <2>0, <3>6 DEF Formed, FormedOne
        <5> QED
          BY <5>1
      <4>11. z = IF Crash \in sizes THEN Crash ELSE CHOOSE r \in sizes : \A u \in sizes : r.n <= u.n
        <5>1. Size(it, inner) = IF it.of = <<>> THEN Integer(0)
                                ELSE IF Crash \in sizes THEN Crash
                                ELSE CHOOSE r \in sizes : \A u \in sizes : r.n <= u.n
          BY <3>6, <4>8 DEF Size
        <5> QED
          BY <2>00, <4>10, <5>1
      <4>12. (CHOOSE r \in sizes : \A u \in sizes : r.n <= u.n) \in sizes
        <5>1. \E r \in sizes : \A u \in sizes : r.n <= u.n
          <6>1. x \in sizes /\ y \in sizes /\ \A u \in sizes : u = x \/ u = y
            BY <4>8
          <6>2. CASE x.n <= y.n
            <7>1. \A u \in sizes : x.n <= u.n
              BY <4>6, <6>1, <6>2
            <7> QED
              BY <6>1, <7>1
          <6>3. CASE y.n <= x.n
            <7>1. \A u \in sizes : y.n <= u.n
              BY <4>6, <6>1, <6>3
            <7> QED
              BY <6>1, <7>1
          <6> QED
            BY <4>6, <6>2, <6>3
        <5> QED
          BY <5>1
      <4>13. z = Crash \/ z = x \/ z = y
        BY <4>8, <4>11, <4>12
      <4> QED
        BY <1>3, <2>00, <4>6, <4>13
    <3> QED
      BY <2>4, <3>5, <3>6 DEF Wraps
  <2> QED
    BY <1>0, <2>0, <2>1, <2>2, <2>3, <2>4 DEF Formed, FormedOne
<1>5. \A i \in 1..N : i \in T
  BY <1>4, Upwards
<1> QED
  BY <1>0, <1>1, <1>5

\* A step that changes nothing of the containers and iterators.
LEMMA QuietTraversed ==
    ASSUME IInv, TInv, IInv', VersionsTell, VersionsTell', SizesFit',
           heap' = heap, version' = version, SameIterators
    PROVE  TInv'
<1>1. PlainHeap'
  BY DEF TInv, PlainHeap
<1>2. HeapOK' /\ VersionsOK
  BY DEF IInv
<1>3. \A a \in 1..Len(heap) : version[a] \in Int
  BY DEF IInv, VersionsOK, HeapOK
<1>4. \A a \in 1..Len(heap) :
              /\ version[a] \in Int /\ version'[a] \in Int /\ version[a] <= version'[a]
              /\ heap'[a].k = heap[a].k
              /\ heap[a].k \in {"string", "coroutine"} => Len(heap'[a].subs) = Len(heap[a].subs)
  BY <1>3
<1>5. Len(heap) <= Len(heap')
  <2>1. Len(heap) \in Nat
    BY SequenceFacts DEF IInv, HeapOK
  <2> QED
    BY <2>1
<1> QED
  BY <1>1, <1>2, <1>4, <1>5, HeapTraversed

LEMMA UndisturbedKept ==
    ASSUME Formed(iters, Sizes, Kinds), NEW i \in 1..Len(iters)
    PROVE  /\ IsSequence(Undisturbed(i)) /\ Len(Undisturbed(i)) = Len(iters)
           /\ \A j \in 1..Len(iters) :
                 Undisturbed(i)[j] => history.pristine[j] /\ Below(iters, i) \cap Below(iters, j) = {}
<1>1. PICK m \in Nat : m = Len(iters) /\ DOMAIN iters = 1..m
  BY SequenceFacts DEF Formed, Nested
<1>2. PICK q : q = [j \in 1..m |-> history.pristine[j] /\ j \notin Touching(iters, i)]
               /\ q = Undisturbed(i)
  BY Zenon, <1>1 DEF Undisturbed
<1>3. q = [j \in 1..m |-> q[j]]
  BY <1>2
<1>4. IsSequence(q) /\ Len(q) = m
  BY <1>3, FunctionIsSequence
<1>5. ASSUME NEW j \in 1..m, q[j]
      PROVE  history.pristine[j] /\ Below(iters, i) \cap Below(iters, j) = {}
  <2>1. history.pristine[j] /\ j \notin Touching(iters, i)
    BY Zenon, <1>2, <1>5
  <2> QED
    BY <1>1, <2>1 DEF Touching
<1> QED
  BY <1>1, <1>2, <1>4, <1>5

\* Nothing below an iterator has moved that is below no iterator moved.
LEMMA UndisturbedStay ==
    ASSUME HeapOK, Formed(iters, Sizes, Kinds), NEW i \in 1..Len(iters), NEW n \in Int,
           NEW out \in Moved(iters, i, n), Within(out.iters)
    PROVE  \A j \in 1..Len(iters) : Undisturbed(i)[j] => Kept(out.iters, j)
<1>1. SUFFICES ASSUME NEW j \in 1..Len(iters), Undisturbed(i)[j]
               PROVE  Kept(out.iters, j)
  OBVIOUS
<1>2. history.pristine[j] /\ Below(iters, i) \cap Below(iters, j) = {}
  BY <1>1, UndisturbedKept
<1>3. \A k \in 1..Len(iters) : k \notin Below(iters, i) => out.iters[k].index = iters[k].index
  BY MovedFormed
<1>4. \A k \in Below(iters, j) : k \in 1..Len(iters)
  BY <1>1, BelowWithin DEF Formed
<1> QED
  BY <1>2, <1>3, <1>4 DEF Kept

\* A reversed iterator begins where the one it is around has its last element.
LEMMA ReversedStands ==
    ASSUME IInv, TInv, IInv', NEW i \in 1..Len(iters), Untouched(<<i>>),
           NEW n \in Int, n = IterSize(iters, i).n - 1, NEW out \in Moved(iters, i, n), Within(out.iters),
           iters' = Append(out.iters, Iterator("reversed", <<i>>)),
           NEW r, r = Len(iters) + 1
    PROVE  /\ Simple(iters', r)
           /\ OrderlyIn(iters', r) /\ FreshIn(iters', version, r) => Stands(iters', Sizes, r, 0)
<1>1. PICK it, its, others : it = Iterator("reversed", <<i>>) /\ its = out.iters /\ others = iters'
                             /\ others = Append(its, it)
  OBVIOUS
<1>2. HeapOK /\ PlainHeap /\ Formed(iters, Sizes, Kinds) /\ Traversed(iters, Sizes, version, history, i)
  BY DEF IInv, TInv
<1>3. /\ Alike(iters, its) /\ Extends(iters, its) /\ Len(its) = Len(iters) /\ Formed(its, Sizes, Kinds)
      /\ \A j \in 1..Len(iters) : its[j].index \in Int
  BY <1>1, <1>2, MovedFormed
<1>4. it.form = "reversed" /\ it.of[1] = i /\ it.index = 0 /\ Len(it.of) = 1
  <2>1. it.form = "reversed" /\ it.of = <<i>> /\ it.index = 0
    BY <1>1, NewFields
  <2> QED
    BY <2>1, OneElement
<1>5. FormedOne(it, Sizes, Kinds)
  BY <1>4 DEF FormedOne, Wraps, OverContainer
<1>6. /\ r \in 1..Len(others) /\ Formed(others, Sizes, Kinds) /\ Extends(iters, others) /\ Extends(its, others)
      /\ others[r] = it /\ \A k \in 1..Len(iters) : others[k] = its[k] /\ k \in 1..Len(others)
  <2>1. iters' = Append(its, it)
    BY <1>1
  <2>2. LET xs == Append(its, it)
            m == Len(iters) + 1
        IN /\ m \in 1..Len(xs) /\ Formed(xs, Sizes, Kinds) /\ Extends(iters, xs) /\ Extends(its, xs)
           /\ xs[m] = it /\ \A k \in 1..Len(iters) : xs[k] = its[k] /\ k \in 1..Len(xs)
    BY Zenon, <1>2, <1>3, <1>5, <2>1, AddedFormed
  <2> QED
    BY Zenon, <1>1, <2>2
<1>7. history.pristine[i] /\ history.taken[i] = 0
  <2>1. 1 \in DOMAIN <<i>> /\ <<i>>[1] = i
    OBVIOUS
  <2> QED
    BY <2>1 DEF Untouched
<1>8. /\ Simple(iters, i)
      /\ OrderlyIn(iters, i) /\ FreshIn(iters, version, i) => Stands(iters, Sizes, i, 0)
  BY <1>2, <1>7 DEF Traversed
<1>9. /\ Simple(iters, i) <=> Simple(others, i)
      /\ FreshIn(iters, version, i) <=> FreshIn(others, version, i)
      /\ ReversibleIn(iters, i) <=> ReversibleIn(others, i)
      /\ OrderlyIn(iters, i) <=> OrderlyIn(others, i)
  BY <1>2, <1>6, ShapeSame
<1>10. Below(others, r) = {r} \cup Below(others, i)
  <2>1. Below(others, r) = {r} \cup UNION {Below(others, Inner(others[r])[j]) : j \in DOMAIN Inner(others[r])}
    BY Zenon, <1>6, BelowFacts DEF Formed
  <2>2. DOMAIN Inner(others[r]) = 1..1 /\ Inner(others[r])[1] = i
    BY <1>4, <1>6, Inners
  <2>3. \A j \in 1..1 : j = 1
    OBVIOUS
  <2> QED
    BY <2>1, <2>2, <2>3
<1>11. Simple(others, r)
  <2>1. \A j \in Below(others, r) : j = r \/ j \in Below(others, i)
    BY <1>10
  <2>2. others[r].form = "reversed"
    BY <1>4, <1>6
  <2>3. Simple(others, i)
    BY <1>8, <1>9
  <2> QED
    BY Zenon, <2>1, <2>2, <2>3 DEF Simple
<1>12. ASSUME OrderlyIn(others, r), FreshIn(others, version, r)
       PROVE  Stands(others, Sizes, r, 0)
  <2>1. ReversibleIn(others, r)
    <3>1. r \in Below(others, r) /\ others[r].form = "reversed"
      BY <1>4, <1>6, <1>10
    <3> QED
      BY <1>12, <3>1 DEF OrderlyIn
  <2>2. Below(others, i) \subseteq Below(others, r)
    BY <1>10
  <2>3. ReversibleIn(others, i) /\ OrderlyIn(others, i) /\ FreshIn(others, version, i)
    BY Zenon, <1>12, <2>1, <2>2, Inherited
  <2>4. ReversibleIn(iters, i) /\ OrderlyIn(iters, i) /\ FreshIn(iters, version, i)
    BY <1>9, <2>3
  <2>5. PICK c \in Nat : c = Count(iters, Sizes, i) /\ Holds(c)
    BY <1>2, <1>8, CountFacts
  <2>6. c = 0 \/ 0 \in Spots(iters, Sizes, i)
    <3>1. Stands(iters, Sizes, i, 0)
      BY <1>8, <2>4
    <3> QED
      BY <2>5, <3>1 DEF Stands
  <2>7. n = c - 1
    <3>1. \A j \in Below(iters, i) : iters[j].form # "coroutine"
      BY <2>4 DEF ReversibleIn
    <3>2. IterSize(iters, i) = Integer(c)
      BY <1>2, <1>8, <2>5, <3>1, SizeThere
    <3>3. Integer(c) = Scalar("int", c)
      BY <2>5 DEF Holds
    <3>4. Integer(c).n = c
      BY <3>3, ScalarFields
    <3> QED
      BY <3>2, <3>4
  <2>8. Count(others, Sizes, i) = c
    BY <1>2, <1>6, <2>5, PlacesSame
  <2>9. /\ Count(others, Sizes, r) = c
        /\ Spots(others, Sizes, r) = {p \in Int : c - 1 - p \in Spots(others, Sizes, i)}
    <3>1. others[r].form = "reversed" /\ others[r].of[1] = i
      BY <1>4, <1>6
    <3> QED
      BY <1>6, <2>8, <3>1, PlaceForms
  <2>10. CASE c = 0
    BY <2>9, <2>10 DEF Stands
  <2>11. CASE 0 \in Spots(iters, Sizes, i)
    <3>1. MovableAll(iters, i, n)
      BY <1>2, <1>8, <2>4, AllMovable
    <3>2. \A p \in Spots(iters, Sizes, i) : p + n \in Spots(out.iters, Sizes, i)
      BY <1>1, <1>2, <1>3, <1>8, <3>1, MoveWhole
    <3>3. n \in Spots(its, Sizes, i)
      <4>1. 0 + n \in Spots(out.iters, Sizes, i)
        BY <2>11, <3>2
      <4>2. 0 + n = n
        OBVIOUS
      <4> QED
        BY <1>1, <4>1, <4>2
    <3>4. Spots(others, Sizes, i) = Spots(its, Sizes, i)
      <4>1. \A l \in Below(its, i) : l \in 1..Len(iters)
        BY <1>3, BelowWithin DEF Formed
      <4>2. \A l \in Below(its, i) : others[l].index = its[l].index
        BY <1>6, <4>1
      <4>3. i \in 1..Len(its)
        BY <1>3
      <4> QED
        BY <1>3, <1>6, <4>2, <4>3, PlacesSame
    <3>5. c - 1 - 0 \in Spots(others, Sizes, i)
      <4>1. c - 1 - 0 = n
        BY <2>7
      <4> QED
        BY <3>3, <3>4, <4>1
    <3>6. 0 \in Spots(others, Sizes, r)
      BY <2>9, <3>5
    <3> QED
      BY <3>6 DEF Stands
  <2> QED
    BY <2>6, <2>10, <2>11
<1> QED
  BY <1>1, <1>11, <1>12

\* A move of an iterator leaves those alone that share nothing with it.
LEMMA MoveTraversed ==
    ASSUME IInv, TInv, NEW i \in 1..Len(iters), NEW n \in Int, NEW out \in Moved(iters, i, n),
           MovedTo(out.iters, history.taken, Undisturbed(i))
    PROVE  TInv'
<1>1. PICK its, q, taken : its = out.iters /\ q = Undisturbed(i) /\ taken = history.taken
  OBVIOUS
<1>2. HeapOK /\ Formed(iters, Sizes, Kinds) /\ Booked(history, iters) /\ Within(its)
  BY <1>1 DEF IInv, TInv, MovedTo
<1>3. Extends(iters, its) /\ Len(its) = Len(iters) /\ Formed(its, Sizes, Kinds)
  BY <1>1, <1>2, MovedFormed
<1>4. IsSequence(q) /\ Len(q) = Len(iters) /\ \A j \in 1..Len(iters) : q[j] => Kept(its, j)
  BY <1>1, <1>2, UndisturbedKept, UndisturbedStay
<1>5. IsSequence(taken) /\ Len(taken) = Len(iters)
  BY <1>1, <1>2 DEF Booked
<1>6. MovedTo(its, taken, q)
  BY <1>1
<1> QED
  BY <1>1, <1>3, <1>4, <1>5, <1>6, MovedTraversed

LEMMA ReverseTraversed ==
    ASSUME IInv, TInv, IInv', VersionsTell, VersionsTell', SizesFit', NEW i \in 1..Len(iters), ReverseIter(i)
    PROVE  TInv'
<1>1. CASE Die
  BY <1>1, QuietTraversed DEF Die
<1>2. PICK n : n = IterSize(iters, i).n - 1
  OBVIOUS
<1>3. n \in Int
  <2>1. IterSize(iters, i).n \in Int
    BY SizeSane DEF IInv, TInv
  <2> QED
    BY <1>2, <2>1
<1>4. ASSUME NEW o \in Moved(iters, i, n),
             NewIterator(o.iters, Iterator("reversed", <<i>>), 0, Append(Undisturbed(i), Untouched(<<i>>)))
      PROVE  TInv'
  <2>1. PICK its, it, q, b, r : /\ its = o.iters /\ it = Iterator("reversed", <<i>>) /\ q = Undisturbed(i)
                                /\ b = Untouched(<<i>>) /\ r = Len(iters) + 1
    OBVIOUS
  <2>2. HeapOK /\ Formed(iters, Sizes, Kinds) /\ Within(o.iters)
    BY <1>4 DEF IInv, TInv, NewIterator
  <2>3. Alike(iters, its) /\ Formed(its, Sizes, Kinds)
    BY <1>3, <2>1, <2>2, MovedFormed
  <2>4. IsSequence(q) /\ Len(q) = Len(iters) /\ \A j \in 1..Len(iters) : q[j] => Kept(its, j)
    BY <1>3, <2>1, <2>2, UndisturbedKept, UndisturbedStay
  <2>5. FormedOne(it, Sizes, Kinds)
    <3>1. it.form = "reversed" /\ it.index = 0
      BY <2>1, NewFields
    <3> QED
      BY <3>1 DEF FormedOne, Wraps, OverContainer
  <2>6. ASSUME b
        PROVE  /\ 0 \in Nat /\ Simple(iters', r)
               /\ OrderlyIn(iters', r) /\ FreshIn(iters', version, r) => Stands(iters', Sizes, r, 0)
    <3>1. Untouched(<<i>>) /\ iters' = Append(o.iters, Iterator("reversed", <<i>>))
      BY <1>4, <2>1, <2>6 DEF NewIterator
    <3> QED
      BY Zenon, <1>2, <1>3, <2>1, <2>2, <3>1, ReversedStands
  <2>7. NewIterator(its, it, 0, Append(q, b))
    BY <1>4, <2>1
  <2> QED
    BY <2>1, <2>3, <2>4, <2>5, <2>6, <2>7, AddedTraversed
<1>5. ASSUME NEW o \in Moved(iters, i, n), MovedTo(o.iters, history.taken, Undisturbed(i))
      PROVE  TInv'
  BY <1>3, <1>5, MoveTraversed
<1>6. \/ Die
      \/ \E o \in Moved(iters, i, n) :
            \/ NewIterator(o.iters, Iterator("reversed", <<i>>), 0, Append(Undisturbed(i), Untouched(<<i>>)))
            \/ MovedTo(o.iters, history.taken, Undisturbed(i))
  BY <1>2 DEF ReverseIter
<1> QED
  BY <1>1, <1>4, <1>5, <1>6

\* What next does to the iterator itself, where it moves it.
LEMMA NextStands ==
    ASSUME HeapOK, PlainHeap, Formed(iters, Sizes, Kinds), NEW i \in 1..Len(iters),
           Simple(iters, i), OrderlyIn(iters, i), FreshIn(iters, version, i),
           NEW t \in Nat, Stands(iters, Sizes, i, t),
           NEW v, v = Get(iters, i), v = Stop => iters[i].form = "reversed",
           NEW out \in Moved(iters, i, 1), Within(out.iters)
    PROVE  out.thrown = Null /\ Stands(out.iters, Sizes, i, t + (IF IsElement(v) THEN 1 ELSE 0))
<1>1. /\ Extends(iters, out.iters) /\ Formed(out.iters, Sizes, Kinds)
      /\ \A j \in 1..Len(iters) : out.iters[j].index \in Int
  BY MovedFormed
<1>2. PICK c \in Nat : c = Count(iters, Sizes, i)
  BY CountFacts
<1>3. Count(out.iters, Sizes, i) = c
  BY <1>1, <1>2, PlacesSame
<1>4. ~IsFailure(v)
  BY GetSound
<1>5. ASSUME NEW p \in Spots(iters, Sizes, i), p >= 0
      PROVE  p \in 0..(c - 1) <=> IsElement(v)
  <2>1. v = IF p \in 0..(c - 1) THEN ElementsOf(i)[p + 1] ELSE Stop
    BY <1>2, <1>5, GetThere
  <2>2. \A n \in 1..c : IsElement(ElementsOf(i)[n])
    BY <1>2, ElementsCounted
  <2>3. ASSUME p \in 0..(c - 1)
        PROVE  IsElement(v)
    <3>1. p + 1 \in 1..c
      BY <2>3
    <3> QED
      BY <2>1, <2>2, <2>3, <3>1
  <2>4. p \notin 0..(c - 1) => ~IsElement(v)
    BY <2>1, Elementary
  <2> QED
    BY <2>3, <2>4
<1>6. \A p \in Spots(iters, Sizes, i) : p \in Int
  BY SpotsAreInt
<1>7. ASSUME MovableAll(iters, i, 1)
      PROVE  /\ out.thrown = Null
             /\ \A p \in Spots(iters, Sizes, i) : p + 1 \in Spots(out.iters, Sizes, i)
  <2>1. 1 \in Int
    OBVIOUS
  <2> QED
    BY <1>1, <1>7, <2>1, MoveWhole
<1>8. CASE IsElement(v)
  <2>1. t \in Spots(iters, Sizes, i)
    <3>1. ~(c = 0 /\ t = 0)
      BY <1>2, <1>8, GetEmpty, Elementary
    <3>2. ASSUME t >= c, NEW p \in Spots(iters, Sizes, i), p >= t
          PROVE  FALSE
      BY <1>5, <1>6, <1>8, <3>2
    <3> QED
      BY <1>2, <3>1, <3>2 DEF Stands
  <2>2. t \in 0..(c - 1)
    BY <1>5, <1>8, <2>1
  <2>3. InsideSpot(iters, i)
    BY <1>2, <2>1, <2>2 DEF InsideSpot
  <2>4. MovableAll(iters, i, 1)
    <3>1. 1 \in Int
      OBVIOUS
    <3> QED
      BY <2>3, <3>1, AllMovable
  <2>5. out.thrown = Null /\ t + 1 \in Spots(out.iters, Sizes, i)
    BY <1>7, <2>1, <2>4
  <2> QED
    BY <1>8, <2>5 DEF Stands
<1>9. CASE ~IsElement(v)
  <2>1. v = Stop /\ iters[i].form = "reversed"
    BY <1>4, <1>9, Elementary
  <2>2. ReversibleIn(iters, i)
    <3>1. i \in Below(iters, i)
      BY BelowOlder DEF Formed
    <3> QED
      BY <2>1, <3>1 DEF OrderlyIn
  <2>3. MovableAll(iters, i, 1)
    <3>1. 1 \in Int
      OBVIOUS
    <3> QED
      BY <2>2, <3>1, AllMovable
  <2>4. out.iters[i].form = "reversed"
    BY <1>1, <2>1 DEF Extends, SameOne
  <2>5. t + (IF IsElement(v) THEN 1 ELSE 0) = t
    BY <1>9
  <2>6. CASE c = 0 /\ t = 0
    BY <1>3, <1>7, <2>3, <2>5, <2>6 DEF Stands
  <2>7. ASSUME NEW p \in Spots(iters, Sizes, i), p >= t
        PROVE  out.thrown = Null /\ Stands(out.iters, Sizes, i, t)
    <3>1. p \in Int /\ p >= 0 /\ p \notin 0..(c - 1)
      BY <1>5, <1>6, <1>9, <2>7
    <3>2. out.thrown = Null /\ p + 1 \in Spots(out.iters, Sizes, i)
      BY <1>7, <2>3
    <3>3. CASE t >= c
      <4>1. p + 1 >= t
        BY <2>7, <3>1
      <4> QED
        BY <1>3, <2>4, <3>2, <3>3, <4>1 DEF Stands
    <3>4. CASE t < c
      <4>1. ~(c = 0 /\ t = 0) /\ ~(t >= c)
        BY <3>4
      <4>2. t \in Spots(iters, Sizes, i)
        BY <1>2, <4>1 DEF Stands
      <4>3. t \in 0..(c - 1)
        BY <3>4
      <4> QED
        BY <1>5, <1>9, <4>2, <4>3
    <3> QED
      BY <3>3, <3>4
  <2>8. (c = 0 /\ t = 0) \/ \E p \in Spots(iters, Sizes, i) : p >= t
    BY <1>2 DEF Stands
  <2> QED
    BY <2>5, <2>6, <2>7, <2>8
<1> QED
  BY <1>8, <1>9

LEMMA NextTraversed ==
    ASSUME IInv, TInv, IInv', VersionsTell, VersionsTell', SizesFit', NEW i \in 1..Len(iters), NextOf(i)
    PROVE  TInv'
<1>1. CASE Die
  BY <1>1, QuietTraversed DEF Die
<1>2. HeapOK /\ PlainHeap /\ Formed(iters, Sizes, Kinds) /\ Booked(history, iters)
  BY DEF IInv, TInv
<1>3. PICK m \in Nat : m = Len(iters) /\ DOMAIN iters = 1..m
  BY <1>2, SequenceFacts DEF Formed, Nested
<1>4. PICK v : v = Get(iters, i)
  OBVIOUS
<1>5. ASSUME NEW o, ~Die,
             o \in Next1(iters, i),
             IF o.thrown = Crash THEN Die
             ELSE MovedTo(o.iters,
                       [history.taken EXCEPT ![i] = @ + (IF IsElement(o.value) THEN 1 ELSE 0)],
                       [j \in DOMAIN iters |->
                           history.pristine[j] /\ (j = i \/ j \notin Touching(iters, i))])
      PROVE  TInv'
  <2>1. PICK its, old, x, taken, q :
               /\ its = o.iters /\ old = history.taken /\ x = (IF IsElement(o.value) THEN 1 ELSE 0)
               /\ taken = [old EXCEPT ![i] = @ + x]
               /\ q = [j \in 1..m |-> history.pristine[j] /\ (j = i \/ j \notin Touching(iters, i))]
    OBVIOUS
  <2>2. MovedTo(its, taken, q)
    <3>1. MovedTo(o.iters,
                  [history.taken EXCEPT ![i] = @ + (IF IsElement(o.value) THEN 1 ELSE 0)],
                  [j \in 1..m |-> history.pristine[j] /\ (j = i \/ j \notin Touching(iters, i))])
      BY <1>3, <1>5
    <3> QED
      BY Zenon, <2>1, <3>1
  <2>3. Within(its)
    BY <2>2 DEF MovedTo
  <2>4. IsSequence(q) /\ Len(q) = m
    <3>1. q = [j \in 1..m |-> q[j]]
      BY <2>1
    <3> QED
      BY <3>1, FunctionIsSequence
  <2>5. /\ IsSequence(taken) /\ Len(taken) = m
        /\ \A j \in 1..m : taken[j] = IF j = i THEN old[i] + x ELSE old[j]
    <3>1. IsSequence(old) /\ Len(old) = m
      BY <1>2, <1>3, <2>1 DEF Booked
    <3>2. DOMAIN old = 1..m
      BY <3>1, SequenceFacts
    <3>3. taken = [j \in 1..m |-> IF j = i THEN old[i] + x ELSE old[j]]
      <4>1. taken = [j \in DOMAIN old |-> IF j = i THEN old[i] + x ELSE old[j]]
        BY <2>1
      <4> QED
        BY <3>2, <4>1
    <3>4. taken = [j \in 1..m |-> taken[j]]
      BY <3>3
    <3>5. IsSequence(taken) /\ Len(taken) = m
      BY <3>4, FunctionIsSequence
    <3> QED
      BY <3>3, <3>5
  <2>6. ASSUME NEW j \in 1..m, q[j]
        PROVE  history.pristine[j] /\ (j # i => Below(iters, i) \cap Below(iters, j) = {})
    <3>1. history.pristine[j] /\ (j = i \/ j \notin Touching(iters, i))
      BY Zenon, <2>1, <2>6
    <3> QED
      BY <1>3, <3>1 DEF Touching
  <2>7. CASE IsFailure(v) \/ (v = Stop /\ iters[i].form # "reversed")
    <3>1. o = [iters |-> iters, thrown |-> Null, value |-> v]
      BY <1>4, <1>5, <2>7 DEF Next1
    <3>2. o.iters = iters /\ o.value = v
      BY <3>1
    <3>3. its = iters /\ ~IsElement(o.value)
      BY <2>1, <2>7, <3>2, Elementary
    <3>4. x = 0
      BY <2>1, <3>3
    <3>5. ASSUME NEW j \in 1..m, q[j]
          PROVE  Kept(its, j) /\ taken[j] = history.taken[j]
      <4>1. history.pristine[j]
        BY <2>6, <3>5
      <4>2. old[j] \in Nat
        BY <1>3, <2>1, <4>1 DEF TInv, Traversed
      <4>3. taken[j] = old[j]
        BY <2>5, <3>4, <4>2
      <4> QED
        BY <2>1, <3>3, <4>1, <4>3 DEF Kept
    <3>6. Extends(iters, iters)
      BY <1>2, AlikeItself, AlikeExtends DEF Formed
    <3> QED
      BY <1>2, <1>3, <2>2, <2>4, <2>5, <3>3, <3>5, <3>6, MovedTraversed
  <2>8. CASE ~(IsFailure(v) \/ (v = Stop /\ iters[i].form # "reversed"))
    <3>1. PICK out \in Moved(iters, i, 1) :
             o = [iters |-> out.iters, thrown |-> out.thrown,
                  value |-> IF out.thrown = Null THEN v ELSE out.thrown]
      <4>1. Next1(iters, i) = {[iters |-> r.iters, thrown |-> r.thrown,
                                value |-> IF r.thrown = Null THEN v ELSE r.thrown] : r \in Moved(iters, i, 1)}
        BY Zenon, <1>4, <2>8 DEF Next1
      <4> QED
        BY <1>5, <4>1
    <3>2. its = out.iters /\ o.value = IF out.thrown = Null THEN v ELSE out.thrown
      BY <2>1, <3>1
    <3>3. Within(out.iters)
      BY <2>3, <3>2
    <3>4. 1 \in Int
      OBVIOUS
    <3>5. /\ Extends(iters, its) /\ Len(its) = Len(iters) /\ Formed(its, Sizes, Kinds)
          /\ \A j \in 1..Len(iters) : j \notin Below(iters, i) => its[j].index = iters[j].index
      BY <1>2, <3>2, <3>3, <3>4, MovedFormed
    <3>6. ASSUME NEW j \in 1..m, q[j], j # i
          PROVE  Kept(its, j) /\ taken[j] = history.taken[j]
      <4>1. history.pristine[j] /\ Below(iters, i) \cap Below(iters, j) = {}
        BY <2>6, <3>6
      <4>2. \A k \in Below(iters, j) : k \in 1..Len(iters)
        BY <1>2, <1>3, BelowWithin DEF Formed
      <4>3. \A k \in Below(iters, j) : its[k].index = iters[k].index
        BY <3>5, <4>1, <4>2
      <4> QED
        BY <2>1, <2>5, <3>6, <4>1, <4>3 DEF Kept
    <3>7. ASSUME q[i]
          PROVE  /\ taken[i] \in Nat /\ Simple(iters, i)
                 /\ OrderlyIn(iters, i) /\ FreshIn(iters, version, i) => Stands(its, Sizes, i, taken[i])
      <4>1. history.pristine[i]
        BY <1>3, <2>6, <3>7
      <4>2. PICK t \in Nat : t = history.taken[i]
        BY <4>1 DEF TInv, Traversed
      <4>3. /\ Simple(iters, i)
            /\ OrderlyIn(iters, i) /\ FreshIn(iters, version, i) => Stands(iters, Sizes, i, t)
        BY <4>1, <4>2 DEF TInv, Traversed
      <4>4. taken[i] = t + x /\ x \in Nat
        BY <1>3, <2>1, <2>5, <4>2
      <4>5. ASSUME OrderlyIn(iters, i), FreshIn(iters, version, i)
            PROVE  Stands(its, Sizes, i, t + x)
        <5>1. Stands(iters, Sizes, i, t)
          BY <4>3, <4>5
        <5>2. v = Stop => iters[i].form = "reversed"
          BY <2>8
        <5>3. out.thrown = Null /\ Stands(out.iters, Sizes, i, t + (IF IsElement(v) THEN 1 ELSE 0))
          BY <1>2, <1>4, <3>3, <4>3, <4>5, <5>1, <5>2, NextStands
        <5>4. x = IF IsElement(v) THEN 1 ELSE 0
          BY <2>1, <3>2, <5>3
        <5> QED
          BY <3>2, <5>3, <5>4
      <4> QED
        BY <4>3, <4>4, <4>5
    <3>8. \A j \in 1..Len(iters) :
              q[j] =>
                 \/ Kept(its, j) /\ taken[j] = history.taken[j]
                 \/ /\ taken[j] \in Nat /\ Simple(iters, j)
                    /\ OrderlyIn(iters, j) /\ FreshIn(iters, version, j) => Stands(its, Sizes, j, taken[j])
      BY <1>3, <3>6, <3>7
    <3> QED
      BY <1>3, <2>2, <2>4, <2>5, <3>5, <3>8, MovedTraversed
  <2> QED
    BY <2>7, <2>8
<1> QED
  BY <1>1, <1>5 DEF NextOf

LEMMA IteratorsTraversed ==
    ASSUME RangesFit, IInv, TInv, IInv', VersionsTell, VersionsTell', SizesFit', IteratorStep
    PROVE  TInv'
<1>1. DOMAIN heap = 1..Len(heap) /\ DOMAIN iters = 1..Len(iters)
  BY SequenceFacts DEF IInv, HeapOK, IteratorsOK, Nested
<1>2. CASE \E a \in DOMAIN heap : Iter(a)
  BY <1>1, <1>2, IterTraversed
<1>3. CASE \E r \in Ranges : RangeIter(r[1], r[2], r[3])
  <2>1. PICK r \in Ranges : RangeIter(r[1], r[2], r[3])
    BY <1>3
  <2>2. PICK b \in Int, e \in Int, s \in Int : b = r[1] /\ e = r[2] /\ s = r[3]
    BY <2>1 DEF RangesFit
  <2>3. Holds(Abs(e - b))
    BY <2>1, <2>2 DEF RangesFit, Holds
  <2>4. RangeIter(b, e, s)
    BY <2>1, <2>2
  <2> QED
    BY <2>3, <2>4, RangeTraversed
<1>4. CASE \E i, j \in DOMAIN iters : Combined(<<i, j>>)
  BY <1>1, <1>4, CombinedTraversed
<1>5. CASE \E i \in DOMAIN iters : ReverseIter(i)
  BY <1>1, <1>5, ReverseTraversed
<1>6. CASE \E i \in DOMAIN iters : CloneIter(i)
  BY <1>1, <1>6, CloneTraversed
<1>7. CASE \E i \in DOMAIN iters : NextOf(i)
  BY <1>1, <1>7, NextTraversed
<1>8. CASE \E i \in DOMAIN iters : \E n \in Amounts : MoveBy(i, n)
  <2>1. PICK i \in DOMAIN iters : \E n \in Amounts : MoveBy(i, n)
    BY <1>8
  <2>2. PICK n \in Int : i \in 1..Len(iters) /\ MoveBy(i, n)
    BY <1>1, <2>1, ProgramsAssumption
  <2>3. PICK out \in Moved(iters, i, n) : Die \/ MovedTo(out.iters, history.taken, Undisturbed(i))
    BY <2>2 DEF MoveBy
  <2>4. Die => TInv'
    BY QuietTraversed DEF Die
  <2>5. MovedTo(out.iters, history.taken, Undisturbed(i)) => TInv'
    BY <2>2, MoveTraversed
  <2> QED
    BY <2>3, <2>4, <2>5
<1> QED
  BY <1>2, <1>3, <1>4, <1>5, <1>6, <1>7, <1>8 DEF IteratorStep

LEMMA TraversedInit ==
    ASSUME PlainPrograms, Init, SizesFit
    PROVE  TInv
<1>1. IInv
  BY InitInv
<1>2. PICK m \in Nat : m = Len(heap) /\ DOMAIN heap = 1..m
  BY <1>1, SequenceFacts DEF IInv, HeapOK
<1>3. PlainHeap
  BY <1>2 DEF PlainPrograms, Init, PlainHeap
<1>4. IsSequence(<<>>) /\ Len(<<>>) = 0
  <2>1. <<>> \in Seq({})
    OBVIOUS
  <2> QED
    BY Zenon, <2>1, SequenceOf
<1>5. iters = <<>> /\ history.taken = <<>> /\ history.pristine = <<>>
  BY DEF Init
<1>6. \A a \in 1..m : Len(heap[a].subs) \in Nat /\ Holds(Len(heap[a].subs))
  <2>1. \A a \in DOMAIN heap : \A n \in -1..Len(heap[a].subs) : Integer(n) = Scalar("int", n)
    BY DEF SizesFit
  <2>2. IsSequence(heap) /\ \A a \in 1..Len(heap) : WellMade(heap[a])
    BY <1>1 DEF IInv, HeapOK
  <2> QED
    BY Zenon, <1>2, <2>1, <2>2, SizesHold
<1>7. Formed(iters, Sizes, Kinds)
  <2>1. Nested(iters)
    BY <1>1 DEF IInv, IteratorsOK
  <2>2. \A a \in DOMAIN Sizes : Sizes[a] \in Nat /\ Holds(Sizes[a])
    BY <1>2, <1>6 DEF Sizes
  <2>3. \A i \in 1..Len(iters) : FALSE
    BY <1>4, <1>5
  <2> QED
    BY <2>1, <2>2, <2>3 DEF Formed
<1>8. Booked(history, iters)
  BY <1>4, <1>5 DEF Booked
<1>9. \A i \in 1..Len(iters) : FALSE
  BY <1>4, <1>5
<1> QED
  BY <1>3, <1>7, <1>8, <1>9 DEF TInv

LEMMA TraversedNext ==
    ASSUME NoQuirks, PlainPrograms, RangesFit, IInv, VersionsTell, TInv, SizesFit', [Next]_vars
    PROVE  (IInv /\ VersionsTell /\ TInv)'
<1>1. IInv' /\ VersionsTell'
  BY NextInv, StutterInv
<1>2. CASE ContainerStep
  BY <1>1, <1>2, ContainersTraversed
<1>3. CASE IteratorStep
  BY <1>1, <1>3, IteratorsTraversed
<1>4. CASE LoopSteps
  <2>1. heap' = heap /\ version' = version /\ SameIterators
    BY <1>4 DEF LoopSteps, StartLoop, LoopStep
  <2> QED
    BY <1>1, <2>1, QuietTraversed
<1>5. CASE UNCHANGED vars
  <2>1. heap' = heap /\ version' = version /\ iters' = iters /\ history' = history
    BY <1>5 DEF vars, code
  <2>2. Sizes' = Sizes /\ Kinds' = Kinds /\ (PlainHeap' <=> PlainHeap)
    BY <2>1 DEF Sizes, Kinds, PlainHeap
  <2> QED
    BY <1>1, <2>1, <2>2 DEF TInv
<1> QED
  BY <1>1, <1>2, <1>3, <1>4, <1>5 DEF Next

(***************************************************************************)
(* A script that does nothing with an iterator but next (and get) is given *)
(* every element of what it iterates over once, in order or, reversed, in  *)
(* the reverse order, and then the stop, through any number of reversed    *)
(* and combined iterators around containers and ranges, and whatever else  *)
(* the script makes, moves and changes meanwhile, as long as nothing it    *)
(* iterates over is changed or moved; and size tells beforehand how many   *)
(* there are (ltnvm/objects/iter, build_in/iter.cxx).                      *)
(***************************************************************************)
THEOREM TraversalsAreComplete ==
    ASSUME NoQuirks, PlainPrograms, RangesFit
    PROVE  Spec /\ []SizesFit => []TraversalsComplete
<1>1. Init /\ SizesFit => IInv /\ VersionsTell /\ TInv
  BY InitInv, TraversedInit
<1>2. IInv /\ VersionsTell /\ TInv /\ SizesFit' /\ [Next]_vars => (IInv /\ VersionsTell /\ TInv)'
  BY TraversedNext
<1>3. IInv /\ TInv => TraversalsComplete
  BY TraversedComes DEF IInv
<1> QED
  BY <1>1, <1>2, <1>3, PTL DEF Spec
=============================================================================
