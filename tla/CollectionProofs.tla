-------------------------- MODULE CollectionProofs --------------------------
(***************************************************************************)
(* What the operations of Collections do to a container of any contents,   *)
(* for every order of values: its sequences stay sequences, its members    *)
(* stay apart, and it does not change its shape without a new version.     *)
(***************************************************************************)
EXTENDS Collections, FiniteSetTheorems, WellFoundedInduction, TLAPS

-----------------------------------------------------------------------------
(* Sequences of anything *)

LEMMA SequenceOf ==
    ASSUME NEW S, NEW s \in Seq(S)
    PROVE  IsSequence(s)
<1>1. \A i \in DOMAIN s : s[i] \in ToSet(s)
  BY DEF ToSet
<1>2. PICK n \in Nat : n = Len(s)
  OBVIOUS
<1>3. DOMAIN s = 1..n /\ s = [i \in 1..n |-> s[i]]
  BY <1>2
<1>4. s \in [1..n -> ToSet(s)]
  BY <1>1, <1>3
<1> QED
  BY <1>4 DEF IsSequence

LEMMA SequenceFacts ==
    ASSUME NEW s, IsSequence(s)
    PROVE  Len(s) \in Nat /\ DOMAIN s = 1..Len(s) /\ s \in Seq(ToSet(s))
BY DEF IsSequence

LEMMA FunctionIsSequence ==
    ASSUME NEW n \in Nat, NEW f, f = [i \in 1..n |-> f[i]]
    PROVE  IsSequence(f) /\ Len(f) = n
<1>1. PICK S : S = {f[i] : i \in 1..n}
  OBVIOUS
<1>2. f \in [1..n -> S]
  BY <1>1
<1>3. f \in Seq(S) /\ Len(f) = n
  BY <1>2
<1> QED
  BY <1>3, SequenceOf

LEMMA AppendSequence ==
    ASSUME NEW s, IsSequence(s), NEW x
    PROVE  /\ IsSequence(Append(s, x)) /\ Len(Append(s, x)) = Len(s) + 1
           /\ DOMAIN Append(s, x) = 1..(Len(s) + 1)
           /\ \A i \in 1..Len(s) : Append(s, x)[i] = s[i]
           /\ Append(s, x)[Len(s) + 1] = x
<1>1. PICK S : S = ToSet(s) \cup {x}
  OBVIOUS
<1>2. s \in Seq(S)
  <2>1. PICK n \in Nat : n = Len(s) /\ DOMAIN s = 1..n /\ s = [i \in 1..n |-> s[i]]
    BY SequenceFacts
  <2>2. \A i \in 1..n : s[i] \in S
    BY <1>1, <2>1 DEF ToSet
  <2>3. s \in [1..n -> S]
    BY <2>1, <2>2
  <2> QED
    BY <2>3
<1>3. x \in S /\ Append(s, x) \in Seq(S)
  BY <1>1, <1>2
<1>4. IsSequence(Append(s, x))
  BY <1>3, SequenceOf
<1> QED
  BY <1>2, <1>3, <1>4

LEMMA PartSequence ==
    ASSUME NEW s, IsSequence(s), NEW m \in Nat \ {0}, NEW n \in Nat, n <= Len(s)
    PROVE  /\ IsSequence(SubSeq(s, m, n))
           /\ Len(SubSeq(s, m, n)) = IF m <= n THEN n - m + 1 ELSE 0
           /\ \A i \in 1..(n - m + 1) : SubSeq(s, m, n)[i] = s[m + i - 1]
<1>1. PICK S : S = ToSet(s) /\ s \in Seq(S)
  BY SequenceFacts
<1>2. SubSeq(s, m, n) \in Seq(S)
  BY <1>1
<1>3. IsSequence(SubSeq(s, m, n))
  BY <1>2, SequenceOf
<1> QED
  BY <1>1, <1>3

LEMMA JoinSequences ==
    ASSUME NEW s, IsSequence(s), NEW t, IsSequence(t)
    PROVE  /\ IsSequence(s \o t) /\ Len(s \o t) = Len(s) + Len(t)
           /\ \A i \in 1..Len(s) : (s \o t)[i] = s[i]
           /\ \A i \in 1..Len(t) : (s \o t)[Len(s) + i] = t[i]
<1>1. PICK S : S = ToSet(s) \cup ToSet(t)
  OBVIOUS
<1>2. ASSUME NEW r, IsSequence(r), ToSet(r) \subseteq S
      PROVE  r \in Seq(S)
  <2>1. PICK n \in Nat : n = Len(r) /\ DOMAIN r = 1..n /\ r = [i \in 1..n |-> r[i]]
    BY <1>2, SequenceFacts
  <2>2. \A i \in 1..n : r[i] \in S
    BY <1>2, <2>1 DEF ToSet
  <2>3. r \in [1..n -> S]
    BY <2>1, <2>2
  <2> QED
    BY <2>3
<1>3. s \in Seq(S) /\ t \in Seq(S)
  BY <1>1, <1>2
<1>4. s \o t \in Seq(S)
  BY <1>3
<1>5. IsSequence(s \o t)
  BY <1>4, SequenceOf
<1> QED
  BY <1>3, <1>5

LEMMA OneElement ==
    ASSUME NEW x
    PROVE  IsSequence(<<x>>) /\ Len(<<x>>) = 1 /\ <<x>>[1] = x
<1>1. <<x>> \in Seq({x})
  OBVIOUS
<1> QED
  BY <1>1, SequenceOf

LEMMA RemoveSequence ==
    ASSUME NEW s, IsSequence(s), NEW i \in 1..Len(s)
    PROVE  /\ IsSequence(RemoveAt(s, i)) /\ Len(RemoveAt(s, i)) = Len(s) - 1
           /\ \A j \in 1..(Len(s) - 1) : RemoveAt(s, i)[j] = IF j < i THEN s[j] ELSE s[j + 1]
<1>1. PICK n \in Nat : n = Len(s)
  BY SequenceFacts
<1>2. PICK a, b : a = SubSeq(s, 1, i - 1) /\ b = SubSeq(s, i + 1, n)
  OBVIOUS
<1>3. i \in Nat /\ i - 1 \in Nat /\ i + 1 \in Nat \ {0} /\ i <= n /\ i - 1 <= n /\ 1 \in Nat \ {0}
  BY <1>1
<1>4. /\ IsSequence(a) /\ Len(a) = i - 1 /\ \A j \in 1..(i - 1) : a[j] = s[j]
  BY <1>1, <1>2, <1>3, PartSequence
<1>5. /\ IsSequence(b) /\ Len(b) = n - i /\ \A j \in 1..(n - i) : b[j] = s[i + j]
  BY <1>1, <1>2, <1>3, PartSequence
<1>6. PICK r : r = a \o b /\ r = RemoveAt(s, i)
  BY <1>1, <1>2 DEF RemoveAt
<1>7. /\ IsSequence(r) /\ Len(r) = n - 1
      /\ \A j \in 1..(i - 1) : r[j] = a[j]
      /\ \A k \in 1..(n - i) : r[i - 1 + k] = b[k]
  <2>1. PICK m, l : m = i - 1 /\ l = n - i
    OBVIOUS
  <2>2. /\ IsSequence(r) /\ Len(r) = m + l /\ m \in Nat /\ l \in Nat
        /\ \A j \in 1..m : r[j] = a[j]
        /\ \A k \in 1..l : r[m + k] = b[k]
    <3>1. m = Len(a) /\ l = Len(b) /\ IsSequence(a) /\ IsSequence(b) /\ r = a \o b
      BY <1>4, <1>5, <1>6, <2>1
    <3>2. /\ IsSequence(a \o b) /\ Len(a \o b) = Len(a) + Len(b)
          /\ \A j \in 1..Len(a) : (a \o b)[j] = a[j]
          /\ \A k \in 1..Len(b) : (a \o b)[Len(a) + k] = b[k]
      BY <3>1, JoinSequences
    <3>3. Len(a) \in Nat /\ Len(b) \in Nat
      BY <3>1, SequenceFacts
    <3> QED
      BY <3>1, <3>2, <3>3
  <2> QED
    BY <1>1, <1>3, <2>1, <2>2
<1>8. ASSUME NEW j \in 1..(n - 1)
      PROVE  r[j] = IF j < i THEN s[j] ELSE s[j + 1]
  <2>1. CASE j < i
    BY <1>3, <1>4, <1>7, <2>1
  <2>2. CASE j >= i
    <3>1. PICK k : k = j - i + 1
      OBVIOUS
    <3>2. k \in 1..(n - i) /\ j = i - 1 + k /\ i + k = j + 1
      BY <1>3, <2>2, <3>1
    <3>3. r[j] = b[k] /\ b[k] = s[j + 1]
      BY <1>5, <1>7, <3>2
    <3> QED
      BY <1>3, <2>2, <3>3
  <2> QED
    BY <1>3, <2>1, <2>2
<1> QED
  BY <1>1, <1>6, <1>7, <1>8

LEMMA InsertSequence ==
    ASSUME NEW s, IsSequence(s), NEW i \in 1..(Len(s) + 1), NEW x
    PROVE  /\ IsSequence(InsertAt(s, i, x)) /\ Len(InsertAt(s, i, x)) = Len(s) + 1
           /\ \A j \in 1..(Len(s) + 1) :
                 InsertAt(s, i, x)[j] = IF j < i THEN s[j] ELSE IF j = i THEN x ELSE s[j - 1]
<1>1. PICK n \in Nat : n = Len(s)
  BY SequenceFacts
<1>2. PICK a, b, c : a = SubSeq(s, 1, i - 1) /\ b = SubSeq(s, i, n) /\ c = a \o <<x>>
  OBVIOUS
<1>3. i \in Nat /\ i - 1 \in Nat /\ i \in Nat \ {0} /\ i <= n + 1 /\ i - 1 <= n /\ 1 \in Nat \ {0}
  BY <1>1
<1>4. /\ IsSequence(a) /\ Len(a) = i - 1 /\ \A j \in 1..(i - 1) : a[j] = s[j]
  BY <1>1, <1>2, <1>3, PartSequence
<1>5. /\ IsSequence(b) /\ Len(b) = n - i + 1 /\ \A j \in 1..(n - i + 1) : b[j] = s[i + j - 1]
  BY <1>1, <1>2, <1>3, PartSequence
<1>6. /\ IsSequence(c) /\ Len(c) = i /\ c[i] = x /\ \A j \in 1..(i - 1) : c[j] = a[j]
  <2>1. IsSequence(<<x>>) /\ Len(<<x>>) = 1 /\ <<x>>[1] = x
    BY OneElement
  <2> QED
    BY <1>2, <1>3, <1>4, <2>1, JoinSequences
<1>7. PICK r : r = c \o b /\ r = InsertAt(s, i, x)
  BY <1>1, <1>2 DEF InsertAt
<1>8. /\ IsSequence(r) /\ Len(r) = n + 1
      /\ \A j \in 1..i : r[j] = c[j]
      /\ \A k \in 1..(n - i + 1) : r[i + k] = b[k]
  <2>1. PICK l : l = n - i + 1
    OBVIOUS
  <2>2. /\ IsSequence(r) /\ Len(r) = i + l /\ i \in Nat /\ l \in Nat
        /\ \A j \in 1..i : r[j] = c[j]
        /\ \A k \in 1..l : r[i + k] = b[k]
    <3>1. i = Len(c) /\ l = Len(b) /\ IsSequence(c) /\ IsSequence(b) /\ r = c \o b
      BY <1>5, <1>6, <1>7, <2>1
    <3>2. /\ IsSequence(c \o b) /\ Len(c \o b) = Len(c) + Len(b)
          /\ \A j \in 1..Len(c) : (c \o b)[j] = c[j]
          /\ \A k \in 1..Len(b) : (c \o b)[Len(c) + k] = b[k]
      BY <3>1, JoinSequences
    <3>3. Len(c) \in Nat /\ Len(b) \in Nat
      BY <3>1, SequenceFacts
    <3> QED
      BY <3>1, <3>2, <3>3
  <2> QED
    BY <1>1, <1>3, <2>1, <2>2
<1>9. ASSUME NEW j \in 1..(n + 1)
      PROVE  r[j] = IF j < i THEN s[j] ELSE IF j = i THEN x ELSE s[j - 1]
  <2>1. CASE j <= i
    BY <1>3, <1>4, <1>6, <1>8, <2>1
  <2>2. CASE j > i
    <3>1. PICK k : k = j - i
      OBVIOUS
    <3>2. k \in 1..(n - i + 1) /\ j = i + k /\ i + k - 1 = j - 1
      BY <1>3, <2>2, <3>1
    <3> QED
      BY <1>3, <1>5, <1>8, <2>2, <3>2
  <2> QED
    BY <1>3, <2>1, <2>2
<1> QED
  BY <1>1, <1>7, <1>8, <1>9

LEMMA FrontSequence ==
    ASSUME NEW s, IsSequence(s), s # <<>>
    PROVE  IsSequence(Front(s)) /\ Len(Front(s)) = Len(s) - 1 /\ Len(s) - 1 \in Nat
<1>1. PICK n \in Nat : n = Len(s)
  BY SequenceFacts
<1>2. n # 0
  <2>1. s \in Seq(ToSet(s))
    BY SequenceFacts
  <2> QED
    BY <1>1, <2>1
<1>3. n - 1 \in Nat /\ n - 1 <= n /\ 1 \in Nat \ {0} /\ (IF 1 <= n - 1 THEN n - 1 - 1 + 1 ELSE 0) = n - 1
  BY <1>2
<1>4. IsSequence(SubSeq(s, 1, n - 1)) /\ Len(SubSeq(s, 1, n - 1)) = n - 1
  BY <1>1, <1>3, PartSequence
<1> QED
  BY <1>1, <1>3, <1>4 DEF Front

LEMMA TailSequence ==
    ASSUME NEW s, IsSequence(s), s # <<>>
    PROVE  IsSequence(Tail(s)) /\ Len(Tail(s)) = Len(s) - 1
<1>1. PICK S : s \in Seq(S)
  BY SequenceFacts
<1>2. Tail(s) \in Seq(S) /\ Len(Tail(s)) = Len(s) - 1
  BY <1>1
<1> QED
  BY <1>2, SequenceOf

LEMMA OverwrittenSequence ==
    ASSUME NEW s, IsSequence(s), NEW i, NEW x
    PROVE  /\ IsSequence([s EXCEPT ![i] = x]) /\ Len([s EXCEPT ![i] = x]) = Len(s)
           /\ DOMAIN [s EXCEPT ![i] = x] = DOMAIN s
           /\ \A j \in 1..Len(s) : [s EXCEPT ![i] = x][j] = IF j = i THEN x ELSE s[j]
<1>1. PICK n \in Nat : n = Len(s) /\ DOMAIN s = 1..n
  BY SequenceFacts
<1>2. PICK f : f = [s EXCEPT ![i] = x]
  OBVIOUS
<1>3. f = [j \in 1..n |-> f[j]] /\ \A j \in 1..n : f[j] = IF j = i THEN x ELSE s[j]
  BY <1>1, <1>2
<1>4. IsSequence(f) /\ Len(f) = n
  BY <1>3, FunctionIsSequence
<1>5. DOMAIN f = 1..n
  BY <1>3
<1> QED
  BY <1>1, <1>2, <1>3, <1>4, <1>5

-----------------------------------------------------------------------------
(* Outcomes *)

IsOutcome(o) == o = [value |-> o.value, subs |-> o.subs, ids |-> o.ids, bumped |-> o.bumped]

\* What iterators depend on: the keys of a map, the indices of the others.
SameShape(c, o) ==
    IF c.k = "map" THEN KeysOf(o) = KeysOf(c) ELSE c.k = "struct" \/ DOMAIN o.subs = DOMAIN c.subs

\* An outcome that leaves a container as the code makes them, with a new
\* version where its shape is a new one.
Sound(c, o) ==
    /\ IsOutcome(o) /\ IsSequence(o.subs)
    /\ c.k = "struct" =>
          /\ IsSequence(o.ids) /\ Len(o.ids) = Len(o.subs)
          /\ \A i, j \in DOMAIN o.ids : o.ids[i] = o.ids[j] => i = j
    /\ o.bumped \/ SameShape(c, o)

LEMMA AnswerFields ==
    ASSUME NEW c, NEW v
    PROVE  /\ IsOutcome(Answer(c, v)) /\ Answer(c, v).value = v /\ Answer(c, v).subs = c.subs
           /\ Answer(c, v).ids = c.ids /\ Answer(c, v).bumped = FALSE
BY DEF Answer, IsOutcome

LEMMA AnswerSound ==
    ASSUME NEW c, WellMade(c), NEW v
    PROVE  Sound(c, Answer(c, v))
<1>0. PICK o : o = Answer(c, v)
  OBVIOUS
<1>1. o = Answer(c, v) /\ IsOutcome(o) /\ o.subs = c.subs /\ o.ids = c.ids
  BY <1>0, AnswerFields
<1>2. SameShape(c, o)
  BY <1>1 DEF SameShape, KeysOf
<1> QED
  BY <1>1, <1>2 DEF Sound, WellMade

\* A container that is no struct may be given any new sequence.
LEMMA ChangeSound ==
    ASSUME NEW c, c.k # "struct", NEW v, NEW s, IsSequence(s)
    PROVE  Sound(c, Change(c, v, s))
<1>0. PICK o : o = Change(c, v, s)
  OBVIOUS
<1>1. o = Change(c, v, s) /\ IsOutcome(o) /\ o.subs = s /\ o.bumped = TRUE
  <2>1. o = [value |-> v, subs |-> s, ids |-> c.ids, bumped |-> TRUE]
    BY <1>0 DEF Answer, Overwrite, Change
  <2> QED
    BY <1>0, <2>1 DEF IsOutcome
<1> QED
  BY <1>1 DEF Sound

LEMMA OverwriteSound ==
    ASSUME NEW c, c.k # "struct", c.k # "map", NEW v, NEW s, IsSequence(s), DOMAIN s = DOMAIN c.subs
    PROVE  Sound(c, Overwrite(c, v, s))
<1>0. PICK o : o = Overwrite(c, v, s)
  OBVIOUS
<1>1. o = Overwrite(c, v, s) /\ IsOutcome(o) /\ o.subs = s
  <2>1. o = [value |-> v, subs |-> s, ids |-> c.ids, bumped |-> FALSE]
    BY <1>0 DEF Answer, Overwrite
  <2> QED
    BY <1>0, <2>1 DEF IsOutcome
<1>2. SameShape(c, o)
  BY <1>1 DEF SameShape
<1> QED
  BY <1>1, <1>2 DEF Sound

LEMMA ReturningSound ==
    ASSUME NEW c, NEW o, Sound(c, o), NEW v
    PROVE  Sound(c, Returning(v, o)) /\ Sound(c, [o EXCEPT !.value = v])
<1>0. PICK p : p = [o EXCEPT !.value = v]
  OBVIOUS
<1>1. /\ p = [o EXCEPT !.value = v] /\ IsOutcome(p)
      /\ p.subs = o.subs /\ p.ids = o.ids /\ p.bumped = o.bumped
  <2>1. PICK w, s, d, b : o = [value |-> w, subs |-> s, ids |-> d, bumped |-> b]
    BY DEF Sound, IsOutcome
  <2>2. p = [value |-> v, subs |-> s, ids |-> d, bumped |-> b]
    BY <1>0, <2>1
  <2> QED
    BY <1>0, <2>1, <2>2 DEF IsOutcome
<1>2. SameShape(c, o) => SameShape(c, p)
  BY <1>1 DEF SameShape, KeysOf
<1>3. Sound(c, p)
  BY <1>1, <1>2 DEF Sound
<1> QED
  BY <1>1, <1>3 DEF Returning

-----------------------------------------------------------------------------
(* The operations *)

LEMMA IndexRange ==
    ASSUME NEW key, NEW size \in Nat
    PROVE  ToIndex(key, size) \in 0..size /\ GuardIndex(key, size) \in 0..size
<1>1. PICK i : i = IF key.n < 0 THEN key.n + size ELSE key.n
  OBVIOUS
<1>2. i \in 0..(size - 1) => i + 1 \in 0..size
  OBVIOUS
<1>3. ToIndex(key, size) \in 0..size
  BY <1>1, <1>2 DEF ToIndex
<1>4. key \in 0..(size - 1) => key + 1 \in 0..size
  OBVIOUS
<1> QED
  BY <1>3, <1>4 DEF GuardIndex

LEMMA BackAndFrontSound ==
    ASSUME NEW c, WellMade(c), c.k # "struct"
    PROVE  /\ \A x : Sound(c, PushBack(c, x))
           /\ c.subs # <<>> => Sound(c, UnsafePopBack(c)) /\ Sound(c, PopFront(c))
           /\ \A i : i \in 1..Len(c.subs) => Sound(c, UnsafeErase(c, i))
           /\ \A i, x : i \in 1..(Len(c.subs) + 1) => Sound(c, UnsafeInsert(c, i, x))
<1>0. IsSequence(c.subs)
  BY DEF WellMade
<1>1. ASSUME NEW x PROVE Sound(c, PushBack(c, x))
  <2>1. IsSequence(Append(c.subs, x))
    BY <1>0, AppendSequence
  <2> QED
    BY <2>1, ChangeSound DEF PushBack
<1>2. ASSUME c.subs # <<>> PROVE Sound(c, UnsafePopBack(c)) /\ Sound(c, PopFront(c))
  <2>1. IsSequence(Front(c.subs)) /\ IsSequence(Tail(c.subs))
    BY <1>0, <1>2, FrontSequence, TailSequence
  <2> QED
    BY <2>1, ChangeSound DEF UnsafePopBack, PopFront
<1>3. ASSUME NEW i, i \in 1..Len(c.subs) PROVE Sound(c, UnsafeErase(c, i))
  <2>1. IsSequence(RemoveAt(c.subs, i))
    BY <1>0, <1>3, RemoveSequence
  <2> QED
    BY <2>1, ChangeSound DEF UnsafeErase
<1>4. ASSUME NEW i, NEW x, i \in 1..(Len(c.subs) + 1) PROVE Sound(c, UnsafeInsert(c, i, x))
  <2>1. IsSequence(InsertAt(c.subs, i, x))
    BY <1>0, <1>4, InsertSequence
  <2> QED
    BY <2>1, ChangeSound DEF UnsafeInsert
<1> QED
  BY <1>1, <1>2, <1>3, <1>4

LEMMA LowerBoundRange ==
    ASSUME NEW c, IsSequence(c.subs), NEW key
    PROVE  LowerBound(c, key) \in 1..(Len(c.subs) + 1) /\ MapFind(c, key) \in 0..Len(c.subs)
<1>1. PICK n \in Nat : n = Len(c.subs) /\ DOMAIN c.subs = 1..n
  BY SequenceFacts
<1>2. PICK S : S = {i \in DOMAIN c.subs : StrictOrder(c.subs[i].subs[1], key) = -1}
  OBVIOUS
<1>3. IsFiniteSet(1..n) /\ Cardinality(1..n) = n
  BY FS_Interval
<1>4. S \subseteq 1..n
  BY <1>1, <1>2
<1>5. IsFiniteSet(S) /\ Cardinality(S) <= n /\ Cardinality(S) \in Nat
  BY <1>3, <1>4, FS_Subset, FS_CardinalityType
<1>6. LowerBound(c, key) = Cardinality(S) + 1
  BY <1>2 DEF LowerBound
<1>7. LowerBound(c, key) \in 1..(n + 1)
  BY <1>5, <1>6
<1>8. MapFind(c, key) \in 0..n
  BY <1>1, <1>7 DEF MapFind
<1> QED
  BY <1>1, <1>7, <1>8

LEMMA MapsSound ==
    ASSUME NEW c, WellMade(c), c.k = "map", NEW key, NEW x
    PROVE  /\ Sound(c, MapAssign(c, key, x)) /\ Sound(c, MapErase(c, key))
           /\ Sound(c, MapMemberErase(c, key))
           /\ MapContains(c, key) => MapAssign(c, key, x).bumped = FALSE
<1>0. IsSequence(c.subs) /\ c.k # "struct"
  BY DEF WellMade
<1>1. PICK i : i = MapFind(c, key)
  OBVIOUS
<1>2. ASSUME MapContains(c, key)
      PROVE  Sound(c, MapAssign(c, key, x)) /\ MapAssign(c, key, x).bumped = FALSE
  <2>1. PICK s : s = [c.subs EXCEPT ![i] = Pair(c.subs[i].subs[1], x)]
    OBVIOUS
  <2>2. IsSequence(s) /\ DOMAIN s = DOMAIN c.subs
    <3>1. PICK u, y : u = c.subs /\ y = Pair(c.subs[i].subs[1], x)
      OBVIOUS
    <3>2. IsSequence(u) /\ s = [u EXCEPT ![i] = y]
      BY <1>0, <2>1, <3>1
    <3>3. IsSequence([u EXCEPT ![i] = y]) /\ DOMAIN [u EXCEPT ![i] = y] = DOMAIN u
      BY <3>2, OverwrittenSequence
    <3> QED
      BY <3>1, <3>2, <3>3
  <2>3. PICK o : o = MapAssign(c, key, x)
    OBVIOUS
  <2>4. o = [value |-> Null, subs |-> s, ids |-> c.ids, bumped |-> FALSE]
    BY <1>1, <1>2, <2>1, <2>3 DEF MapAssign, Overwrite, Answer
  <2>5. IsOutcome(o) /\ o.subs = s /\ o.bumped = FALSE
    BY <2>4 DEF IsOutcome
  <2>6. \A j \in DOMAIN s : s[j].subs[1] = c.subs[j].subs[1]
    BY <2>1 DEF Pair, Container, Object
  <2>7. KeysOf(o) = KeysOf(c)
    BY <2>2, <2>5, <2>6 DEF KeysOf
  <2> QED
    BY <1>0, <2>2, <2>3, <2>5, <2>7 DEF Sound, SameShape
<1>3. ASSUME ~MapContains(c, key)
      PROVE  Sound(c, MapAssign(c, key, x))
  <2>1. IsSequence(InsertAt(c.subs, LowerBound(c, key), Pair(key, x)))
    BY <1>0, LowerBoundRange, InsertSequence
  <2> QED
    BY <1>0, <1>3, <2>1, ChangeSound DEF MapAssign
<1>4. Sound(c, MapErase(c, key))
  <2>1. CASE MapContains(c, key)
    <3>1. i \in 1..Len(c.subs)
      <4>1. Len(c.subs) \in Nat /\ i \in 0..Len(c.subs) /\ i # 0
        BY <1>0, <1>1, <2>1, LowerBoundRange, SequenceFacts DEF MapContains
      <4> QED
        BY <4>1
    <3>2. IsSequence(RemoveAt(c.subs, i))
      BY <1>0, <3>1, RemoveSequence
    <3> QED
      BY <1>0, <1>1, <2>1, <3>2, ChangeSound DEF MapErase
  <2>2. CASE ~MapContains(c, key)
    BY <1>0, <2>2, ChangeSound DEF MapErase
  <2> QED
    BY <2>1, <2>2
<1>5. Sound(c, MapMemberErase(c, key))
  BY <1>4, ReturningSound DEF MapMemberErase
<1> QED
  BY <1>2, <1>3, <1>4, <1>5

\* The build-in functions.
LEMMA FunctionsSound ==
    ASSUME NEW c, WellMade(c), NEW key, NEW x
    PROVE  /\ Sound(c, Push(c, x)) /\ Sound(c, InsertFront(c, x)) /\ Sound(c, InsertBack(c, x))
           /\ Sound(c, Pop(c)) /\ Sound(c, RemoveFront(c)) /\ Sound(c, RemoveBack(c))
           /\ Sound(c, Insert(c, key, x)) /\ Sound(c, RemoveKey(c, key))
<1>0. IsSequence(c.subs) /\ \A v : Sound(c, Answer(c, v))
  BY AnswerSound DEF WellMade
<1>1. PICK n \in Nat : n = Len(c.subs) /\ (c.subs # <<>> => n # 0)
  BY <1>0, SequenceFacts
<1>2. /\ Sound(c, Push(c, x)) /\ Sound(c, InsertBack(c, x))
  BY <1>0, BackAndFrontSound DEF Push, InsertBack
<1>3. Sound(c, InsertFront(c, x))
  <2>1. 1 \in 1..(Len(c.subs) + 1)
    BY <1>1
  <2> QED
    BY <1>0, <2>1, BackAndFrontSound DEF InsertFront
<1>4. Sound(c, Pop(c))
  BY <1>0, BackAndFrontSound DEF Pop, OrEmpty
<1>5. Sound(c, RemoveFront(c)) /\ Sound(c, RemoveBack(c))
  <2>1. ASSUME c.k = "array", c.subs # <<>>
        PROVE  Sound(c, UnsafeErase(c, 1)) /\ Sound(c, UnsafePopBack(c))
    <3>1. 1 \in 1..Len(c.subs)
      BY <1>1, <2>1
    <3> QED
      BY <2>1, <3>1, BackAndFrontSound
  <2> QED
    BY <1>0, <2>1, ReturningSound DEF RemoveFront, RemoveBack
<1>6. Sound(c, Insert(c, key, x))
  <2>1. PICK i : i = ToIndex(key, n + 1) /\ i \in 0..(n + 1)
    BY <1>1, IndexRange
  <2>2. CASE c.k = "map"
    BY <2>2, MapsSound DEF Insert
  <2>3. CASE c.k = "array" /\ i # 0
    <3>1. i \in 1..(Len(c.subs) + 1) /\ i = ToIndex(key, Len(c.subs) + 1)
      BY <1>1, <2>1, <2>3
    <3> QED
      BY <2>3, <3>1, BackAndFrontSound DEF Insert
  <2>4. CASE c.k # "map" /\ ~(c.k = "array" /\ i # 0)
    BY <1>0, <1>1, <2>1, <2>4 DEF Insert
  <2> QED
    BY <2>2, <2>3, <2>4
<1>7. Sound(c, RemoveKey(c, key))
  <2>1. PICK i : i = ToIndex(key, n) /\ i \in 0..n
    BY <1>1, IndexRange
  <2>2. CASE c.k = "map"
    BY <2>2, MapsSound DEF RemoveKey
  <2>3. CASE c.k = "array" /\ i # 0
    <3>1. i \in 1..Len(c.subs) /\ i = ToIndex(key, Len(c.subs))
      BY <1>1, <2>1, <2>3
    <3>2. Sound(c, UnsafeErase(c, i))
      BY <2>3, <3>1, BackAndFrontSound
    <3> QED
      BY <2>3, <3>1, <3>2, ReturningSound DEF RemoveKey
  <2>4. CASE c.k # "map" /\ ~(c.k = "array" /\ i # 0)
    BY <1>0, <1>1, <2>1, <2>4 DEF RemoveKey
  <2> QED
    BY <2>2, <2>3, <2>4
<1> QED
  BY <1>2, <1>3, <1>4, <1>5, <1>6, <1>7

\* The instructions and functions that write an element.
LEMMA WritesSound ==
    ASSUME NEW c, WellMade(c), NEW key, NEW x
    PROVE  /\ Sound(c, AtWrite(c, key, x))
           /\ c.k = "array" => Sound(c, PluginArrayPut(c, key.n, x))
           /\ c.k = "map" /\ MapContains(c, key) => Sound(c, PluginMapPut(c, key, x))
<1>0. IsSequence(c.subs) /\ \A v : Sound(c, Answer(c, v))
  BY AnswerSound DEF WellMade
<1>1. ASSUME NEW i, c.k \in {"array", "tuple"}
      PROVE  Sound(c, Overwrite(c, Null, [c.subs EXCEPT ![i] = x]))
  <2>1. PICK u, s : u = c.subs /\ s = [u EXCEPT ![i] = x]
    OBVIOUS
  <2>2. IsSequence(s) /\ DOMAIN s = DOMAIN c.subs
    BY <1>0, <2>1, OverwrittenSequence
  <2>3. Sound(c, Overwrite(c, Null, s))
    BY <1>1, <2>2, OverwriteSound
  <2> QED
    BY <2>1, <2>3
<1>2. Sound(c, AtWrite(c, key, x))
  <2>1. CASE c.k \in {"array", "tuple"}
    <3>1. PICK i : i = ToIndex(key, Len(c.subs))
      OBVIOUS
    <3>2. PICK w : w = Overwrite(c, Null, [c.subs EXCEPT ![i] = x]) /\ Sound(c, w)
      BY <1>1, <2>1
    <3>3. AtWrite(c, key, x) = IF i = 0 THEN Answer(c, OutOfRange) ELSE w
      BY <2>1, <3>1, <3>2 DEF AtWrite, IsContiguous
    <3> QED
      BY <1>0, <3>2, <3>3
  <2>2. CASE c.k = "map"
    BY <2>2, MapsSound DEF AtWrite, IsContiguous
  <2>3. CASE c.k \notin {"array", "tuple", "map"}
    BY <1>0, <2>3 DEF AtWrite, IsContiguous
  <2> QED
    BY <2>1, <2>2, <2>3
<1>3. c.k = "array" => Sound(c, PluginArrayPut(c, key.n, x))
  BY <1>0, <1>1 DEF PluginArrayPut
<1>4. ASSUME c.k = "map", MapContains(c, key)
      PROVE  Sound(c, PluginMapPut(c, key, x))
  <2>1. PICK o : o = MapAssign(c, key, x) /\ Sound(c, o) /\ o.bumped = FALSE
    BY <1>4, MapsSound
  <2>2. PluginMapPut(c, key, x) = o
    <3>1. o = [value |-> o.value, subs |-> o.subs, ids |-> o.ids, bumped |-> FALSE]
      BY <2>1 DEF Sound, IsOutcome
    <3>2. [o EXCEPT !.bumped = FALSE] = o
      BY <3>1
    <3> QED
      BY <2>1, <3>2 DEF PluginMapPut
  <2> QED
    BY <2>1, <2>2
<1> QED
  BY <1>2, <1>3, <1>4

\* The functions that rearrange an array, and those for the indices of arrays.
LEMMA ArraysSound ==
    ASSUME NEW c, WellMade(c), c.k = "array", NEW i, NEW x
    PROVE  /\ \A sign : \A o \in Sorted(c, sign) : Sound(c, o)
           /\ Sound(c, ReverseInPlace(c)) /\ Sound(c, Fill(c, x))
           /\ Sound(c, MemberInsert(c, i, x)) /\ Sound(c, MemberErase(c, i))
<1>0. IsSequence(c.subs) /\ \A v : Sound(c, Answer(c, v))
  BY AnswerSound DEF WellMade
<1>1. PICK n \in Nat : n = Len(c.subs) /\ DOMAIN c.subs = 1..n
  BY <1>0, SequenceFacts
<1>2. ASSUME NEW s, s = [j \in 1..n |-> s[j]]
      PROVE  Sound(c, Overwrite(c, Null, s))
  <2>1. IsSequence(s) /\ DOMAIN s = DOMAIN c.subs
    BY <1>1, <1>2, FunctionIsSequence
  <2> QED
    BY <2>1, OverwriteSound
<1>3. ASSUME NEW sign, NEW o, o \in Sorted(c, sign)
      PROVE  Sound(c, o)
  <2>1. PICK s : s \in Arrangements(c.subs) /\ o = Overwrite(c, Null, s)
    BY <1>3 DEF Sorted
  <2>2. PICK p : s = [j \in DOMAIN c.subs |-> c.subs[p[j]]]
    BY <2>1 DEF Arrangements
  <2>3. s = [j \in 1..n |-> s[j]]
    BY <1>1, <2>2
  <2> QED
    BY <1>2, <2>1, <2>3
<1>4. Sound(c, ReverseInPlace(c))
  <2>1. PICK s : s = Reverse(c.subs)
    OBVIOUS
  <2>2. s = [j \in 1..n |-> c.subs[(n - j) + 1]]
    BY <1>1, <2>1 DEF Reverse
  <2>3. s = [j \in 1..n |-> s[j]]
    BY <2>2
  <2> QED
    BY <1>2, <2>1, <2>3 DEF ReverseInPlace
<1>5. Sound(c, Fill(c, x))
  <2>1. PICK s : s = [j \in DOMAIN c.subs |-> x]
    OBVIOUS
  <2>2. s = [j \in 1..n |-> s[j]]
    BY <1>1, <2>1
  <2> QED
    BY <1>2, <2>1, <2>2 DEF Fill
<1>6. Sound(c, MemberInsert(c, i, x))
  <2>1. PICK g : g = GuardIndex(i, Len(c.subs) + 1) /\ g \in 0..(n + 1)
    BY <1>1, IndexRange
  <2>2. g # 0 => g \in 1..(Len(c.subs) + 1)
    BY <1>1, <2>1
  <2> QED
    BY <1>0, <2>1, <2>2, BackAndFrontSound DEF MemberInsert
<1>7. Sound(c, MemberErase(c, i))
  <2>1. PICK g : g = GuardIndex(i, Len(c.subs)) /\ g \in 0..n
    BY <1>1, IndexRange
  <2>2. g # 0 => g \in 1..Len(c.subs)
    BY <1>1, <2>1
  <2> QED
    BY <1>0, <2>1, <2>2, BackAndFrontSound DEF MemberErase
<1> QED
  BY <1>3, <1>4, <1>5, <1>6, <1>7

LEMMA OneMember ==
    ASSUME NEW s, NEW id, IsSequence(s.ids), NEW i \in 1..Len(s.ids), s.ids[i] = id,
           \A j \in 1..Len(s.ids) : s.ids[j] = id => j = i
    PROVE  MemberRead(s, id) = s.subs[i]
<1>1. PICK n \in Nat : n = Len(s.ids)
  BY SequenceFacts
<1>2. \A j \in 1..(i - 1) : s.ids[j] # id
  BY <1>1
<1>3. PICK k : k = CHOOSE m \in 1..Len(s.ids) : s.ids[m] = id /\ \A j \in 1..(m - 1) : s.ids[j] # id
  OBVIOUS
<1>4. k \in 1..Len(s.ids) /\ s.ids[k] = id
  BY <1>2, <1>3, Zenon
<1>5. k = i
  BY <1>4
<1>6. Contains(s.ids, id)
  BY DEF Contains
<1> QED
  BY <1>3, <1>5, <1>6 DEF MemberRead, FindMember

\* A struct: a member that was written reads as what was written, null for
\* one that was removed; its members stay apart.
LEMMA MembersSound ==
    ASSUME NEW c, WellMade(c), c.k = "struct", NEW id, NEW x
    PROVE  /\ Sound(c, MemberWrite(c, id, x))
           /\ \A d : d.subs = MemberWrite(c, id, x).subs /\ d.ids = MemberWrite(c, id, x).ids =>
                 MemberRead(d, id) = x
<1>1. /\ IsSequence(c.subs) /\ IsSequence(c.ids) /\ Len(c.ids) = Len(c.subs)
      /\ \A i, j \in DOMAIN c.ids : c.ids[i] = c.ids[j] => i = j
  BY DEF WellMade
<1>2. PICK n \in Nat : n = Len(c.ids) /\ n = Len(c.subs) /\ DOMAIN c.ids = 1..n
  BY <1>1, SequenceFacts
<1>3. PICK o : o = MemberWrite(c, id, x)
  OBVIOUS
<1>4. ASSUME NEW s, NEW t, o = [value |-> Null, subs |-> s, ids |-> t, bumped |-> FALSE],
             IsSequence(s), IsSequence(t), Len(s) = Len(t),
             \A i, j \in DOMAIN t : t[i] = t[j] => i = j
      PROVE  Sound(c, o) /\ o.subs = s /\ o.ids = t
  <2>1. o.subs = s /\ o.ids = t /\ o.bumped = FALSE /\ IsOutcome(o)
    BY <1>4 DEF IsOutcome
  <2>2. SameShape(c, o)
    BY DEF SameShape
  <2> QED
    BY <1>4, <2>1, <2>2 DEF Sound
<1>5. CASE ~Contains(c.ids, id)
  <2>1. PICK s, t : s = Append(c.subs, x) /\ t = Append(c.ids, id)
    OBVIOUS
  <2>2. o = [value |-> Null, subs |-> s, ids |-> t, bumped |-> FALSE]
    BY <1>3, <1>5, <2>1 DEF MemberWrite, Overwrite, Answer
  <2>3. /\ IsSequence(s) /\ Len(s) = n + 1 /\ s[n + 1] = x
        /\ IsSequence(t) /\ Len(t) = n + 1 /\ DOMAIN t = 1..(n + 1) /\ t[n + 1] = id
        /\ \A j \in 1..n : t[j] = c.ids[j]
    BY <1>1, <1>2, <2>1, AppendSequence
  <2>4. \A j \in 1..n : t[j] # id
    BY <1>2, <1>5, <2>3 DEF Contains
  <2>5. \A i, j \in DOMAIN t : t[i] = t[j] => i = j
    BY <1>1, <1>2, <2>3, <2>4
  <2>6. Sound(c, o) /\ o.subs = s /\ o.ids = t
    BY <1>4, <2>2, <2>3, <2>5
  <2>7. ASSUME NEW d, d.subs = s, d.ids = t
        PROVE  MemberRead(d, id) = x
    <3>1. n + 1 \in 1..Len(t) /\ \A j \in 1..Len(t) : t[j] = id => j = n + 1
      BY <2>3, <2>4
    <3> QED
      BY <2>3, <2>7, <3>1, OneMember
  <2> QED
    BY <1>3, <2>6, <2>7
<1>6. CASE Contains(c.ids, id)
  <2>1. PICK i : i = CHOOSE m \in DOMAIN c.ids : c.ids[m] = id /\ \A j \in 1..(m - 1) : c.ids[j] # id
    OBVIOUS
  <2>2. PICK k \in 1..n : c.ids[k] = id
    BY <1>2, <1>6 DEF Contains
  <2>3. \A j \in 1..(k - 1) : c.ids[j] # id
    BY <1>1, <1>2, <2>2
  <2>4. i = k
    <3>1. i \in DOMAIN c.ids /\ c.ids[i] = id
      BY <1>2, <2>1, <2>2, <2>3, Zenon
    <3> QED
      BY <1>1, <1>2, <2>2, <3>1
  <2>5. CASE x = Null
    <3>1. PICK s, t : s = RemoveAt(c.subs, i) /\ t = RemoveAt(c.ids, i)
      OBVIOUS
    <3>2. o = [value |-> Null, subs |-> s, ids |-> t, bumped |-> FALSE]
      BY <1>3, <1>6, <2>1, <2>5, <3>1 DEF MemberWrite, Overwrite, Answer
    <3>3. /\ IsSequence(s) /\ Len(s) = n - 1 /\ IsSequence(t) /\ Len(t) = n - 1
          /\ \A j \in 1..(n - 1) : t[j] = IF j < i THEN c.ids[j] ELSE c.ids[j + 1]
      <4>1. PICK u, w : u = c.subs /\ w = c.ids
        OBVIOUS
      <4>2. IsSequence(u) /\ IsSequence(w) /\ i \in 1..Len(u) /\ i \in 1..Len(w)
        BY <1>1, <1>2, <2>4, <4>1
      <4>3. IsSequence(RemoveAt(u, i)) /\ Len(RemoveAt(u, i)) = Len(u) - 1
        BY <4>2, RemoveSequence
      <4>4. /\ IsSequence(RemoveAt(w, i)) /\ Len(RemoveAt(w, i)) = Len(w) - 1
            /\ \A j \in 1..(Len(w) - 1) : RemoveAt(w, i)[j] = IF j < i THEN w[j] ELSE w[j + 1]
        BY <4>2, RemoveSequence
      <4> QED
        BY <1>2, <3>1, <4>1, <4>3, <4>4
    <3>4. DOMAIN t = 1..(n - 1)
      BY <3>3, SequenceFacts
    <3>5. \A j \in 1..(n - 1) : t[j] # id
      <4>1. ASSUME NEW j \in 1..(n - 1)
            PROVE  t[j] # id
        <5>1. PICK l \in 1..n : t[j] = c.ids[l] /\ l # k
          BY <2>4, <3>3
        <5> QED
          BY <1>1, <1>2, <2>2, <5>1
      <4> QED
        BY <4>1
    <3>6. \A j, l \in DOMAIN t : t[j] = t[l] => j = l
      <4>1. ASSUME NEW j \in 1..(n - 1), NEW l \in 1..(n - 1), t[j] = t[l]
            PROVE  j = l
        <5>1. PICK jj, ll : jj = (IF j < i THEN j ELSE j + 1) /\ ll = (IF l < i THEN l ELSE l + 1)
          OBVIOUS
        <5>2. jj \in 1..n /\ ll \in 1..n /\ t[j] = c.ids[jj] /\ t[l] = c.ids[ll]
          BY <3>3, <5>1
        <5>3. jj = ll
          BY <1>1, <1>2, <4>1, <5>2
        <5>4. i \in Nat
          BY <2>4
        <5> QED
          BY <5>1, <5>3, <5>4
      <4> QED
        BY <3>4, <4>1
    <3>7. Sound(c, o) /\ o.subs = s /\ o.ids = t
      BY <1>4, <3>2, <3>3, <3>6
    <3>8. ASSUME NEW d, d.subs = s, d.ids = t
          PROVE  MemberRead(d, id) = x
      <4>1. ~Contains(d.ids, id)
        BY <3>3, <3>5, <3>8 DEF Contains
      <4> QED
        BY <2>5, <4>1 DEF MemberRead
    <3> QED
      BY <1>3, <3>7, <3>8
  <2>6. CASE x # Null
    <3>1. PICK s, u : s = [u EXCEPT ![i] = x] /\ u = c.subs
      OBVIOUS
    <3>2. o = [value |-> Null, subs |-> s, ids |-> c.ids, bumped |-> FALSE]
      BY <1>3, <1>6, <2>1, <2>6, <3>1 DEF MemberWrite, Overwrite, Answer
    <3>3. IsSequence(s) /\ Len(s) = n /\ s[k] = x
      <4>1. IsSequence(u) /\ Len(u) = n /\ k \in 1..Len(u)
        BY <1>1, <1>2, <2>2, <3>1
      <4>2. IsSequence([u EXCEPT ![i] = x]) /\ Len([u EXCEPT ![i] = x]) = Len(u)
        BY <4>1, OverwrittenSequence
      <4>3. s[k] = x
        BY <2>4, <3>1, <4>1, SequenceFacts
      <4> QED
        BY <3>1, <4>1, <4>2, <4>3
    <3>4. Sound(c, o) /\ o.subs = s /\ o.ids = c.ids
      BY <1>1, <1>2, <1>4, <3>2, <3>3
    <3>5. ASSUME NEW d, d.subs = s, d.ids = c.ids
          PROVE  MemberRead(d, id) = x
      <4>1. k \in 1..Len(d.ids) /\ d.ids[k] = id /\ \A j \in 1..Len(d.ids) : d.ids[j] = id => j = k
        BY <1>1, <1>2, <2>2, <3>5
      <4> QED
        BY <1>1, <3>3, <3>5, <4>1, OneMember
    <3> QED
      BY <1>3, <3>4, <3>5
  <2> QED
    BY <2>5, <2>6
<1> QED
  BY <1>5, <1>6

-----------------------------------------------------------------------------
(* Induction over numbers, without an operator for what is proved *)

LEMMA LessIsWellFounded ==
    \E R : IsWellFoundedOn(R, Nat) /\ \A k, m \in Nat : <<k, m>> \in R <=> k < m
<1>1. \A k, m \in Nat : <<k, m>> \in OpToRel(<, Nat) <=> k < m
  BY Zenon DEF OpToRel
<1> QED
  BY <1>1, NatLessThanWellFounded, Zenon

LEMMA MinOfWellFounded ==
    ASSUME NEW R, IsWellFoundedOn(R, Nat), NEW T, T \subseteq Nat, T # {}
    PROVE  \E m \in T : \A k \in T : ~(<<k, m>> \in R)
BY WFMin, Zenon

LEMMA Least ==
    ASSUME NEW T, T \subseteq Nat, T # {}
    PROVE  \E m \in T : \A k \in T : m <= k
<1>1. PICK R : IsWellFoundedOn(R, Nat) /\ \A k, m \in Nat : <<k, m>> \in R <=> k < m
  BY LessIsWellFounded, Zenon
<1>2. PICK m \in T : \A k \in T : ~(<<k, m>> \in R)
  BY <1>1, MinOfWellFounded, Zenon
<1>3. \A k \in T : ~(k < m)
  BY <1>1, <1>2, Zenon
<1>4. \A k \in T : m <= k
  BY <1>3, SMT
<1> QED
  BY <1>4, Zenon

\* What holds of 0, and of a number because it holds of all smaller ones.
LEMMA Induction ==
    ASSUME NEW T, T \subseteq Nat, \A n \in Nat : (\A k \in 0..(n - 1) : k \in T) => n \in T
    PROVE  T = Nat
<1>1. SUFFICES ASSUME Nat \ T # {} PROVE FALSE
  OBVIOUS
<1>2. PICK m \in Nat \ T : \A k \in Nat \ T : m <= k
  <2>1. Nat \ T \subseteq Nat
    OBVIOUS
  <2> QED
    BY <1>1, <2>1, Least
<1>3. \A k \in 0..(m - 1) : k \in T
  BY <1>2
<1> QED
  BY <1>2, <1>3

-----------------------------------------------------------------------------
(* New containers *)

LEMMA NewWellMade ==
    ASSUME NEW k, k # "struct", NEW s, IsSequence(s)
    PROVE  WellMade(Container(k, s)) /\ Container(k, s).k = k /\ Container(k, s).subs = s
<1>1. PICK c : c = Container(k, s)
  OBVIOUS
<1>2. c = [k |-> k, n |-> 0, d |-> 1, subs |-> s, ids |-> <<>>]
  BY <1>1 DEF Container, Object
<1>3. c.k = k /\ c.subs = s /\ c.n = 0 /\ c.d = 1 /\ c.ids = <<>>
  BY <1>2
<1>4. [Object(c.k, c.n, c.subs, c.ids) EXCEPT !.d = c.d] = c
  BY <1>2, <1>3 DEF Object
<1> QED
  BY <1>1, <1>3, <1>4 DEF WellMade

\* One entry of the other map.
MergeStep(l, r, n, m) ==
    IF MapContains(l, r.subs[n].subs[1]) THEN m
    ELSE Container("map", MapAssign(m, r.subs[n].subs[1], r.subs[n].subs[2]).subs)
IsMerge(l, r, n, f) == f = [k \in 0..n |-> IF k = 0 THEN l ELSE MergeStep(l, r, k, f[k - 1])]

LEMMA MergeExists ==
    ASSUME NEW l, NEW r
    PROVE  \A n \in Nat : \E f : IsMerge(l, r, n, f)
<1>1. PICK T : T = {n \in Nat : \E f : IsMerge(l, r, n, f)}
  OBVIOUS
<1>2. ASSUME NEW n \in Nat, \A k \in 0..(n - 1) : k \in T
      PROVE  n \in T
  <2>1. CASE n = 0
    <3>1. PICK f : f = [k \in 0..n |-> l]
      OBVIOUS
    <3>2. IsMerge(l, r, n, f)
      BY <2>1, <3>1 DEF IsMerge
    <3> QED
      BY <1>1, <3>2
  <2>2. CASE n # 0
    <3>1. PICK g : IsMerge(l, r, n - 1, g)
      BY <1>1, <1>2, <2>2
    <3>2. g = [k \in 0..(n - 1) |-> IF k = 0 THEN l ELSE MergeStep(l, r, k, g[k - 1])]
      BY <3>1 DEF IsMerge
    <3>3. PICK f : f = [k \in 0..n |-> IF k = n THEN MergeStep(l, r, n, g[n - 1]) ELSE g[k]]
      OBVIOUS
    <3>4. \A k \in 0..(n - 1) : f[k] = g[k]
      BY <3>3
    <3>5. f[n] = MergeStep(l, r, n, f[n - 1])
      BY <2>2, <3>3, <3>4
    <3>6. ASSUME NEW k \in 0..n
          PROVE  f[k] = IF k = 0 THEN l ELSE MergeStep(l, r, k, f[k - 1])
      BY <2>2, <3>2, <3>4, <3>5
    <3>7. IsMerge(l, r, n, f)
      BY <3>3, <3>6 DEF IsMerge
    <3> QED
      BY <1>1, <3>7
  <2> QED
    BY <2>1, <2>2
<1>3. T = Nat
  BY <1>1, <1>2, Induction
<1> QED
  BY <1>1, <1>3

LEMMA MergedIs ==
    ASSUME NEW l, NEW r, NEW g, IsMerge(l, r, Len(r.subs), g)
    PROVE  \E f : IsMerge(l, r, Len(r.subs), f) /\ Merged(l, r) = f[Len(r.subs)]
BY Zenon DEF Merged, IsMerge, MergeStep

LEMMA MergedWellMade ==
    ASSUME NEW l, WellMade(l), l.k = "map", NEW r, IsSequence(r.subs)
    PROVE  WellMade(Merged(l, r)) /\ Merged(l, r).k = "map"
<1>1. PICK n \in Nat : n = Len(r.subs)
  BY SequenceFacts
<1>2. PICK f : IsMerge(l, r, n, f) /\ Merged(l, r) = f[n]
  BY <1>1, MergeExists, MergedIs
<1>3. f = [k \in 0..n |-> IF k = 0 THEN l ELSE MergeStep(l, r, k, f[k - 1])]
  BY <1>2 DEF IsMerge
<1>4. PICK T : T = {k \in Nat : k \in 0..n => WellMade(f[k]) /\ f[k].k = "map"}
  OBVIOUS
<1>5. ASSUME NEW k \in Nat, \A j \in 0..(k - 1) : j \in T
      PROVE  k \in T
  <2>1. CASE k = 0 \/ k > n
    BY <1>3, <1>4, <2>1
  <2>2. CASE k # 0 /\ k \in 0..n
    <3>1. PICK m : m = f[k - 1] /\ WellMade(m) /\ m.k = "map"
      BY <1>4, <1>5, <2>2
    <3>2. f[k] = MergeStep(l, r, k, m)
      BY <1>3, <2>2, <3>1
    <3>3. PICK o : o = MapAssign(m, r.subs[k].subs[1], r.subs[k].subs[2]) /\ IsSequence(o.subs)
      BY <3>1, MapsSound DEF Sound
    <3>4. WellMade(Container("map", o.subs)) /\ Container("map", o.subs).k = "map"
      BY <3>3, NewWellMade
    <3>5. WellMade(f[k]) /\ f[k].k = "map"
      BY <3>1, <3>2, <3>3, <3>4 DEF MergeStep
    <3> QED
      BY <1>4, <3>5
  <2> QED
    BY <2>1, <2>2
<1>6. T = Nat
  BY <1>4, <1>5, Induction
<1> QED
  BY <1>2, <1>4, <1>6

\* The parts of arrays and maps.
LEMMA DerivedWellMade ==
    ASSUME NEW c, WellMade(c)
    PROVE  /\ WellMade(MapKeys(c)) /\ WellMade(MapValues(c)) /\ WellMade(Reversed(c))
           /\ WellMade(Container("array", c.subs))
           /\ \A b, e : Slice(c, b, e) # OutOfRange => WellMade(Slice(c, b, e))
<1>0. IsSequence(c.subs)
  BY DEF WellMade
<1>1. PICK n \in Nat : n = Len(c.subs) /\ DOMAIN c.subs = 1..n
  BY <1>0, SequenceFacts
<1>2. ASSUME NEW s, s = [j \in 1..n |-> s[j]]
      PROVE  WellMade(Container("array", s))
  BY <1>2, FunctionIsSequence, NewWellMade
<1>3. WellMade(MapKeys(c))
  <2>1. PICK s : s = KeysOf(c)
    OBVIOUS
  <2>2. s = [j \in 1..n |-> s[j]]
    BY <1>1, <2>1 DEF KeysOf
  <2> QED
    BY <1>2, <2>1, <2>2 DEF MapKeys
<1>4. WellMade(MapValues(c))
  <2>1. PICK s : s = [i \in DOMAIN c.subs |-> c.subs[i].subs[2]]
    OBVIOUS
  <2>2. s = [j \in 1..n |-> s[j]]
    BY <1>1, <2>1
  <2> QED
    BY <1>2, <2>1, <2>2 DEF MapValues
<1>5. WellMade(Reversed(c))
  <2>1. PICK s : s = Reverse(c.subs)
    OBVIOUS
  <2>2. s = [j \in 1..n |-> c.subs[(n - j) + 1]]
    BY <1>1, <2>1 DEF Reverse
  <2>3. s = [j \in 1..n |-> s[j]]
    BY <2>2
  <2> QED
    BY <1>2, <2>1, <2>3 DEF Reversed
<1>6. WellMade(Container("array", c.subs))
  BY <1>0, NewWellMade
<1>7. ASSUME NEW b, NEW e, Slice(c, b, e) # OutOfRange
      PROVE  WellMade(Slice(c, b, e))
  <2>1. /\ b \in 0..n /\ e \in 0..n /\ b <= e
        /\ Slice(c, b, e) = Container("array", SubSeq(c.subs, b + 1, e))
    BY <1>1, <1>7 DEF Slice
  <2>2. b + 1 \in Nat \ {0} /\ e \in Nat /\ e <= Len(c.subs)
    BY <1>1, <2>1
  <2>3. IsSequence(SubSeq(c.subs, b + 1, e))
    BY <1>0, <2>2, PartSequence
  <2> QED
    BY <2>1, <2>3, NewWellMade
<1> QED
  BY <1>3, <1>4, <1>5, <1>6, <1>7

-----------------------------------------------------------------------------
(* Joining a sequence of sequences *)

IsFlat(s, n, f) == f = [i \in 1..n |-> IF i = 1 THEN s[i] ELSE f[i - 1] \o s[i]]

LEMMA FlatExists ==
    ASSUME NEW s
    PROVE  \A n \in Nat : \E f : IsFlat(s, n, f)
<1>1. PICK T : T = {n \in Nat : \E f : IsFlat(s, n, f)}
  OBVIOUS
<1>2. ASSUME NEW n \in Nat, \A k \in 0..(n - 1) : k \in T
      PROVE  n \in T
  <2>1. CASE n = 0
    <3>1. PICK f : f = [i \in 1..n |-> s[i]]
      OBVIOUS
    <3>2. IsFlat(s, n, f)
      BY <2>1, <3>1 DEF IsFlat
    <3> QED
      BY <1>1, <3>2
  <2>2. CASE n # 0
    <3>1. PICK g : IsFlat(s, n - 1, g)
      BY <1>1, <1>2, <2>2
    <3>2. g = [i \in 1..(n - 1) |-> IF i = 1 THEN s[i] ELSE g[i - 1] \o s[i]]
      BY <3>1 DEF IsFlat
    <3>3. PICK v : v = IF n = 1 THEN s[n] ELSE g[n - 1] \o s[n]
      OBVIOUS
    <3>4. PICK f : f = [i \in 1..n |-> IF i = n THEN v ELSE g[i]]
      OBVIOUS
    <3>5. \A i \in 1..(n - 1) : f[i] = g[i]
      BY <3>4
    <3>6. ASSUME NEW i \in 1..n
          PROVE  f[i] = IF i = 1 THEN s[i] ELSE f[i - 1] \o s[i]
      <4>1. CASE i = n
        <5>1. f[i] = v
          BY <3>4, <4>1
        <5>2. n # 1 => f[n - 1] = g[n - 1]
          BY <2>2, <3>5
        <5> QED
          BY <3>3, <4>1, <5>1, <5>2, Zenon
      <4>2. CASE i # n
        <5>1. i \in 1..(n - 1) /\ f[i] = g[i]
          BY <3>5, <4>2
        <5>2. i # 1 => f[i - 1] = g[i - 1]
          BY <3>5, <5>1
        <5>3. g[i] = IF i = 1 THEN s[i] ELSE g[i - 1] \o s[i]
          BY <3>2, <5>1, Zenon
        <5> QED
          BY <5>1, <5>2, <5>3, Zenon
      <4> QED
        BY <4>1, <4>2
    <3>7. IsFlat(s, n, f)
      BY <3>4, <3>6, Zenon DEF IsFlat
    <3> QED
      BY <1>1, <3>7
  <2> QED
    BY <2>1, <2>2
<1>3. T = Nat
  BY <1>1, <1>2, Induction
<1> QED
  BY <1>1, <1>3

LEMMA FlattenIs ==
    ASSUME NEW s, Len(s) # 0, NEW g, IsFlat(s, Len(s), g)
    PROVE  \E f : IsFlat(s, Len(s), f) /\ FlattenSeq(s) = f[Len(s)]
BY Zenon DEF FlattenSeq, IsFlat

LEMMA FlattenSequence ==
    ASSUME NEW s, IsSequence(s), \A i \in 1..Len(s) : IsSequence(s[i])
    PROVE  IsSequence(FlattenSeq(s))
<1>1. PICK n \in Nat : n = Len(s)
  BY SequenceFacts
<1>2. CASE n = 0
  BY <1>1, <1>2 DEF FlattenSeq
<1>3. CASE n # 0
  <2>1. PICK f : IsFlat(s, n, f) /\ FlattenSeq(s) = f[n]
    BY <1>1, <1>3, FlatExists, FlattenIs
  <2>2. \A i \in 1..n : f[i] = IF i = 1 THEN s[i] ELSE f[i - 1] \o s[i]
    <3>1. f = [i \in 1..n |-> IF i = 1 THEN s[i] ELSE f[i - 1] \o s[i]]
      BY <2>1, Zenon DEF IsFlat
    <3> QED
      BY <3>1, Zenon
  <2>3. PICK T : T = {k \in Nat : k \in 1..n => IsSequence(f[k])}
    OBVIOUS
  <2>4. ASSUME NEW k \in Nat, \A j \in 0..(k - 1) : j \in T
        PROVE  k \in T
    <3>1. CASE k \notin 1..n
      BY <2>3, <3>1
    <3>2. CASE k \in 1..n /\ k = 1
      <4>1. f[k] = s[k]
        BY <2>2, <3>2
      <4> QED
        BY <1>1, <2>3, <3>2, <4>1
    <3>3. CASE k \in 1..n /\ k # 1
      <4>1. PICK m : m = f[k - 1]
        OBVIOUS
      <4>2. IsSequence(m)
        BY <2>3, <2>4, <3>3, <4>1
      <4>3. IsSequence(s[k])
        BY <1>1, <3>3
      <4>4. f[k] = m \o s[k]
        BY <2>2, <3>3, <4>1
      <4>5. IsSequence(m \o s[k])
        BY <4>2, <4>3, JoinSequences
      <4> QED
        BY <2>3, <4>4, <4>5
    <3> QED
      BY <3>1, <3>2, <3>3
  <2>5. T = Nat
    BY <2>3, <2>4, Induction
  <2> QED
    BY <1>3, <2>1, <2>3, <2>5
<1> QED
  BY <1>2, <1>3

-----------------------------------------------------------------------------
(* The order of a map *)

\* The keys before the lower bound are the smaller ones.
LEMMA BoundFacts ==
    ASSUME NEW K, Transitive(K), NEW c, InOrder(K, c.subs), NEW key \in K
    PROVE  \E m \in 0..Len(c.subs) :
              /\ LowerBound(c, key) = m + 1
              /\ \A i \in 1..m : StrictOrder(c.subs[i].subs[1], key) = -1
              /\ m + 1 <= Len(c.subs) => StrictOrder(c.subs[m + 1].subs[1], key) # -1
<1>1. PICK n \in Nat : n = Len(c.subs) /\ DOMAIN c.subs = 1..n
  BY SequenceFacts DEF InOrder
<1>2. PICK S : S = {i \in DOMAIN c.subs : StrictOrder(c.subs[i].subs[1], key) = -1}
  OBVIOUS
<1>3. PICK T : T = {i \in Nat : i # 0 /\ i \notin S}
  OBVIOUS
<1>4. n + 1 \in T
  BY <1>1, <1>2, <1>3
<1>5. PICK r \in T : \A k \in T : r <= k
  BY <1>3, <1>4, Least
<1>6. r \in Nat /\ r # 0 /\ r <= n + 1 /\ r \notin S
  BY <1>3, <1>4, <1>5
<1>7. ASSUME NEW i \in 1..(r - 1) PROVE i \in S
  BY <1>3, <1>5, <1>6
<1>8. ASSUME NEW i \in S PROVE i \in 1..(r - 1)
  <2>1. i \in 1..n /\ StrictOrder(c.subs[i].subs[1], key) = -1
    BY <1>1, <1>2
  <2>2. CASE r <= i
    <3>1. r \in 1..n /\ r # i /\ r < i
      BY <1>6, <2>1, <2>2
    <3>2. StrictOrder(c.subs[r].subs[1], c.subs[i].subs[1]) = -1
      BY <1>1, <2>1, <3>1 DEF InOrder
    <3>3. c.subs[r].subs[1] \in K /\ c.subs[i].subs[1] \in K
      BY <1>1, <2>1, <3>1 DEF InOrder
    <3>4. StrictOrder(c.subs[r].subs[1], key) = -1
      BY <2>1, <3>2, <3>3 DEF Transitive
    <3>5. r \in S
      BY <1>1, <1>2, <3>1, <3>4
    <3> QED
      BY <1>6, <3>5
  <2> QED
    BY <1>6, <2>1, <2>2
<1>9. S = 1..(r - 1)
  BY <1>7, <1>8
<1>10. PICK m \in Nat : m = r - 1 /\ m <= n
  BY <1>6
<1>11. Cardinality(S) = m
  <2>1. S = 1..m
    BY <1>9, <1>10
  <2>2. Cardinality(1..m) = IF 1 > m THEN 0 ELSE m - 1 + 1
    BY FS_Interval
  <2> QED
    BY <2>1, <2>2
<1>12. LowerBound(c, key) = m + 1
  BY <1>2, <1>11 DEF LowerBound
<1>13. \A i \in 1..m : StrictOrder(c.subs[i].subs[1], key) = -1
  BY <1>2, <1>9, <1>10
<1>14. m + 1 <= n => StrictOrder(c.subs[m + 1].subs[1], key) # -1
  BY <1>1, <1>2, <1>6, <1>10
<1> QED
  BY <1>1, <1>10, <1>12, <1>13, <1>14

LEMMA InsertInOrder ==
    ASSUME NEW K, Transitive(K), NEW s, InOrder(K, s), NEW m \in 0..Len(s), NEW y, y.subs[1] \in K,
           \A i \in 1..m : StrictOrder(s[i].subs[1], y.subs[1]) = -1,
           m + 1 <= Len(s) => StrictOrder(y.subs[1], s[m + 1].subs[1]) = -1
    PROVE  InOrder(K, InsertAt(s, m + 1, y))
<1>1. PICK n \in Nat : n = Len(s)
  BY SequenceFacts DEF InOrder
<1>2. PICK t, h : t = InsertAt(s, h, y) /\ h = m + 1
  OBVIOUS
<1>3. /\ IsSequence(t) /\ Len(t) = n + 1
      /\ \A j \in 1..(n + 1) : t[j] = IF j < h THEN s[j] ELSE IF j = h THEN y ELSE s[j - 1]
  <2>1. IsSequence(s) /\ h \in 1..(Len(s) + 1)
    BY <1>1, <1>2 DEF InOrder
  <2> QED
    BY <1>1, <1>2, <2>1, InsertSequence
<1>4. \A j \in 1..n : s[j].subs[1] \in K
  BY <1>1 DEF InOrder
<1>5. \A i, j \in 1..n : i < j => StrictOrder(s[i].subs[1], s[j].subs[1]) = -1
  BY <1>1 DEF InOrder
<1>6. ASSUME NEW j \in 1..n, m + 1 <= j
      PROVE  StrictOrder(y.subs[1], s[j].subs[1]) = -1
  <2>1. StrictOrder(y.subs[1], s[m + 1].subs[1]) = -1 /\ m + 1 \in 1..n
    BY <1>1, <1>6
  <2>2. CASE j = m + 1
    BY <2>1, <2>2
  <2>3. CASE j # m + 1
    <3>1. StrictOrder(s[m + 1].subs[1], s[j].subs[1]) = -1
      BY <1>5, <1>6, <2>1, <2>3
    <3>2. s[m + 1].subs[1] \in K /\ s[j].subs[1] \in K
      BY <1>4, <2>1
    <3> QED
      BY <2>1, <3>1, <3>2 DEF Transitive
  <2> QED
    BY <2>2, <2>3
<1>7. ASSUME NEW i \in 1..(n + 1) PROVE t[i].subs[1] \in K
  <2>1. CASE i < h
    <3>1. t[i] = s[i] /\ i \in 1..n
      BY <1>1, <1>2, <1>3, <2>1
    <3> QED
      BY <1>4, <3>1
  <2>2. CASE i = h
    <3>1. t[i] = y
      BY <1>3, <2>2
    <3> QED
      BY <3>1
  <2>3. CASE i > h
    <3>1. t[i] = s[i - 1] /\ i - 1 \in 1..n
      BY <1>1, <1>2, <1>3, <2>3
    <3> QED
      BY <1>4, <3>1
  <2> QED
    BY <1>1, <1>2, <2>1, <2>2, <2>3
<1>8. ASSUME NEW i \in 1..(n + 1), NEW j \in 1..(n + 1), i < j
      PROVE  StrictOrder(t[i].subs[1], t[j].subs[1]) = -1
  <2>1. CASE j < h
    <3>1. t[i] = s[i] /\ t[j] = s[j] /\ i \in 1..n /\ j \in 1..n
      BY <1>1, <1>2, <1>3, <1>8, <2>1
    <3> QED
      BY <1>5, <1>8, <3>1
  <2>2. CASE j = h
    <3>1. t[i] = s[i] /\ t[j] = y /\ i \in 1..m
      BY <1>1, <1>2, <1>3, <1>8, <2>2
    <3> QED
      BY <3>1
  <2>3. CASE i = h
    <3>1. t[i] = y /\ t[j] = s[j - 1] /\ j - 1 \in 1..n /\ m + 1 <= j - 1
      BY <1>1, <1>2, <1>3, <1>8, <2>3
    <3> QED
      BY <1>6, <3>1
  <2>4. CASE i < h /\ j > h
    <3>1. t[i] = s[i] /\ t[j] = s[j - 1] /\ i \in 1..n /\ j - 1 \in 1..n /\ i < j - 1
      BY <1>1, <1>2, <1>3, <1>8, <2>4
    <3> QED
      BY <1>5, <3>1
  <2>5. CASE i > h
    <3>1. /\ t[i] = s[i - 1] /\ t[j] = s[j - 1] /\ i - 1 \in 1..n /\ j - 1 \in 1..n
          /\ i - 1 < j - 1
      BY <1>1, <1>2, <1>3, <1>8, <2>5
    <3> QED
      BY <1>5, <3>1
  <2> QED
    BY <1>1, <1>2, <1>8, <2>1, <2>2, <2>3, <2>4, <2>5
<1> QED
  BY <1>2, <1>3, <1>7, <1>8 DEF InOrder

LEMMA RemoveInOrder ==
    ASSUME NEW K, NEW s, InOrder(K, s), NEW h \in 1..Len(s)
    PROVE  InOrder(K, RemoveAt(s, h))
<1>1. PICK n \in Nat : n = Len(s) /\ IsSequence(s)
  BY SequenceFacts DEF InOrder
<1>2. PICK t : t = RemoveAt(s, h)
  OBVIOUS
<1>3. /\ IsSequence(t) /\ Len(t) = n - 1
      /\ \A j \in 1..(n - 1) : t[j] = IF j < h THEN s[j] ELSE s[j + 1]
  BY <1>1, <1>2, RemoveSequence
<1>4. \A i \in 1..(n - 1) : \E k \in 1..n : t[i] = s[k] /\ k = IF i < h THEN i ELSE i + 1
  BY <1>1, <1>3
<1>5. ASSUME NEW i \in 1..(n - 1) PROVE t[i].subs[1] \in K
  BY <1>1, <1>4 DEF InOrder
<1>6. ASSUME NEW i \in 1..(n - 1), NEW j \in 1..(n - 1), i < j
      PROVE  StrictOrder(t[i].subs[1], t[j].subs[1]) = -1
  <2>1. PICK k \in 1..n : t[i] = s[k] /\ k = IF i < h THEN i ELSE i + 1
    BY <1>4
  <2>2. PICK l \in 1..n : t[j] = s[l] /\ l = IF j < h THEN j ELSE j + 1
    BY <1>4
  <2>3. k < l
    BY <1>1, <1>6, <2>1, <2>2
  <2> QED
    BY <1>1, <2>1, <2>2, <2>3 DEF InOrder
<1> QED
  BY <1>2, <1>3, <1>5, <1>6 DEF InOrder

LEMMA SameKeysInOrder ==
    ASSUME NEW K, NEW s, InOrder(K, s), NEW t, IsSequence(t), Len(t) = Len(s),
           \A i \in 1..Len(s) : t[i].subs[1] = s[i].subs[1]
    PROVE  InOrder(K, t)
BY DEF InOrder

LEMMA PairFields ==
    ASSUME NEW key, NEW x
    PROVE  Pair(key, x).subs[1] = key /\ Pair(key, x).subs[2] = x
BY DEF Pair, Container, Object

\* Assigning to a key and erasing one keep the order.
LEMMA MapsInOrder ==
    ASSUME NEW K, Transitive(K), NEW c, WellMade(c), c.k = "map", InOrder(K, c.subs), NEW key \in K, NEW x
    PROVE  InOrder(K, MapAssign(c, key, x).subs) /\ InOrder(K, MapErase(c, key).subs)
<1>1. PICK s, i, b : s = c.subs /\ i = MapFind(c, key) /\ b = LowerBound(c, key)
  OBVIOUS
<1>2. PICK n \in Nat : n = Len(s) /\ DOMAIN s = 1..n /\ IsSequence(s) /\ InOrder(K, s)
  BY <1>1, SequenceFacts DEF InOrder
<1>3. i \in 0..n /\ b \in 1..(n + 1)
  BY <1>1, <1>2, LowerBoundRange
<1>4. CASE MapContains(c, key)
  <2>1. i \in 1..n
    BY <1>1, <1>3, <1>4 DEF MapContains
  <2>2. InOrder(K, MapErase(c, key).subs)
    <3>1. MapErase(c, key).subs = RemoveAt(s, i)
      BY <1>1, <1>4 DEF MapErase, Change, Overwrite, Answer
    <3> QED
      BY <1>2, <2>1, <3>1, RemoveInOrder
  <2>3. InOrder(K, MapAssign(c, key, x).subs)
    <3>0. PICK y : y = Pair(s[i].subs[1], x)
      OBVIOUS
    <3>1. PICK t : t = [s EXCEPT ![i] = y]
      OBVIOUS
    <3>2. MapAssign(c, key, x).subs = t
      BY <1>1, <1>4, <3>0, <3>1 DEF MapAssign, Overwrite, Answer
    <3>3. y.subs[1] = s[i].subs[1]
      BY <3>0, PairFields
    <3>4. IsSequence(t) /\ Len(t) = n
      BY <1>2, <3>1, OverwrittenSequence
    <3>5. \A j \in 1..n : t[j] = IF j = i THEN y ELSE s[j]
      BY <1>2, <3>1
    <3>6. \A j \in 1..n : t[j].subs[1] = s[j].subs[1]
      BY <3>3, <3>5
    <3> QED
      BY <1>2, <3>2, <3>4, <3>6, SameKeysInOrder
  <2> QED
    BY <2>2, <2>3
<1>5. CASE ~MapContains(c, key)
  <2>1. MapErase(c, key).subs = s
    BY <1>1, <1>5 DEF MapErase, Change, Overwrite, Answer
  <2>2. PICK m \in 0..n : b = m + 1 /\ \A j \in 1..m : StrictOrder(s[j].subs[1], key) = -1
    BY <1>1, <1>2, BoundFacts
  <2>3. b <= n => StrictOrder(key, s[b].subs[1]) = -1
    <3>1. MapFind(c, key) = IF b <= n /\ StrictOrder(key, s[b].subs[1]) # -1 THEN b ELSE 0
      BY <1>1, <1>2 DEF MapFind
    <3> QED
      BY <1>3, <1>5, <3>1 DEF MapContains
  <2>4. PICK y : y = Pair(key, x) /\ y.subs[1] = key
    BY PairFields
  <2>5. MapAssign(c, key, x).subs = InsertAt(s, m + 1, y)
    BY <1>1, <1>5, <2>2, <2>4 DEF MapAssign, Change, Overwrite, Answer
  <2>6. InOrder(K, InsertAt(s, m + 1, y))
    BY <1>2, <2>2, <2>3, <2>4, InsertInOrder
  <2> QED
    BY <1>2, <2>1, <2>5, <2>6
<1> QED
  BY <1>4, <1>5

\* Merging two maps.
LEMMA MergedInOrder ==
    ASSUME NEW K, Transitive(K), NEW l, WellMade(l), l.k = "map", InOrder(K, l.subs),
           NEW r, InOrder(K, r.subs)
    PROVE  InOrder(K, Merged(l, r).subs)
<1>1. PICK n \in Nat : n = Len(r.subs) /\ IsSequence(r.subs) /\ \A i \in 1..n : r.subs[i].subs[1] \in K
  BY SequenceFacts DEF InOrder
<1>2. PICK f : IsMerge(l, r, n, f) /\ Merged(l, r) = f[n]
  BY <1>1, MergeExists, MergedIs
<1>3. \A k \in 0..n : f[k] = IF k = 0 THEN l ELSE MergeStep(l, r, k, f[k - 1])
  BY <1>2 DEF IsMerge
<1>4. PICK T : T = {k \in Nat : k \in 0..n => WellMade(f[k]) /\ f[k].k = "map" /\ InOrder(K, f[k].subs)}
  OBVIOUS
<1>5. ASSUME NEW k \in Nat, \A j \in 0..(k - 1) : j \in T
      PROVE  k \in T
  <2>1. CASE k = 0 \/ k > n
    BY <1>3, <1>4, <2>1
  <2>2. CASE k # 0 /\ k \in 0..n
    <3>1. PICK m : m = f[k - 1] /\ WellMade(m) /\ m.k = "map" /\ InOrder(K, m.subs)
      BY <1>4, <1>5, <2>2
    <3>2. f[k] = MergeStep(l, r, k, m)
      BY <1>3, <2>2, <3>1
    <3>3. PICK o : /\ o = MapAssign(m, r.subs[k].subs[1], r.subs[k].subs[2])
                   /\ IsSequence(o.subs) /\ InOrder(K, o.subs)
      <4>1. r.subs[k].subs[1] \in K
        BY <1>1, <2>2
      <4> QED
        BY <3>1, <4>1, MapsSound, MapsInOrder DEF Sound
    <3>4. /\ WellMade(Container("map", o.subs)) /\ Container("map", o.subs).k = "map"
          /\ Container("map", o.subs).subs = o.subs
      BY <3>3, NewWellMade
    <3>5. WellMade(f[k]) /\ f[k].k = "map" /\ InOrder(K, f[k].subs)
      BY <3>1, <3>2, <3>3, <3>4 DEF MergeStep
    <3> QED
      BY <1>4, <3>5
  <2> QED
    BY <2>1, <2>2
<1>6. T = Nat
  BY <1>4, <1>5, Induction
<1> QED
  BY <1>2, <1>4, <1>6


-----------------------------------------------------------------------------
(* A map as the function from its keys to their values *)

\* A key that is there is found, and at the one place where it is.
LEMMA FoundWhere ==
    ASSUME NEW K, Transitive(K), Separating(K), NEW c, InOrder(K, c.subs), NEW key \in K
    PROVE  /\ \A i \in 1..Len(c.subs) : c.subs[i].subs[1] = key => MapFind(c, key) = i
           /\ MapContains(c, key) =>
                 MapFind(c, key) \in 1..Len(c.subs) /\ c.subs[MapFind(c, key)].subs[1] = key
<1>1. PICK n \in Nat : n = Len(c.subs) /\ \A i \in 1..n : c.subs[i].subs[1] \in K
  BY SequenceFacts DEF InOrder
<1>2. PICK m \in 0..n :
         /\ LowerBound(c, key) = m + 1
         /\ \A i \in 1..m : StrictOrder(c.subs[i].subs[1], key) = -1
         /\ m + 1 <= n => StrictOrder(c.subs[m + 1].subs[1], key) # -1
  BY <1>1, BoundFacts
<1>3. MapFind(c, key) = IF m + 1 <= n /\ StrictOrder(key, c.subs[m + 1].subs[1]) # -1 THEN m + 1 ELSE 0
  BY <1>1, <1>2 DEF MapFind
<1>4. StrictOrder(key, key) # -1
  BY DEF Separating
<1>5. ASSUME NEW i \in 1..n, c.subs[i].subs[1] = key
      PROVE  MapFind(c, key) = i
  <2>1. ~(i \in 1..m)
    BY <1>2, <1>4, <1>5
  <2>2. CASE m + 1 < i
    <3>1. StrictOrder(c.subs[m + 1].subs[1], c.subs[i].subs[1]) = -1 /\ m + 1 <= n
      BY <1>1, <1>2, <2>2 DEF InOrder
    <3> QED
      BY <1>2, <1>5, <3>1
  <2>3. CASE i = m + 1
    BY <1>3, <1>4, <1>5, <2>3
  <2> QED
    BY <2>1, <2>2, <2>3
<1>6. ASSUME MapContains(c, key)
      PROVE  MapFind(c, key) \in 1..n /\ c.subs[MapFind(c, key)].subs[1] = key
  <2>1. MapFind(c, key) = m + 1 /\ m + 1 \in 1..n /\ StrictOrder(key, c.subs[m + 1].subs[1]) # -1
    BY <1>3, <1>6 DEF MapContains
  <2>2. c.subs[m + 1].subs[1] \in K /\ StrictOrder(c.subs[m + 1].subs[1], key) # -1
    BY <1>1, <1>2, <2>1
  <2>3. c.subs[m + 1].subs[1] = key
    BY <2>1, <2>2 DEF Separating
  <2> QED
    BY <2>1, <2>3
<1> QED
  BY <1>1, <1>5, <1>6

\* An entry of a map is what the map contains and gives for its key.
LEMMA EntriesFound ==
    ASSUME NEW K, Transitive(K), Separating(K), NEW c, InOrder(K, c.subs), NEW key \in K
    PROVE  /\ MapContains(c, key) <=> \E i \in 1..Len(c.subs) : c.subs[i].subs[1] = key
           /\ \A i \in 1..Len(c.subs) : c.subs[i].subs[1] = key => MapAt(c, key) = c.subs[i].subs[2]
           /\ ~MapContains(c, key) => MapAt(c, key) = Null
<1>1. \A i \in 1..Len(c.subs) : c.subs[i].subs[1] = key => MapFind(c, key) = i
  BY FoundWhere
<1>2. \A i \in 1..Len(c.subs) : i # 0
  BY SequenceFacts DEF InOrder
<1>3. \A i \in 1..Len(c.subs) : c.subs[i].subs[1] = key => MapContains(c, key)
  BY <1>1, <1>2 DEF MapContains
<1>4. MapContains(c, key) => \E i \in 1..Len(c.subs) : c.subs[i].subs[1] = key
  BY FoundWhere
<1> QED
  BY <1>1, <1>3, <1>4 DEF MapAt

(* Assigning (MapAssign, for Map.hxx and the [] of std::map) changes what  *)
(* a map gives for the key assigned to, and nothing else.                  *)
THEOREM AssignedReads ==
    ASSUME NEW K, Transitive(K), Separating(K), NEW c, WellMade(c), c.k = "map", InOrder(K, c.subs),
           NEW key \in K, NEW x, NEW d, d.subs = MapAssign(c, key, x).subs, NEW l \in K
    PROVE  /\ MapContains(d, l) <=> l = key \/ MapContains(c, l)
           /\ MapAt(d, l) = IF l = key THEN x ELSE MapAt(c, l)
<1>1. PICK s, t, n : s = c.subs /\ t = d.subs /\ n = Len(s) /\ n \in Nat /\ DOMAIN s = 1..n /\ IsSequence(s)
  BY SequenceFacts DEF InOrder
<1>2. InOrder(K, t)
  BY <1>1, MapsInOrder
<1>3. PICK y : y = IF l = key THEN x ELSE MapAt(c, l)
  OBVIOUS
<1>4. /\ MapContains(d, l) <=> \E i \in 1..Len(t) : t[i].subs[1] = l
      /\ \A i \in 1..Len(t) : t[i].subs[1] = l => MapAt(d, l) = t[i].subs[2]
      /\ ~MapContains(d, l) => MapAt(d, l) = Null
  BY <1>1, <1>2, EntriesFound
<1>5. /\ MapContains(c, l) <=> \E i \in 1..n : s[i].subs[1] = l
      /\ \A i \in 1..n : s[i].subs[1] = l => MapAt(c, l) = s[i].subs[2]
      /\ ~MapContains(c, l) => MapAt(c, l) = Null
  BY <1>1, EntriesFound
<1>6. \A k, v : Pair(k, v).subs[1] = k /\ Pair(k, v).subs[2] = v
  BY PairFields
<1>7. CASE MapContains(c, key)
  <2>1. PICK i \in 1..n : i = MapFind(c, key) /\ s[i].subs[1] = key
    BY <1>1, <1>7, FoundWhere
  <2>2. PICK z : z = Pair(key, x)
    OBVIOUS
  <2>3. t = [s EXCEPT ![i] = z]
    BY <1>1, <1>7, <2>1, <2>2 DEF MapAssign, Overwrite, Answer
  <2>4. Len(t) = n /\ \A j \in 1..n : t[j] = IF j = i THEN z ELSE s[j]
    BY <1>1, <2>3, OverwrittenSequence
  <2>5. z.subs[1] = key /\ z.subs[2] = x
    BY <1>6, <2>2
  <2>6. \A j \in 1..n : s[j].subs[1] = key => j = i
    BY <1>1, <2>1, FoundWhere
  <2>7. l = key \/ MapContains(c, l) => \E j \in 1..n : t[j].subs[1] = l /\ t[j].subs[2] = y
    <3>1. CASE l = key
      BY <1>3, <2>1, <2>4, <2>5, <3>1
    <3>2. CASE l # key /\ MapContains(c, l)
      <4>1. PICK j \in 1..n : s[j].subs[1] = l
        BY <1>5, <3>2
      <4>2. t[j] = s[j] /\ y = s[j].subs[2]
        BY <1>3, <1>5, <2>1, <2>4, <3>2, <4>1
      <4> QED
        BY <4>1, <4>2
    <3> QED
      BY <1>3, <3>1, <3>2
  <2>8. l # key /\ ~MapContains(c, l) => y = Null /\ \A j \in 1..n : t[j].subs[1] # l
    BY <1>3, <1>5, <2>4, <2>5
  <2> QED
    BY <1>3, <1>4, <2>4, <2>7, <2>8
<1>8. CASE ~MapContains(c, key)
  <2>1. PICK b \in 1..(n + 1) : b = LowerBound(c, key)
    <3>1. \E m \in 0..n : LowerBound(c, key) = m + 1
      BY <1>1, BoundFacts
    <3> QED
      BY <1>1, <3>1
  <2>2. PICK z : z = Pair(key, x)
    OBVIOUS
  <2>3. t = InsertAt(s, b, z)
    BY <1>1, <1>8, <2>1, <2>2 DEF MapAssign, Change, Overwrite, Answer
  <2>4. /\ Len(t) = n + 1
        /\ \A j \in 1..(n + 1) : t[j] = IF j < b THEN s[j] ELSE IF j = b THEN z ELSE s[j - 1]
    BY <1>1, <2>3, InsertSequence
  <2>5. z.subs[1] = key /\ z.subs[2] = x
    BY <1>6, <2>2
  <2>6. \A j \in 1..n : \E h \in 1..(n + 1) : t[h] = s[j]
    <3> SUFFICES ASSUME NEW j \in 1..n PROVE \E h \in 1..(n + 1) : t[h] = s[j]
      OBVIOUS
    <3>1. CASE j < b
      <4>1. j \in 1..(n + 1) /\ t[j] = s[j]
        BY <1>1, <2>4, <3>1
      <4> QED
        BY <4>1
    <3>2. CASE j >= b
      <4>1. j + 1 \in 1..(n + 1) /\ ~(j + 1 < b) /\ j + 1 # b /\ (j + 1) - 1 = j
        BY <1>1, <3>2
      <4>2. t[j + 1] = s[j]
        BY <2>4, <4>1
      <4> QED
        BY <4>1, <4>2
    <3> QED
      BY <1>1, <3>1, <3>2
  <2>7. \A h \in 1..(n + 1) : t[h] = z \/ \E j \in 1..n : t[h] = s[j]
    <3> SUFFICES ASSUME NEW h \in 1..(n + 1), h # b PROVE \E j \in 1..n : t[h] = s[j]
      BY <2>4
    <3>1. CASE h < b
      <4>1. h \in 1..n /\ t[h] = s[h]
        BY <1>1, <2>4, <3>1
      <4> QED
        BY <4>1
    <3>2. CASE h > b
      <4>1. h - 1 \in 1..n /\ ~(h < b)
        BY <1>1, <3>2
      <4>2. t[h] = s[h - 1]
        BY <2>4, <4>1
      <4> QED
        BY <4>1, <4>2
    <3> QED
      BY <1>1, <3>1, <3>2
  <2>8. l = key \/ MapContains(c, l) => \E j \in 1..(n + 1) : t[j].subs[1] = l /\ t[j].subs[2] = y
    <3>1. CASE l = key
      <4>1. t[b] = z /\ y = x
        BY <1>3, <2>1, <2>4, <3>1
      <4> QED
        BY <2>1, <2>5, <3>1, <4>1
    <3>2. CASE l # key /\ MapContains(c, l)
      <4>1. PICK j \in 1..n : s[j].subs[1] = l /\ y = s[j].subs[2]
        BY <1>3, <1>5, <3>2
      <4> QED
        BY <2>6, <4>1
    <3> QED
      BY <1>3, <3>1, <3>2
  <2>9. l # key /\ ~MapContains(c, l) => y = Null /\ \A j \in 1..(n + 1) : t[j].subs[1] # l
    BY <1>3, <1>5, <2>5, <2>7
  <2> QED
    BY <1>3, <1>4, <2>4, <2>8, <2>9
<1> QED
  BY <1>7, <1>8

(* Erasing a key (Map::erase) takes its entry away, and no other.          *)
THEOREM ErasedReads ==
    ASSUME NEW K, Transitive(K), Separating(K), NEW c, WellMade(c), c.k = "map", InOrder(K, c.subs),
           NEW key \in K, NEW d, d.subs = MapErase(c, key).subs, NEW l \in K
    PROVE  /\ MapContains(d, l) <=> l # key /\ MapContains(c, l)
           /\ MapAt(d, l) = IF l = key THEN Null ELSE MapAt(c, l)
<1>1. PICK s, t, n : s = c.subs /\ t = d.subs /\ n = Len(s) /\ n \in Nat /\ IsSequence(s)
  BY SequenceFacts DEF InOrder
<1>2. InOrder(K, t)
  BY <1>1, MapsInOrder
<1>3. /\ MapContains(d, l) <=> \E i \in 1..Len(t) : t[i].subs[1] = l
      /\ \A i \in 1..Len(t) : t[i].subs[1] = l => MapAt(d, l) = t[i].subs[2]
      /\ ~MapContains(d, l) => MapAt(d, l) = Null
  BY <1>1, <1>2, EntriesFound
<1>4. /\ MapContains(c, l) <=> \E i \in 1..n : s[i].subs[1] = l
      /\ \A i \in 1..n : s[i].subs[1] = l => MapAt(c, l) = s[i].subs[2]
      /\ ~MapContains(c, l) => MapAt(c, l) = Null
  BY <1>1, EntriesFound
<1>5. CASE MapContains(c, key)
  <2>1. PICK i \in 1..n : i = MapFind(c, key) /\ s[i].subs[1] = key
    BY <1>1, <1>5, FoundWhere
  <2>2. t = RemoveAt(s, i)
    BY <1>1, <1>5, <2>1 DEF MapErase, Change, Overwrite, Answer
  <2>3. /\ Len(t) = n - 1
        /\ \A j \in 1..(n - 1) : t[j] = IF j < i THEN s[j] ELSE s[j + 1]
    BY <1>1, <2>1, <2>2, RemoveSequence
  <2>4. \A j \in 1..n : s[j].subs[1] = key => j = i
    BY <1>1, <2>1, FoundWhere
  <2>5. \A j \in 1..n : j # i => \E h \in 1..(n - 1) : t[h] = s[j]
    <3> SUFFICES ASSUME NEW j \in 1..n, j # i PROVE \E h \in 1..(n - 1) : t[h] = s[j]
      OBVIOUS
    <3>1. CASE j < i
      <4>1. j \in 1..(n - 1) /\ t[j] = s[j]
        BY <1>1, <2>3, <3>1
      <4> QED
        BY <4>1
    <3>2. CASE j > i
      <4>1. j - 1 \in 1..(n - 1) /\ ~(j - 1 < i) /\ (j - 1) + 1 = j
        BY <1>1, <3>2
      <4>2. t[j - 1] = s[j]
        BY <2>3, <4>1
      <4> QED
        BY <4>1, <4>2
    <3> QED
      BY <1>1, <3>1, <3>2
  <2>6. \A h \in 1..(n - 1) : \E j \in 1..n : j # i /\ t[h] = s[j]
    <3> SUFFICES ASSUME NEW h \in 1..(n - 1) PROVE \E j \in 1..n : j # i /\ t[h] = s[j]
      OBVIOUS
    <3>1. CASE h < i
      <4>1. h \in 1..n /\ t[h] = s[h] /\ h # i
        BY <1>1, <2>3, <3>1
      <4> QED
        BY <4>1
    <3>2. CASE h >= i
      <4>1. h + 1 \in 1..n /\ ~(h < i) /\ h + 1 # i
        BY <1>1, <3>2
      <4>2. t[h] = s[h + 1]
        BY <2>3, <4>1
      <4> QED
        BY <4>1, <4>2
    <3> QED
      BY <1>1, <3>1, <3>2
  <2>7. l # key /\ MapContains(c, l) => \E h \in 1..(n - 1) : t[h].subs[1] = l /\ t[h].subs[2] = MapAt(c, l)
    <3> SUFFICES ASSUME l # key, MapContains(c, l)
                 PROVE  \E h \in 1..(n - 1) : t[h].subs[1] = l /\ t[h].subs[2] = MapAt(c, l)
      OBVIOUS
    <3>1. PICK j \in 1..n : s[j].subs[1] = l /\ s[j].subs[2] = MapAt(c, l) /\ j # i
      BY <1>4, <2>1
    <3> QED
      BY <2>5, <3>1
  <2>8. ~(l # key /\ MapContains(c, l)) => \A h \in 1..(n - 1) : t[h].subs[1] # l
    BY <1>4, <2>4, <2>6
  <2> QED
    BY <1>3, <1>4, <2>3, <2>7, <2>8
<1>6. CASE ~MapContains(c, key)
  <2>1. t = s
    BY <1>1, <1>6 DEF MapErase, Change, Overwrite, Answer
  <2>2. MapContains(c, l) => l # key
    BY <1>6
  <2> QED
    BY <1>1, <1>3, <1>4, <2>1, <2>2
<1> QED
  BY <1>5, <1>6

(* Merging (the member function merged) gives the entries of the first     *)
(* map, and for the other keys those of the second.                        *)
THEOREM MergedReads ==
    ASSUME NEW K, Transitive(K), Separating(K), NEW l, WellMade(l), l.k = "map", InOrder(K, l.subs),
           NEW r, InOrder(K, r.subs), NEW key \in K
    PROVE  /\ MapContains(Merged(l, r), key) <=> MapContains(l, key) \/ MapContains(r, key)
           /\ MapAt(Merged(l, r), key) = IF MapContains(l, key) THEN MapAt(l, key) ELSE MapAt(r, key)
<1>1. PICK n \in Nat : n = Len(r.subs) /\ IsSequence(r.subs) /\ \A i \in 1..n : r.subs[i].subs[1] \in K
  BY SequenceFacts DEF InOrder
<1>2. PICK f : IsMerge(l, r, n, f) /\ Merged(l, r) = f[n]
  BY <1>1, MergeExists, MergedIs
<1>3. \A k \in 0..n : f[k] = IF k = 0 THEN l ELSE MergeStep(l, r, k, f[k - 1])
  BY <1>2 DEF IsMerge
<1>4. PICK T : T = {k \in Nat : k \in 0..n =>
                      /\ WellMade(f[k]) /\ f[k].k = "map" /\ InOrder(K, f[k].subs)
                      /\ MapContains(f[k], key) <=>
                            MapContains(l, key) \/ \E i \in 1..k : r.subs[i].subs[1] = key
                      /\ MapContains(l, key) => MapAt(f[k], key) = MapAt(l, key)
                      /\ ~MapContains(l, key) =>
                            \A i \in 1..k : r.subs[i].subs[1] = key => MapAt(f[k], key) = r.subs[i].subs[2]}
  OBVIOUS
<1>5. ASSUME NEW k \in Nat, \A j \in 0..(k - 1) : j \in T
      PROVE  k \in T
  <2>1. CASE k = 0 \/ k > n
    BY <1>3, <1>4, <2>1
  <2>2. CASE k # 0 /\ k \in 0..n
    <3>1. PICK m : /\ m = f[k - 1] /\ WellMade(m) /\ m.k = "map" /\ InOrder(K, m.subs)
                   /\ MapContains(m, key) <=>
                         MapContains(l, key) \/ \E i \in 1..(k - 1) : r.subs[i].subs[1] = key
                   /\ MapContains(l, key) => MapAt(m, key) = MapAt(l, key)
                   /\ ~MapContains(l, key) =>
                         \A i \in 1..(k - 1) : r.subs[i].subs[1] = key => MapAt(m, key) = r.subs[i].subs[2]
      BY <1>4, <1>5, <2>2
    <3>2. f[k] = MergeStep(l, r, k, m)
      BY <1>3, <2>2, <3>1
    <3>3. PICK q, v : q = r.subs[k].subs[1] /\ v = r.subs[k].subs[2] /\ q \in K
      <4>1. k \in 1..n
        BY <2>2
      <4>2. r.subs[k].subs[1] \in K
        BY <1>1, <4>1
      <4> QED
        BY <4>2
    <3>4. \A i \in 1..k : i = k \/ i \in 1..(k - 1)
      BY <2>2
    <3>5. CASE MapContains(l, q)
      <4>1. f[k] = m
        BY <3>2, <3>3, <3>5 DEF MergeStep
      <4>2. MapContains(m, key) <=> MapContains(l, key) \/ \E i \in 1..k : r.subs[i].subs[1] = key
        BY <2>2, <3>1, <3>3, <3>4, <3>5
      <4>3. ~MapContains(l, key) =>
              \A i \in 1..k : r.subs[i].subs[1] = key => MapAt(m, key) = r.subs[i].subs[2]
        BY <3>1, <3>3, <3>4, <3>5
      <4> QED
        BY <1>4, <3>1, <4>1, <4>2, <4>3
    <3>6. CASE ~MapContains(l, q)
      <4>1. PICK o : /\ o = MapAssign(m, q, v)
                     /\ IsSequence(o.subs) /\ InOrder(K, o.subs)
        BY <3>1, <3>3, MapsSound, MapsInOrder DEF Sound
      <4>2. PICK d : d = Container("map", o.subs) /\ WellMade(d) /\ d.k = "map" /\ d.subs = o.subs
        BY <4>1, NewWellMade
      <4>3. f[k] = d
        BY <3>2, <3>3, <3>6, <4>1, <4>2 DEF MergeStep
      <4>4. /\ MapContains(d, key) <=> key = q \/ MapContains(m, key)
            /\ MapAt(d, key) = IF key = q THEN v ELSE MapAt(m, key)
        <5>1. d.subs = MapAssign(m, q, v).subs
          BY <4>1, <4>2
        <5> QED
          BY <3>1, <3>3, <5>1, AssignedReads
      <4>5. MapContains(d, key) <=> MapContains(l, key) \/ \E i \in 1..k : r.subs[i].subs[1] = key
        BY <2>2, <3>1, <3>3, <3>4, <4>4
      <4>6. MapContains(l, key) => MapAt(d, key) = MapAt(l, key)
        BY <3>1, <3>6, <4>4
      <4>7. ~MapContains(l, key) =>
              \A i \in 1..k : r.subs[i].subs[1] = key => MapAt(d, key) = r.subs[i].subs[2]
        <5> SUFFICES ASSUME ~MapContains(l, key), NEW i \in 1..k, r.subs[i].subs[1] = key
                     PROVE  MapAt(d, key) = r.subs[i].subs[2]
          OBVIOUS
        <5>1. CASE i = k
          BY <3>3, <4>4, <5>1
        <5>2. CASE i \in 1..(k - 1)
          <6>1. i < k /\ k \in 1..n /\ i \in 1..n
            BY <2>2, <5>2
          <6>2. q # key
            <7>1. StrictOrder(r.subs[i].subs[1], r.subs[k].subs[1]) = -1
              BY <1>1, <6>1 DEF InOrder
            <7> QED
              BY <3>3, <7>1 DEF Separating
          <6> QED
            BY <3>1, <4>4, <5>2, <6>2
        <5> QED
          BY <3>4, <5>1, <5>2
      <4> QED
        BY <1>4, <4>1, <4>2, <4>3, <4>5, <4>6, <4>7
    <3> QED
      BY <3>5, <3>6
  <2> QED
    BY <2>1, <2>2
<1>6. T = Nat
  BY <1>4, <1>5, Induction
<1>7. PICK m : /\ m = f[n]
               /\ MapContains(m, key) <=>
                     MapContains(l, key) \/ \E i \in 1..n : r.subs[i].subs[1] = key
               /\ MapContains(l, key) => MapAt(m, key) = MapAt(l, key)
               /\ ~MapContains(l, key) =>
                     \A i \in 1..n : r.subs[i].subs[1] = key => MapAt(m, key) = r.subs[i].subs[2]
               /\ InOrder(K, m.subs)
  BY <1>4, <1>6
<1>8. /\ MapContains(r, key) <=> \E i \in 1..n : r.subs[i].subs[1] = key
      /\ \A i \in 1..n : r.subs[i].subs[1] = key => MapAt(r, key) = r.subs[i].subs[2]
      /\ ~MapContains(r, key) => MapAt(r, key) = Null
  BY <1>1, EntriesFound
<1>9. ~MapContains(m, key) => MapAt(m, key) = Null
  BY <1>7, EntriesFound
<1> QED
  BY <1>2, <1>7, <1>8, <1>9
=============================================================================
