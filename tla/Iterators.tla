----------------------------- MODULE Iterators -----------------------------
(***************************************************************************)
(* Containers on the heap and the iterators over them (ltnvm/objects/iter, *)
(* ltnvm/build_in/iter.cxx), used in any order by one script: it calls     *)
(* next on an iterator between two changes of the container, wraps one     *)
(* iterator in another and goes on using the inner one, or changes an      *)
(* array from the callback of one of the array's own member functions.     *)
(*                                                                         *)
(* heap[a] is the container with address a and version[a] its version.     *)
(* iters[i] is an iterator: what it iterates over (the address of a        *)
(* container, or the numbers of other iterators), where it is and the      *)
(* version it was made for.  A coroutine is the sequence of the values it  *)
(* is going to yield, at least one; the iterator keeps how many it took.   *)
(*                                                                         *)
(* loop is the running callback loop of an array member function.  Any     *)
(* other step may be one of the callback.                                  *)
(*                                                                         *)
(* crashed tells that the process has ended.  history is not in the        *)
(* program: how often a container has changed its shape, at what count an  *)
(* iterator was made, and how many elements next has taken from it; an     *)
(* iterator is pristine while nothing but its next has moved it.           *)
(***************************************************************************)
EXTENDS Collections, FiniteSets

CONSTANTS
    Programs,         \* the containers a program makes first: a set of sequences
    Elements,         \* what it writes into them
    Indices,          \* the keys and indices it uses
    MemberIds,        \* the members of structs
    Ranges,           \* <<begin, end, step>> of std::range
    Amounts,          \* the amounts of std::iter::move
    Quirks,           \* subset of {"map_put"}: see WriteInto
    MaxObjects, MaxSize, MaxVersion, Reach

\* The containers a program begins with are made as the code makes them.
ASSUME ProgramsAssumption ==
    /\ MaxVersion \in Nat /\ Reach \in Nat /\ Amounts \subseteq Int
    /\ \A k \in Indices : k.n \in Int
    /\ \A p \in Programs : IsSequence(p) /\ \A a \in DOMAIN p : WellMade(p[a])

VARIABLES heap, version, iters, loop, crashed, history
code == <<heap, version, iters, loop, crashed>>
vars == <<code, history>>

Stop == Scalar("stop", 0)
Crash == Raise("crash")             \* the process ends
NoLoop == [of |-> 0, form |-> "none", pos |-> 0, end |-> 0, edits |-> 0]

Iterator(form, of) ==
    [form |-> form, of |-> of, index |-> 0, version |-> 0, begin |-> 0, end |-> 0, step |-> 0]
Over(form, a) == [Iterator(form, <<a>>) EXCEPT !.version = version[a]]
RangeOver(begin, end, step) ==
    [Iterator("range", <<>>) EXCEPT !.index = begin, !.begin = begin, !.end = end, !.step = step]

\* The containers iterator::wrap makes iterators for, and the iterator's form.
FormOf(k) ==
    CASE k \in {"array", "tuple"} -> "contiguous"
      [] k \in {"string", "map", "coroutine"} -> k
      [] OTHER -> "none"

\* The iterators that one is wrapped around.
Wraps(it) == it.form \in {"reversed", "combined"}
Inner(it) == IF Wraps(it) THEN it.of ELSE <<>>

Stale(it) == it.form \in {"contiguous", "map"} /\ it.version # version[it.of[1]]

(***************************************************************************)
(* get.                                                                    *)
(***************************************************************************)
InRange(it) ==
    IF it.begin <= it.end THEN it.index >= it.begin /\ it.index < it.end
    ELSE it.index <= it.begin /\ it.index > it.end

IsElement(v) == ~IsFailure(v) /\ v # Stop

First(positions) == CHOOSE j \in positions : \A k \in positions : j <= k

\* The value of an iterator, from the values of those it wraps.
Value(it, inner) ==
    LET c == heap[it.of[1]]
        bad == {j \in DOMAIN inner : ~IsElement(inner[j])}
    IN CASE it.form \in {"contiguous", "map", "string"} ->
              IF Stale(it) THEN OutOfRange
              ELSE IF it.index \notin 0..(Len(c.subs) - 1) THEN Stop
              ELSE IF it.form = "map" THEN Container("tuple", c.subs[it.index + 1].subs)
              ELSE c.subs[it.index + 1]
         [] it.form = "coroutine" ->
              IF it.index = Len(c.subs) THEN Stop ELSE c.subs[it.index + 1]
         [] it.form = "range" -> IF InRange(it) THEN Integer(it.index) ELSE Stop
         [] it.form = "reversed" -> inner[1]
         [] it.form = "combined" ->
              IF bad = {} THEN Container("tuple", inner) ELSE inner[First(bad)]
Got(its) ==
    LET got[i \in DOMAIN its] ==
            Value(its[i], [j \in DOMAIN Inner(its[i]) |-> got[Inner(its[i])[j]]])
    IN got
Get(its, i) == Got(its)[i]

(***************************************************************************)
(* size.  The length of a range with step 0 divides by zero.               *)
(***************************************************************************)
RangeSizeSignless(it) ==           \* Slip: a step the wrong way is not noticed.
    LET diff == it.end - it.begin
    IN IF it.step = 0 THEN Crash
       ELSE Integer(Quot(diff, it.step) + (IF Rem(Abs(diff), it.step) # 0 THEN 1 ELSE 0))
RangeSize(it) ==
    LET diff == it.end - it.begin
    IN IF (it.step < 0) # (diff < 0) THEN Integer(IF diff # 0 THEN 1 ELSE 0)
       ELSE IF it.step = 0 THEN Crash
       ELSE Integer(Quot(diff, it.step) + (IF Rem(Abs(diff), it.step) # 0 THEN 1 ELSE 0))

Size(it, inner) ==
    LET sizes == {inner[j] : j \in DOMAIN inner}
    IN CASE it.form \in {"contiguous", "map", "string"} -> Integer(Len(heap[it.of[1]].subs))
         [] it.form = "coroutine" -> Integer(0)
         [] it.form = "range" -> RangeSize(it)
         [] it.form = "reversed" -> inner[1]
         [] it.form = "combined" ->
              IF it.of = <<>> THEN Integer(0)
              ELSE IF Crash \in sizes THEN Crash
              ELSE CHOOSE s \in sizes : \A u \in sizes : s.n <= u.n
IterSize(its, i) ==
    LET size[k \in DOMAIN its] ==
            Size(its[k], [j \in DOMAIN Inner(its[k]) |-> size[Inner(its[k])[j]]])
    IN size[i]

(***************************************************************************)
(* move: the possible outcomes, as the iterators afterwards and Null or    *)
(* what was thrown.  std::advance past an end of a std::map is undefined:  *)
(* on an empty map it ends the process, otherwise it finds some entry or   *)
(* the end.  Moving a coroutine past its end throws a std::runtime_error   *)
(* that nothing catches.                                                   *)
(***************************************************************************)
At0(its, i, index, thrown) ==
    [iters |-> [its EXCEPT ![i].index = index], thrown |-> thrown]

\* One that wraps no other.
MovedAlone(its, i, n) ==
    LET it == its[i]
        size == Len(heap[it.of[1]].subs)
    IN CASE Stale(it) -> {At0(its, i, it.index, OutOfRange)}
         [] ~Stale(it) /\ it.form \in {"contiguous", "string"} -> {At0(its, i, it.index + n, Null)}
         [] ~Stale(it) /\ it.form = "map" ->
              IF it.index + n \in 0..size THEN {At0(its, i, it.index + n, Null)}
              ELSE IF size = 0 THEN {At0(its, i, it.index, Crash)}
              ELSE {At0(its, i, p, Null) : p \in 0..size}
         [] it.form = "coroutine" ->
              IF n <= 0 THEN {At0(its, i, it.index, Null)}
              ELSE IF it.index + n <= size THEN {At0(its, i, it.index + n, Null)}
              ELSE {At0(its, i, size, Crash)}
         [] OTHER -> {At0(its, i, it.index + n * it.step, Null)}

\* What a move of an iterator moves, in this order, and which way: a reversed
\* iterator moves its inner one backwards, a combined one all of its own.
Backwards(moves) == [k \in DOMAIN moves |-> [moves[k] EXCEPT !.by = -@]]
MovesOf(it, i, inner) ==
    CASE it.form = "reversed" -> Backwards(inner[1])
      [] it.form = "combined" -> FlattenSeq(inner)
      [] OTHER -> <<[at |-> i, by |-> 1]>>
AllMoves(its) ==
    LET moves[i \in DOMAIN its] ==
            MovesOf(its[i], i, [j \in DOMAIN Inner(its[i]) |-> moves[Inner(its[i])[j]]])
    IN moves
Moves(its, i) == AllMoves(its)[i]

\* One after the other, until one throws.
MovedOn(o, move, n) ==
    IF o.thrown # Null THEN {o} ELSE MovedAlone(o.iters, move.at, n * move.by)
Moved(its, i, n) ==
    LET moves == Moves(its, i)
        after[k \in 0..Len(moves)] ==
            IF k = 0 THEN {[iters |-> its, thrown |-> Null]}
            ELSE UNION {MovedOn(o, moves[k], n) : o \in after[k - 1]}
    IN after[Len(moves)]

\* next: the value of get, then a move by one.  Only a reversed iterator moves
\* on from its end.
Next1(its, i) ==
    LET v == Get(its, i)
    IN IF IsFailure(v) \/ (v = Stop /\ its[i].form # "reversed")
       THEN {[iters |-> its, thrown |-> Null, value |-> v]}
       ELSE {[iters |-> o.iters, thrown |-> o.thrown, value |-> IF o.thrown = Null THEN v ELSE o.thrown] :
                o \in Moved(its, i, 1)}

(***************************************************************************)
(* History.                                                                *)
(***************************************************************************)
Belows(its) ==
    LET below[k \in DOMAIN its] ==
            {k} \cup UNION {below[Inner(its[k])[j]] : j \in DOMAIN Inner(its[k])}
    IN below
Below(its, i) == Belows(its)[i]
Touching(its, i) == {j \in DOMAIN its : Below(its, i) \cap Below(its, j) # {}}

\* What adding and removing elements change; nothing iterates over a struct.
Shape(c) == IF c.k = "map" THEN KeysOf(c) ELSE IF c.k = "struct" THEN <<>> ELSE DOMAIN c.subs
Edited(a) == a \in DOMAIN heap /\ Shape(heap'[a]) # Shape(heap[a])
RecordEdits ==
    [a \in DOMAIN heap' |->
        IF a \notin DOMAIN heap THEN 0
        ELSE history.edits[a] + (IF Edited(a) THEN 1 ELSE 0)]
Recorded(taken, pristine, made) ==
    history' = [edits |-> RecordEdits,
                taken |-> [i \in DOMAIN taken |-> IF pristine[i] THEN taken[i] ELSE 0],
                pristine |-> pristine, made |-> made]
SameIterators == iters' = iters /\ Recorded(history.taken, history.pristine, history.made)

\* The inner iterators of a new one are untouched and do not share anything.
Untouched(of) ==
    /\ \A j \in DOMAIN of : history.pristine[of[j]] /\ history.taken[of[j]] = 0
    /\ \A j, k \in DOMAIN of : j # k => Below(iters, of[j]) \cap Below(iters, of[k]) = {}

(***************************************************************************)
(* Making containers and changing them.                                    *)
(***************************************************************************)
Init ==
    /\ heap \in Programs /\ version = [a \in DOMAIN heap |-> 0] /\ iters = <<>>
    /\ loop = NoLoop /\ crashed = FALSE
    /\ history = [edits |-> version, taken |-> <<>>, pristine |-> <<>>, made |-> <<>>]

\* At most MaxObjects containers, iterators and loops.
Room == Len(heap) + Len(iters) + (IF loop = NoLoop THEN 0 ELSE 1) < MaxObjects
New(c, v) ==
    /\ Room
    /\ heap' = Append(heap, c) /\ version' = Append(version, v)
    /\ UNCHANGED <<loop, crashed>> /\ SameIterators

Apply(a, o) ==
    /\ Len(o.subs) <= MaxSize
    /\ o.bumped => version[a] < MaxVersion
    /\ heap' = [heap EXCEPT ![a].subs = o.subs, ![a].ids = o.ids]
    /\ version' = [version EXCEPT ![a] = @ + (IF o.bumped THEN 1 ELSE 0)]
    /\ UNCHANGED <<loop, crashed>> /\ SameIterators

\* The functions that make a container out of others.
Derived(a) ==
    LET c == heap[a]
    IN CASE c.k = "map" ->
              {MapKeys(c), MapValues(c)} \cup {Merged(c, heap[b]) : b \in {b \in DOMAIN heap : heap[b].k = "map"}}
         [] c.k = "array" -> {Reversed(c)} \cup ({Prefix(c, 1), Suffix(c, 1)} \ {OutOfRange})
         [] c.k \in {"tuple", "queue", "stack"} -> {Container("array", c.subs)}
         [] OTHER -> {}
Derive(a) == \E c \in Derived(a) : New(c, 0)
\* std::clone copies the version with the elements.
CloneContainer(a) == heap[a].k # "coroutine" /\ New(heap[a], version[a])

PushTo(a, x) ==
    \E o \in {Push(heap[a], x), InsertFront(heap[a], x), InsertBack(heap[a], x)} : Apply(a, o)
PopFrom(a) ==
    \E o \in {Pop(heap[a]), RemoveFront(heap[a]), RemoveBack(heap[a])} : Apply(a, o)
InsertInto(a, key, x) ==
    \/ Apply(a, Insert(heap[a], key, x))
    \/ heap[a].k = "array" /\ Apply(a, MemberInsert(heap[a], key.n, x))
RemoveFrom(a, key) ==
    \/ Apply(a, RemoveKey(heap[a], key))
    \/ heap[a].k = "array" /\ Apply(a, MemberErase(heap[a], key.n))
    \/ heap[a].k = "map" /\ Apply(a, MapMemberErase(heap[a], key))
\* Quirk map_put: the plugin interface adds new keys to a map as well.
WriteInto(a, key, x) ==
    \/ Apply(a, AtWrite(heap[a], key, x))
    \/ heap[a].k = "array" /\ Apply(a, PluginArrayPut(heap[a], key.n, x))
    \/ /\ heap[a].k = "map"
       /\ "map_put" \in Quirks \/ MapContains(heap[a], key)
       /\ Apply(a, PluginMapPut(heap[a], key, x))
Rearrange(a, x) ==
    /\ heap[a].k = "array"
    /\ \/ \E o \in Sorted(heap[a], -1) \cup Sorted(heap[a], 1) : Apply(a, o)
       \/ Apply(a, ReverseInPlace(heap[a]))
       \/ Apply(a, Fill(heap[a], x))
WriteMember(a, id, x) == heap[a].k = "struct" /\ Apply(a, MemberWrite(heap[a], id, x))

(***************************************************************************)
(* Making and using iterators.                                             *)
(***************************************************************************)
Within(its) == \A i \in DOMAIN its : its[i].index \in -Reach..Reach
Undisturbed(i) == [j \in DOMAIN iters |-> history.pristine[j] /\ j \notin Touching(iters, i)]
NewIterator(its, it, taken, pristine) ==
    /\ Room /\ Within(its)
    /\ UNCHANGED <<heap, version, loop, crashed>>
    /\ iters' = Append(its, it)
    /\ Recorded(Append(history.taken, taken), pristine,
                Append(history.made, history.edits))

MovedTo(its, taken, pristine) ==
    /\ Within(its) /\ UNCHANGED <<heap, version, loop, crashed>>
    /\ iters' = its /\ Recorded(taken, pristine, history.made)
Die == crashed' = TRUE /\ UNCHANGED <<heap, version, loop>> /\ SameIterators

Iter(a) ==
    /\ FormOf(heap[a].k) # "none"
    /\ NewIterator(iters, Over(FormOf(heap[a].k), a), 0, Append(history.pristine, TRUE))
RangeIter(begin, end, step) ==
    /\ NewIterator(iters, RangeOver(begin, end, step), 0, Append(history.pristine, step # 0))
Combined(of) ==
    /\ NewIterator(iters, Iterator("combined", of), 0,
                   Append(history.pristine, Untouched(of)))
\* The constructor of ReversedIterator moves the iterator it is given to its
\* last element, if that does not throw.
ReverseIter(i) ==
    LET size == IterSize(iters, i)
    IN IF size = Crash THEN Die
       ELSE \E o \in Moved(iters, i, size.n - 1) :
                \/ o.thrown = Crash /\ Die
                \/ /\ o.thrown = Null
                   /\ NewIterator(o.iters, Iterator("reversed", <<i>>), 0,
                                  Append(Undisturbed(i), Untouched(<<i>>)))
                \/ /\ o.thrown \notin {Null, Crash}
                   /\ MovedTo(o.iters, history.taken, Undisturbed(i))
\* clone copies the pointers to the inner iterators.
CloneIter(i) ==
    /\ NewIterator(iters, iters[i], history.taken[i],
                   Append(history.pristine, history.pristine[i]))

NextOf(i) ==
    /\ history.taken[i] < Reach
    /\ \E o \in Next1(iters, i) :
          IF o.thrown = Crash THEN Die
          ELSE MovedTo(o.iters,
                       [history.taken EXCEPT ![i] = @ + (IF IsElement(o.value) THEN 1 ELSE 0)],
                       [j \in DOMAIN iters |->
                           history.pristine[j] /\ (j = i \/ j \notin Touching(iters, i))])

MoveBy(i, n) ==
    \E o \in Moved(iters, i, n) :
        IF o.thrown = Crash THEN Die ELSE MovedTo(o.iters, history.taken, Undisturbed(i))

(***************************************************************************)
(* The callback loops of array.cxx: filter, transform, any, all, none and  *)
(* has go through the vector by pointers, reduce by an index.  Between the *)
(* steps the callback runs for the element before pos; it may do anything, *)
(* and throw.  any, all and has may end at every element.                  *)
(***************************************************************************)
\* reduce takes two elements for its first callback.
FirstTaken(form) == IF form = "indexed" THEN 2 ELSE 1
StartLoop(a, form) ==
    /\ loop = NoLoop /\ Room /\ heap[a].k = "array"
    /\ FirstTaken(form) <= Len(heap[a].subs)
    /\ loop' = [of |-> a, form |-> form, pos |-> FirstTaken(form) + 1, end |-> Len(heap[a].subs),
                edits |-> history.edits[a]]
    /\ UNCHANGED <<heap, version, crashed>> /\ SameIterators

LoopGoesOn ==
    IF loop.form = "indexed" THEN loop.pos <= Len(heap[loop.of].subs) ELSE loop.pos <= loop.end
\* A vector that has changed its size may have moved its elements elsewhere.
InsideVector ==
    /\ loop.pos <= Len(heap[loop.of].subs)
    /\ loop.form = "indexed" \/ history.edits[loop.of] = loop.edits
LoopStep ==
    /\ loop # NoLoop
    /\ \/ LoopGoesOn /\ loop' = [loop EXCEPT !.pos = @ + 1]
       \/ loop' = NoLoop
    /\ UNCHANGED <<heap, version, crashed>> /\ SameIterators

ContainerStep ==
    \E a \in DOMAIN heap :
          \/ Derive(a) \/ CloneContainer(a) \/ PopFrom(a)
          \/ \E x \in Elements :
                \/ PushTo(a, x) \/ Rearrange(a, x)
                \/ \E id \in MemberIds : WriteMember(a, id, x)
                \/ \E key \in Indices : InsertInto(a, key, x) \/ WriteInto(a, key, x)
          \/ \E key \in Indices : RemoveFrom(a, key)

IteratorStep ==
    \/ \E a \in DOMAIN heap : Iter(a)
    \/ \E r \in Ranges : RangeIter(r[1], r[2], r[3])
    \/ \E i, j \in DOMAIN iters : Combined(<<i, j>>)
    \/ \E i \in DOMAIN iters :
          \/ ReverseIter(i) \/ CloneIter(i) \/ NextOf(i)
          \/ \E n \in Amounts : MoveBy(i, n)

LoopSteps ==
    \/ \E a \in DOMAIN heap, form \in {"range", "indexed"} : StartLoop(a, form)
    \/ LoopStep

Next == ~crashed /\ (ContainerStep \/ IteratorStep \/ LoopSteps)
Spec == Init /\ [][Next]_vars

(***************************************************************************)
(* Properties.                                                             *)
(***************************************************************************)
\* What the iterators and containers are: an iterator is made of addresses and
\* of the numbers of older iterators, and a struct has as many values as
\* members, each of them once, whatever was written to it.
TypeOK ==
    /\ DOMAIN version = DOMAIN heap /\ \A a \in DOMAIN heap : version[a] \in 0..MaxVersion
    /\ \A i \in DOMAIN iters : \A j \in DOMAIN iters[i].of :
          iters[i].of[j] \in IF Wraps(iters[i]) THEN 1..(i - 1) ELSE DOMAIN heap
    /\ \A a \in DOMAIN heap : WellMade(heap[a])

\* The entries of a map are in the strict order of their keys, each key once,
\* whichever entry points have put them there and taken them out (Map.hxx).
MapsOrdered ==
    \A a \in DOMAIN heap :
        heap[a].k = "map" =>
           LET keys == KeysOf(heap[a])
           IN \A i, j \in DOMAIN keys : i < j => StrictOrder(keys[i], keys[j]) = -1

\* The keys a script may use: those it writes and those it begins with.
Keys ==
    Indices \cup UNION {UNION {{p[a].subs[i].subs[1] : i \in DOMAIN p[a].subs} :
                                  a \in {b \in DOMAIN p : p[b].k = "map"}} : p \in Programs}

\* The maps a script begins with have been filled by the functions below.
ProgramsInOrder ==
    \A p \in Programs : \A a \in DOMAIN p : p[a].k = "map" => InOrder(Keys, p[a].subs)

\* A container, with the entries of a map, contains values that are neither
\* the stop nor a failure, as what a script begins with and writes does: at a
\* stop among the elements of an array its iterators end.
Plain(c) ==
    c.k # "struct" =>
        \A i \in 1..Len(c.subs) :
            IF c.k = "map" THEN IsElement(c.subs[i].subs[1]) /\ IsElement(c.subs[i].subs[2])
            ELSE IsElement(c.subs[i])
PlainPrograms ==
    /\ \A x \in Elements \cup Indices : IsElement(x)
    /\ \A p \in Programs : \A a \in DOMAIN p : Plain(p[a])
\* The ranges are of numbers, and the integers count their elements.
RangesFit ==
    \A r \in Ranges :
        /\ r[1] \in Int /\ r[2] \in Int /\ r[3] \in Int
        /\ \A n \in 0..Abs(r[2] - r[1]) : Integer(n) = Scalar("int", n)

\* IterationInvalidation.md: an iterator gives no element of a container that
\* elements have been added to or removed from since the iterator was made,
\* whichever entry point did it, also through the iterators around it.
NoStaleElement ==
    \A i \in DOMAIN iters :
        IsElement(Get(iters, i)) =>
        \A j \in Below(iters, i) :
            iters[j].form \in {"contiguous", "map"} =>
                LET a == iters[j].of[1] IN history.edits[a] = history.made[j][a]

\* The elements of an iterator, stated without the iterator's own arithmetic.
RangeElements(it) ==
    LET between(n) == IF it.begin <= it.end THEN n >= it.begin /\ n < it.end
                      ELSE n <= it.begin /\ n > it.end
        count == CHOOSE m \in 0..(Abs(it.end - it.begin)) :
                    ~between(it.begin + m * it.step) /\ \A l \in 0..(m - 1) : between(it.begin + l * it.step)
    IN [m \in 1..count |-> Integer(it.begin + (m - 1) * it.step)]
ElementsGiven(it, inner) ==
    LET shortest == CHOOSE n \in {Len(inner[j]) : j \in DOMAIN inner} :
                        \A j \in DOMAIN inner : n <= Len(inner[j])
    IN CASE it.form \in {"contiguous", "string", "coroutine"} -> heap[it.of[1]].subs
         [] it.form = "map" ->
              [n \in DOMAIN heap[it.of[1]].subs |-> Container("tuple", heap[it.of[1]].subs[n].subs)]
         [] it.form = "range" -> RangeElements(it)
         [] it.form = "reversed" -> Reverse(inner[1])
         [] it.form = "combined" ->
              [n \in 1..shortest |-> Container("tuple", [j \in DOMAIN inner |-> inner[j][n]])]
ElementsOf(i) ==
    LET elements[k \in DOMAIN iters] ==
            ElementsGiven(iters[k], [j \in DOMAIN Inner(iters[k]) |-> elements[Inner(iters[k])[j]]])
    IN elements[i]

\* Reversing works on iterators that can move back beyond their first element
\* and know their size: not on maps and coroutines, and not on a range that
\* runs against its step.
Reversible(i) ==
    \A j \in Below(iters, i) :
        LET it == iters[j]
        IN /\ it.form \notin {"map", "coroutine"}
           /\ it.form = "range" => (it.step < 0) = (it.end < it.begin)
Orderly(i) == \A j \in Below(iters, i) : iters[j].form = "reversed" => Reversible(j)

\* What next and get return when so many have been taken.
Comes(elements, taken) == IF taken < Len(elements) THEN elements[taken + 1] ELSE Stop
Fresh(i) == ~\E j \in Below(iters, i) : Stale(iters[j])
\* While a loop does nothing but call next on an iterator (and get), it is
\* given every element once, in order or, reversed, in the reverse order, and
\* then the stop; and size tells beforehand how many there are.
TraversalsComplete ==
    \A i \in DOMAIN iters :
        history.pristine[i] /\ Orderly(i) /\ Fresh(i) =>
            LET elements == ElementsOf(i)
            IN /\ Get(iters, i) = Comes(elements, history.taken[i])
               /\ history.taken[i] = 0 /\ (\A j \in Below(iters, i) : iters[j].form # "coroutine") =>
                     IterSize(iters, i) = Integer(Len(elements))

Same(o, p) == o.value = p.value /\ o.subs = p.subs
Offsets == {k \in Indices : k.k = "int" /\ k.n >= 0}

ArrayEndsAgree(c) ==
    /\ FrontOf(c).value = At(c, Integer(0)) /\ BackOf(c).value = At(c, Integer(-1))
    /\ Same(Pop(c), [Peek(c) EXCEPT !.subs = RemoveBack(c).subs])
    /\ Same(MemberFront(c), FrontOf(c)) /\ Same(MemberBack(c), BackOf(c))
ArrayOffsetsAgree(c) ==
    \A k \in Offsets :
        /\ MemberAt(c, k.n) = At(c, k)
        /\ MemberErase(c, k.n).subs = RemoveKey(c, k).subs
        /\ MemberErase(c, k.n).value = At(c, k)
        /\ \A x \in Elements : Same(AtWrite(c, k, x), PluginArrayPut(c, k.n, x))
\* insert takes the empty array as the code does, not as array.md says (see
\* InsertThrowsIfEmpty).
ArrayAdditionsAgree(c) ==
    \A x \in Elements :
        /\ Same(Push(c, x), Insert(c, Integer(Len(c.subs)), x))
        /\ Same(Push(c, x), Insert(c, Integer(-1), x))
        /\ Same(InsertFront(c, x), MemberInsert(c, 0, x))
ArraySearchesAgree(c) ==
    \A x \in Elements :
        /\ (FindIn(c, x) = Null) = (MemberHas(c, x).n = 0)
        /\ FindIn(c, x) # Null => Order(At(c, FindIn(c, x)), x) = 0
ArrayPartsAgree(c) ==
    LET size == Len(c.subs)
    IN /\ Slice(c, 0, size).subs = c.subs
       /\ \A n \in 0..size : Prefix(c, n).subs \o Suffix(c, size - n).subs = c.subs
TupleOffsetsAgree(c) ==
    \A k \in Offsets : MemberAt(c, k.n) = At(c, k) /\ PluginTupleAt(c, k.n) = At(c, k)
MapLookupsAgree(c) ==
    \A k \in Indices :
        /\ Contained(c, k) = Boolean(\E i \in 1..Len(c.subs) : MapKeys(c).subs[i] = k)
        /\ RemoveKey(c, k).subs = MapMemberErase(c, k).subs
        /\ MapMemberErase(c, k).value = At(c, k)
        /\ ~MapContains([c EXCEPT !.subs = RemoveKey(c, k).subs], k)
FirstMapWins(c, d) ==
    \A k \in Indices : At(Merged(c, d), k) = At(IF MapContains(c, k) THEN c ELSE d, k)

\* The build-in functions, the index instructions, the member functions and
\* the plugin interface agree on what the first, the last and the indexed
\* element of a container are, for the indices all of them take; merging keeps
\* the entries of the first map.
\* Iterators change no container, so the states without any show them all.
EntryPointsAgree ==
    iters = <<>> /\ loop = NoLoop => \A a \in DOMAIN heap :
        LET c == heap[a]
        IN /\ c.k = "array" =>
                 /\ ArrayEndsAgree(c) /\ ArrayOffsetsAgree(c) /\ ArrayAdditionsAgree(c)
                 /\ ArraySearchesAgree(c) /\ ArrayPartsAgree(c)
           /\ c.k = "tuple" => TupleOffsetsAgree(c)
           /\ c.k \in {"queue", "stack"} => Peek(c).value = Pop(c).value
           /\ c.k = "map" =>
                 /\ MapLookupsAgree(c)
                 /\ \A b \in DOMAIN heap : heap[b].k = "map" => FirstMapWins(c, heap[b])

\* array.md: insert throws on an empty array.  Array::insert lacks the test.
InsertThrowsIfEmpty ==
    \A a \in DOMAIN heap, x \in Elements :
        heap[a].k = "array" /\ heap[a].subs = <<>> => MemberInsert(heap[a], 0, x).value = OutOfRange

\* array.md: filter, transform, reduce, any, all and none call f for elements of
\* the array.  They hand over what lies in its vector, also when a callback has
\* changed its size: the loops by pointers then read memory without elements.
CallbacksGetElements == loop # NoLoop /\ LoopGoesOn => InsideVector

\* struct.md: a member that does not exist behaves as null.  A member that
\* null was written to reads as null, whatever was written before.
MembersRead ==
    [][\A a \in DOMAIN heap, id \in MemberIds, x \in Elements :
           WriteMember(a, id, x) => MemberRead(heap'[a], id) = x]_code
=============================================================================
