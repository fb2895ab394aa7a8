---------------------------- MODULE Collections ----------------------------
(***************************************************************************)
(* Arrays, tuples, strings, maps, queues, stacks and structs               *)
(* (ltnvm/objects/container) and the three ways into them: the build-in    *)
(* functions behind std:: (ltnvm/build_in/container*.cxx, algorithm.cxx)   *)
(* and the index instructions, the member functions (ltnvm/stdlib), and    *)
(* the functions of the plugin interface (ltnvm/build_in/plugin.cxx).      *)
(*                                                                         *)
(* An operation on a container c gives its outcome: the value it returns   *)
(* or the failure it throws, the new contents, and whether the version of  *)
(* the container was incremented, which is what invalidates iterators.     *)
(* A map is the sequence of its pairs in the order of their keys.          *)
(***************************************************************************)
EXTENDS Values

\* The orders of Arithmetic: compare and strict_compare.
CONSTANTS Order(_, _), StrictOrder(_, _)

OutOfRange == Raise("out_of_range")
InvalidArgument == Raise("invalid_argument")
\* Memory that belongs to no element: reading it is undefined.
Wild == Raise("undefined")

IsSequence(s) == s \in Seq(ToSet(s))
\* A struct has a value for each of its members, and each member once.
WellMade(c) ==
    /\ c = [Object(c.k, c.n, c.subs, c.ids) EXCEPT !.d = c.d]
    /\ IsSequence(c.subs)
    /\ c.k = "struct" =>
          /\ IsSequence(c.ids) /\ Len(c.ids) = Len(c.subs)
          /\ \A i, j \in DOMAIN c.ids : c.ids[i] = c.ids[j] => i = j

Answer(c, v) == [value |-> v, subs |-> c.subs, ids |-> c.ids, bumped |-> FALSE]
Overwrite(c, v, subs) == [Answer(c, v) EXCEPT !.subs = subs]
Change(c, v, subs) == [Overwrite(c, v, subs) EXCEPT !.bumped = TRUE]

(***************************************************************************)
(* Container.hxx, Contiguous.hxx, Segmented.hxx, Array.cxx.                *)
(***************************************************************************)
PushBack(c, x) == Change(c, Null, Append(c.subs, x))
\* Slip: the version is not incremented.
UnsafePopBackQuiet(c) == Overwrite(c, Last(c.subs), Front(c.subs))
UnsafePopBack(c) == Change(c, Last(c.subs), Front(c.subs))
PopFront(c) == Change(c, Head(c.subs), Tail(c.subs))
UnsafeErase(c, i) == Change(c, c.subs[i], RemoveAt(c.subs, i))
UnsafeInsert(c, i, x) == Change(c, Null, InsertAt(c.subs, i, x))
OrEmpty(c, outcome) == IF c.subs = <<>> THEN Answer(c, OutOfRange) ELSE outcome

\* utils/index.hxx: the position of an index, 0 if there is none; a negative
\* index counts from the end.
ToIndex(key, size) ==
    LET i == IF key.n < 0 THEN key.n + size ELSE key.n
    IN IF key.k = "int" /\ i \in 0..(size - 1) THEN i + 1 ELSE 0
\* Array.cxx, guard_index: a negative index is out of range.
GuardIndex(i, size) == IF i \in 0..(size - 1) THEN i + 1 ELSE 0

(***************************************************************************)
(* Map.hxx: std::map ordered by strict_compare.                            *)
(***************************************************************************)
Pair(key, x) == Container("pair", <<key, x>>)
KeysOf(c) == [i \in DOMAIN c.subs |-> c.subs[i].subs[1]]
\* Slip: the bound behind an equal key.
LowerBoundLate(c, key) ==
    Cardinality({i \in DOMAIN c.subs : StrictOrder(c.subs[i].subs[1], key) # 1}) + 1
LowerBound(c, key) ==
    Cardinality({i \in DOMAIN c.subs : StrictOrder(c.subs[i].subs[1], key) = -1}) + 1
MapFind(c, key) ==
    LET i == LowerBound(c, key)
    IN IF i <= Len(c.subs) /\ StrictOrder(key, c.subs[i].subs[1]) # -1 THEN i ELSE 0
MapContains(c, key) == MapFind(c, key) # 0
MapAt(c, key) == IF MapContains(c, key) THEN c.subs[MapFind(c, key)].subs[2] ELSE Null

\* The entries of a map with keys of K.
InOrder(K, s) ==
    /\ IsSequence(s) /\ \A i \in 1..Len(s) : s[i].subs[1] \in K
    /\ \A i, j \in 1..Len(s) : i < j => StrictOrder(s[i].subs[1], s[j].subs[1]) = -1
Transitive(K) ==
    \A k, l, m \in K :
        StrictOrder(k, l) = -1 /\ StrictOrder(l, m) = -1 => StrictOrder(k, m) = -1
\* The order tells any two keys of K apart.
Separating(K) ==
    \A k, l \in K : (k # l) = (StrictOrder(k, l) = -1 \/ StrictOrder(l, k) = -1)

\* map[key] = x: the key of an existing entry is kept.
MapAssign(c, key, x) ==
    IF MapContains(c, key)
    THEN LET i == MapFind(c, key)
         IN Overwrite(c, Null, [c.subs EXCEPT ![i] = Pair(c.subs[i].subs[1], x)])
    ELSE Change(c, Null, InsertAt(c.subs, LowerBound(c, key), Pair(key, x)))
MapErase(c, key) ==
    IF MapContains(c, key) THEN Change(c, Null, RemoveAt(c.subs, MapFind(c, key)))
    ELSE Change(c, Null, c.subs)
\* Slip: the entries of the other map win.
MergedOverwritten(l, r) ==
    FoldSeq(LAMBDA p, m : Container("map", MapAssign(m, p.subs[1], p.subs[2]).subs), l, r.subs)
\* The entries of l, then those of r whose keys l does not have.
Merged(l, r) ==
    LET merged[n \in 0..Len(r.subs)] ==
            IF n = 0 THEN l
            ELSE IF MapContains(l, r.subs[n].subs[1]) THEN merged[n - 1]
            ELSE Container("map", MapAssign(merged[n - 1], r.subs[n].subs[1], r.subs[n].subs[2]).subs)
    IN merged[Len(r.subs)]

(***************************************************************************)
(* The build-in functions.                                                 *)
(***************************************************************************)
Push(c, x) ==
    IF c.k \in {"array", "stack", "queue"} THEN PushBack(c, x) ELSE Answer(c, InvalidArgument)
Pop(c) ==
    CASE c.k \in {"array", "stack"} -> OrEmpty(c, UnsafePopBack(c))
      [] c.k = "queue" -> OrEmpty(c, PopFront(c))
      [] OTHER -> Answer(c, InvalidArgument)
Peek(c) ==
    CASE c.k \in {"array", "string", "stack"} -> OrEmpty(c, Answer(c, Last(c.subs)))
      [] c.k = "queue" -> OrEmpty(c, Answer(c, Head(c.subs)))
      [] OTHER -> Answer(c, InvalidArgument)
FrontOf(c) ==
    IF c.k \in {"array", "string"} THEN OrEmpty(c, Answer(c, Head(c.subs)))
    ELSE Answer(c, InvalidArgument)
BackOf(c) ==
    IF c.k \in {"array", "string"} THEN OrEmpty(c, Answer(c, Last(c.subs)))
    ELSE Answer(c, InvalidArgument)
SizeOf(c) ==
    IF c.k \in {"array", "tuple", "string", "queue", "stack", "map"} THEN Integer(Len(c.subs))
    ELSE InvalidArgument
InsertFront(c, x) ==
    IF c.k = "array" THEN UnsafeInsert(c, 1, x) ELSE Answer(c, InvalidArgument)
InsertBack(c, x) == IF c.k = "array" THEN PushBack(c, x) ELSE Answer(c, InvalidArgument)
\* The index of an insertion runs up to the size, so -1 is behind the last element.
Insert(c, key, x) ==
    CASE c.k = "map" -> MapAssign(c, key, x)
      [] c.k = "array" ->
            LET i == ToIndex(key, Len(c.subs) + 1)
            IN IF i = 0 THEN Answer(c, OutOfRange) ELSE UnsafeInsert(c, i, x)
      [] OTHER -> Answer(c, InvalidArgument)
Returning(v, outcome) == IF IsFailure(outcome.value) THEN outcome ELSE [outcome EXCEPT !.value = v]
RemoveFront(c) ==
    IF c.k # "array" THEN Answer(c, InvalidArgument)
    ELSE IF c.subs = <<>> THEN Answer(c, Raise("empty_collection"))
    ELSE Returning(Null, UnsafeErase(c, 1))
RemoveBack(c) ==
    IF c.k # "array" THEN Answer(c, InvalidArgument)
    ELSE IF c.subs = <<>> THEN Answer(c, Raise("empty_collection"))
    ELSE Returning(Null, UnsafePopBack(c))
RemoveKey(c, key) ==
    CASE c.k = "map" -> MapErase(c, key)
      [] c.k = "array" ->
            LET i == ToIndex(key, Len(c.subs))
            IN IF i = 0 THEN Answer(c, OutOfRange) ELSE Returning(Null, UnsafeErase(c, i))
      [] OTHER -> Answer(c, InvalidArgument)
Contained(c, key) == IF c.k = "map" THEN Boolean(MapContains(c, key)) ELSE InvalidArgument

\* inst_at.cxx, inst_at_write.cxx.
At(c, key) ==
    CASE c.k \in {"array", "tuple", "string"} ->
            LET i == ToIndex(key, Len(c.subs)) IN IF i = 0 THEN OutOfRange ELSE c.subs[i]
      [] c.k = "map" -> MapAt(c, key)
      [] OTHER -> InvalidArgument
AtWrite(c, key, x) ==
    CASE IsContiguous(c) ->
            LET i == ToIndex(key, Len(c.subs))
            IN IF i = 0 THEN Answer(c, OutOfRange) ELSE Overwrite(c, Null, [c.subs EXCEPT ![i] = x])
      [] c.k = "map" -> MapAssign(c, key, x)
      [] OTHER -> Answer(c, InvalidArgument)

(***************************************************************************)
(* algorithm.cxx: these rearrange the elements of an array in place.  The  *)
(* sort of the standard library is any permutation that respects compare.  *)
(***************************************************************************)
Ordered(s, sign) == \A i \in 1..(Len(s) - 1) : Order(s[i], s[i + 1]) # sign
Arrangements(s) ==
    {[i \in DOMAIN s |-> s[p[i]]] :
        p \in {p \in [DOMAIN s -> DOMAIN s] : \A i, j \in DOMAIN s : p[i] = p[j] => i = j}}
Sorted(c, sign) ==
    {Overwrite(c, Null, s) : s \in {s \in Arrangements(c.subs) : Ordered(s, sign)}}
ReverseInPlace(c) == Overwrite(c, Null, Reverse(c.subs))
Fill(c, x) == Overwrite(c, Null, [i \in DOMAIN c.subs |-> x])
FindIn(c, key) ==
    LET found == {i \in DOMAIN c.subs : Order(c.subs[i], key) = 0}
    IN IF found = {} THEN Null
       ELSE Integer((CHOOSE i \in found : \A j \in found : i <= j) - 1)

(***************************************************************************)
(* The member functions (stdlib/*.cxx), where they are not the functions   *)
(* above, and those of the plugin interface.                               *)
(***************************************************************************)
MemberAt(c, i) ==
    CASE IsContiguous(c) ->
            IF GuardIndex(i, Len(c.subs)) = 0 THEN OutOfRange ELSE c.subs[GuardIndex(i, Len(c.subs))]
      [] c.k = "map" -> MapAt(c, Integer(i))
MemberInsert(c, i, x) ==
    IF GuardIndex(i, Len(c.subs) + 1) = 0 THEN Answer(c, OutOfRange)
    ELSE UnsafeInsert(c, GuardIndex(i, Len(c.subs) + 1), x)
MemberErase(c, i) ==
    IF GuardIndex(i, Len(c.subs)) = 0 THEN Answer(c, OutOfRange)
    ELSE UnsafeErase(c, GuardIndex(i, Len(c.subs)))
MemberFront(c) ==
    IF c.k = "array" THEN OrEmpty(c, Answer(c, Head(c.subs)))
    ELSE Answer(c, IF c.subs = <<>> THEN Wild ELSE Head(c.subs))
MemberBack(c) ==
    IF c.k = "array" THEN OrEmpty(c, Answer(c, Last(c.subs)))
    ELSE Answer(c, IF c.subs = <<>> THEN Wild ELSE Last(c.subs))
MapMemberErase(c, key) == [MapErase(c, key) EXCEPT !.value = MapAt(c, key)]
MemberHas(c, x) == Boolean(\E i \in DOMAIN c.subs : Order(c.subs[i], x) = 0)
MapKeys(c) == Container("array", KeysOf(c))
MapValues(c) == Container("array", [i \in DOMAIN c.subs |-> c.subs[i].subs[2]])
Slice(c, begin, end) ==
    IF begin \in 0..Len(c.subs) /\ end \in 0..Len(c.subs) /\ begin <= end
    THEN Container("array", SubSeq(c.subs, begin + 1, end)) ELSE OutOfRange
Prefix(c, size) == Slice(c, 0, size)
Suffix(c, size) == Slice(c, Len(c.subs) - size, Len(c.subs))
Reversed(c) == Container("array", Reverse(c.subs))

PluginArrayPut(c, i, x) ==
    IF GuardIndex(i, Len(c.subs)) = 0 THEN Answer(c, OutOfRange)
    ELSE Overwrite(c, Null, [c.subs EXCEPT ![GuardIndex(i, Len(c.subs))] = x])
\* map_put writes into the std::map and leaves the version as it is.
PluginMapPut(c, key, x) == [MapAssign(c, key, x) EXCEPT !.bumped = FALSE]
\* tuple_at checks the upper bound only.
PluginTupleAt(c, i) ==
    IF i >= Len(c.subs) THEN OutOfRange ELSE IF i < 0 THEN Wild ELSE c.subs[i + 1]

(***************************************************************************)
(* Struct.hxx, inst_struct.cxx.                                            *)
(***************************************************************************)
MemberRead(c, id) == IF Contains(c.ids, id) THEN FindMember(c, id) ELSE Null
\* Slip: the member is added without looking for it.
MemberAppend(c, id, x) ==
    [Overwrite(c, Null, Append(c.subs, x)) EXCEPT !.ids = Append(c.ids, id)]
\* Slip: the value goes and the name stays.
MemberWriteKeepingName(c, id, x) ==
    IF ~Contains(c.ids, id)
    THEN [Overwrite(c, Null, Append(c.subs, x)) EXCEPT !.ids = Append(c.ids, id)]
    ELSE LET i == CHOOSE i \in DOMAIN c.ids : c.ids[i] = id
         IN Overwrite(c, Null, IF x = Null THEN RemoveAt(c.subs, i) ELSE [c.subs EXCEPT ![i] = x])
\* Writing null deletes a member; a member that is not there is added, null or not.
MemberWrite(c, id, x) ==
    IF ~Contains(c.ids, id)
    THEN [Overwrite(c, Null, Append(c.subs, x)) EXCEPT !.ids = Append(c.ids, id)]
    ELSE LET i == CHOOSE i \in DOMAIN c.ids : c.ids[i] = id /\ \A j \in 1..(i - 1) : c.ids[j] # id
         IN IF x = Null
            THEN [Overwrite(c, Null, RemoveAt(c.subs, i)) EXCEPT !.ids = RemoveAt(c.ids, i)]
            ELSE Overwrite(c, Null, [c.subs EXCEPT ![i] = x])
=============================================================================
