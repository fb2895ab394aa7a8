---------------------------- MODULE MCIterators ----------------------------
(* Containers of one or two elements for TLC. *)
EXTENDS Iterators

A == INSTANCE Arithmetic
MCOrder(l, r) == A!Compare(l, r)
MCStrictOrder(l, r) == A!StrictCompare(l, r)

I(n) == Integer(n)
Arr(s) == Container("array", s)
Map(keys) == Container("map", [i \in DOMAIN keys |-> Pair(keys[i], I(i))])
KeysOnly(keys) == Container("map", [i \in DOMAIN keys |-> Pair(keys[i], Null)])

MCPrograms ==
    {<<c>> : c \in {Arr(<<I(1)>>), Container("tuple", <<I(1), Null>>),
                   Container("string", <<Character(1)>>), Container("coroutine", <<I(1), I(2)>>),
                   Container("queue", <<I(1), I(2)>>), Container("stack", <<I(1), I(2)>>),
                   Object("struct", 0, <<I(1)>>, <<1>>), KeysOnly(<<>>), KeysOnly(<<I(0), Ratio(0, 1)>>)}}
        \cup {<<Map(<<I(0)>>), Map(<<I(0), Ratio(0, 1)>>)>>}
MCElements == {Null}
MCIndices == {I(0), I(-1), Ratio(0, 1)}
MCRanges == {<<-1, 2, 2>>, <<1, -1, -1>>, <<0, 2, -1>>, <<1, 1, 0>>}
MCAmounts == {2}

\* The order is one on the keys used here, and the maps begin in it; the values
\* are neither failures nor the stop, and the ranges are of numbers.
ASSUME KeysAssumption ==
    Transitive(Keys) /\ Separating(Keys) /\ ProgramsInOrder /\ PlainPrograms /\ RangesFit
=============================================================================
