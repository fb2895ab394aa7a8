---------------------------- MODULE MCOperations ----------------------------
(* Values of every kind and type literals of every form for TLC. *)
EXTENDS Operations

I(n) == Integer(n)
Arr(s) == Container("array", s)
Str(s) == Container("string", [i \in DOMAIN s |-> Character(s[i])])
Map(ks, vs) == Container("map", [i \in DOMAIN ks |-> Container("pair", <<ks[i], vs[i]>>)])
Struct(ids, vs) == Object("struct", 0, vs, ids)
Fx(n, r) == Object("function", n, <<r>>, <<>>)

MCUniverse ==
    {Null, Scalar("stop", 0), Boolean(FALSE), Boolean(TRUE),
     Character(-4), Character(1), Character(3),
     I(-16), I(-3), I(-1), I(0), I(1), I(2), I(8), I(9), I(15),
     NaN, Ratio(1, 0), Ratio(-5, 2), Ratio(1, 2), Ratio(1, 1), Ratio(8, 1)}
    \cup
    {Str(<<>>), Str(<<1>>), Str(<<1, -1>>), Str(<<3>>),
     Arr(<<>>), Arr(<<I(1)>>), Arr(<<Ratio(1, 1)>>), Arr(<<NaN>>), Arr(<<I(1), I(0)>>),
     Arr(<<Arr(<<I(1)>>)>>), Arr(<<Null>>), Arr(<<Str(<<1>>)>>),
     Container("tuple", <<>>), Container("tuple", <<I(1), Str(<<>>)>>), Container("tuple", <<Boolean(TRUE)>>),
     Container("queue", <<I(1)>>), Container("queue", <<Null>>),
     Container("stack", <<>>), Container("stack", <<I(2)>>),
     Map(<<>>, <<>>), Map(<<I(1)>>, <<I(2)>>), Map(<<Str(<<>>)>>, <<Null>>),
     Struct(<<>>, <<>>), Struct(<<256>>, <<I(1)>>), Struct(<<256, 257>>, <<I(1), Null>>),
     Struct(<<257, 256>>, <<I(0), Str(<<>>)>>), Struct(<<64>>, <<I(1)>>),
     Struct(<<OperatorBool>>, <<Fx(1, Boolean(FALSE))>>), Struct(<<OperatorBool>>, <<Fx(1, I(0))>>),
     Struct(<<OperatorCmp, OperatorAdd>>, <<Fx(2, I(-1)), Fx(2, Null)>>),
     Struct(<<OperatorCmp>>, <<Fx(1, I(-1))>>), Struct(<<OperatorAdd>>, <<Fx(2, I(1))>>),
     Fx(0, Null), Fx(2, I(1)), Scalar("native", 2), Scalar("coroutine", 0), Scalar("iterator", 0),
     Scalar("clock", 1), Scalar("rng", 0), Scalar("istream", 0), Scalar("ostream", 0)}

Small == {<<"any">>, <<"int">>, <<"char">>, <<"bool">>, <<"string">>, <<"array">>,
          <<"struct">>, <<"fx", "(", "2", ")">>}
MCNames ==
    {<<k>> : k \in SimpleTypes \cup UnaryTypes \cup {"tuple", "map", "fx", "struct", "number"}}
    \cup {<<k, "(">> \o s \o <<")">> : k \in UnaryTypes, s \in Small}
    \cup {<<"map", "(", "int", ",">> \o s \o <<")">> : s \in Small}
    \cup {<<"tuple", "(">> \o s \o <<",">> \o t \o <<")">> : s \in Small, t \in {<<"int">>, <<"string">>}}
    \cup {<<"struct", "(", ".", "a", ":">> \o s \o <<")">> : s \in Small}
    \cup {<<"tuple", "(", ")">>, <<"tuple", "(", "bool", ")">>,
          <<"tuple", "(", "int", ",", ")">>, <<"array", "(", "int">>, <<"map", "(", "int", ")">>,
          <<"fx", "(", "0", ")">>, <<"fx", "(", "300", ")">>, <<"fx", "(", "int", ")">>,
          <<"struct", "(", ")">>, <<"struct", "(", ".", "a", ",", ")">>,
          <<"struct", "(", ".", "b", ",", ".", "a", ":", "int", ")">>,
          <<"struct", "(", ".", "a", ",", ".", "b", ":", "null", ")">>,
          <<"struct", "(", ".", "size", ":", "int", ")">>,
          <<"struct", "(", ".", "{", "add", "}", ":", "fx", ",", ".", "{", "cmp", "}", ")">>,
          <<"struct", "(", ".", "any", ",", ".", "{", "str", "}", ":", "string", ")">>,
          <<"array", "(", "array", "(", "int", ")", ")">>,
          <<"array", "(", "struct", "(", ".", "b", ":", "map", ")", ")">>,
          <<"map", "(", "map", ",", "tuple", "(", "any", ")", ")">>,
          <<"type", ":", "int">>, <<"type", ":", "type">>, <<"type", ":", "array", "(", "int", ")">>}
MCTexts == {<<"<">> \o s \o <<">">> : s \in MCNames}
=============================================================================
