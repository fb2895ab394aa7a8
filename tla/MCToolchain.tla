---------------------------- MODULE MCToolchain ----------------------------
(* Programs for TLC: every operator on operands of several kinds, every      *)
(* expression and statement around another one, and whole small programs.    *)
EXTENDS ToolchainProperties

N(n) == EInteger(n)
X(name) == EVar(name, Root)
In(path) == Namespace(path)
Let(name, e) == SNewVar(BNewVar(name), e)
Ret(e) == SReturn(e)
Put(name, e) == SAssign(X(name), e)
Plus(l, r) == EBinary("ADD", l, r)
CallOf(name, args) == ECall(X(name), args)
Case(c, b) == [cond |-> c, body |-> b]
Fn(name, path, params, stmts) ==
    DFunction(name, In(path), params, "", {}, SBlock(stmts), Absent)
Qualified(fx, qualifiers) == [fx EXCEPT !.qualifiers = qualifiers]
Variadic(fx, name) == [fx EXCEPT !.variadic = name]
Guarded(fx, err, stmts) == [fx EXCEPT !.except = DExcept(err, SBlock(stmts))]
Of(functions) == Program(functions, <<>>, <<>>, <<>>)
MainOf(stmts) == Fn("main", <<>>, <<>>, stmts)
Just(e) == <<Of(<<MainOf(<<Ret(e)>>)>>)>>
Body(stmts) == <<Of(<<MainOf(stmts)>>)>>

(* Operators: on literals, which are folded, and on variables. *)
Half == EFloat(V!Ratio(1, 2))
Leaves == <<N(0), N(3), EBool(TRUE), EChar(2), Half, EString("ab"), ENull>>
Few == <<N(3), EString("ab"), ENull, EArray(<<N(1)>>)>>
OnLiterals(op, l, r) == Just(EBinary(op, Leaves[l], Leaves[r]))
OnVariables(op, l, r) ==
    Body(<<Let("a", Few[l]), Let("b", Few[r]), Ret(EBinary(op, X("a"), X("b")))>>)
Unary(op, l) == Just(EUnary(op, Leaves[l]))
Decided(l) == Just(ETernary(Leaves[l], N(1), N(2)))
Number(n) == Just(ETuple(<<N(n), EUnary("NEG", N(n))>>))

(* Expressions around an expression that needs a slot of its own. *)
Inner == EIife(SBlock(<<Let("t", Plus(X("a"), N(4))), Ret(EBinary("MLT", X("t"), X("a")))>>))
Around(e) ==
    <<EArray(<<N(1), e>>), ETuple(<<e, X("a")>>), EMap(<<[key |-> N(1), val |-> e]>>),
      EMap(<<[key |-> e, val |-> X("a")]>>), EStruct(<<[name |-> "m", expr |-> e]>>),
      Plus(X("a"), e), EBinary("AND", e, X("a")), EBinary("OR", EBool(FALSE), e),
      EBinary("NULLCO", ENull, e), EBinary("NULLCO", e, N(7)), EBinary("ELVIS", e, X("a")),
      EUnary("NOT", e), ETernary(e, N(1), N(2)), ETernary(X("a"), e, N(2)),
      EConditional(<<Case(EBool(FALSE), N(1)), Case(EBool(TRUE), e)>>, N(2)),
      EConditional(<<Case(EUnary("NUL", e), X("a"))>>, Absent),
      EChoose(X("a"), <<Case(N(5), N(1)), Case(N(1), e)>>, N(2)),
      EIndex(EArray(<<X("a"), N(8)>>), ETernary(e, N(1), N(0))),
      CallOf("id", <<e>>), ECall(X("f"), <<e>>),
      EInvokeMember(X("s"), "get", <<e>>),
      ECall(ELambda(Fn("l", <<>>, <<"x">>, <<Ret(Plus(X("x"), X("a")))>>), <<X("a")>>), <<e>>),
      EIife(SBlock(<<Let("u", e), Ret(X("u"))>>))>>
Setting(e) ==
    <<Of(<<MainOf(<<Let("a", N(1)),
                    Let("f", EFxPointer("id", Root, 1, FALSE)),
                    Let("s", EStruct(<<[name |-> "m", expr |-> N(6)],
                                       [name |-> "get", expr |->
                                           EFxPointer("get", Root, 2, FALSE)]>>)),
                    Let("r", e), Ret(ETuple(<<X("r"), X("a")>>))>>),
           Fn("id", <<>>, <<"x">>, <<Ret(X("x"))>>),
           Fn("get", <<>>, <<"self", "x">>,
              <<Ret(ETuple(<<EMember(X("self"), "m"), X("x")>>))>>)>>)>>
Contexts == 1..Len(Around(Inner))
Nested(i, j) == Setting(Around(Around(Inner)[j])[i])

(* Statements around statements. *)
Step == SBlock(<<Let("t", Plus(X("r"), N(1))), Put("r", X("t"))>>)
Less(n) == EBinary("SMALLER", X("r"), N(n))
AroundStatement(s) ==
    <<SBlock(<<Let("x", N(3)), s, Put("r", Plus(X("r"), X("x")))>>),
      SIfElse(Less(2), s, SNoOp), SIfElse(X("n"), s, Step), SIfElse(EBool(TRUE), Step, s),
      SWhile(Less(4), SBlock(<<Let("y", N(1)), s, Put("r", Plus(X("r"), X("y")))>>)),
      SForEach(BNewVar("e"), EArray(<<N(1), N(2)>>),
               SBlock(<<s, Put("r", Plus(X("r"), X("e")))>>)),
      SForEach(BGroup(<<BNewVar("e"), BNewVar("f")>>), EArray(<<ETuple(<<N(1), N(2)>>)>>),
               SBlock(<<s, Put("r", Plus(X("e"), X("f")))>>)),
      SSwitch(X("r"), <<Case(N(0), s), Case(N(1), Step)>>, SThrow(X("r"))),
      SConditional(<<Case(Less(1), s), Case(X("r"), Step)>>, Absent),
      SInfiniteLoop(SBlock(<<s, SIfElse(Less(3), Step, Ret(X("r")))>>))>>
Frames == 1..Len(AroundStatement(Step))
Looped(i, j) ==
    Body(<<Let("r", N(0)), Let("n", ENull), AroundStatement(AroundStatement(Step)[j])[i],
           Let("z", N(9)), Ret(ETuple(<<X("r"), X("z")>>))>>)

(* Places that can be assigned. *)
Targets ==
    <<EArray(<<N(1), N(2)>>), EMap(<<[key |-> N(0), val |-> N(1)]>>),
      EStruct(<<[name |-> "m", expr |-> N(1)]>>), ENull, ETuple(<<N(1)>>)>>
PlacesOf ==
    <<X("p"), EIndex(X("p"), X("x")), EIndex(X("p"), EUnary("NEG", N(1))),
      EMember(X("p"), "m"), EMember(X("p"), "n"), Plus(X("p"), N(1))>>
Assigned(p, l) ==
    Body(<<Let("x", N(0)), Let("p", Targets[p]), SAssign(PlacesOf[l], N(5)), Ret(X("p"))>>)
Unpacked(p) ==
    Body(<<Let("p", ETuple(SubSeq(<<N(1), N(2), N(3)>>, 1, p))),
           SNewVar(BGroup(<<BNewVar("u"), BNewVar("v")>>), X("p")),
           Ret(ETuple(<<X("v"), X("u")>>))>>)

(* Functions, exceptions and captures. *)
Fact == Fn("fact", <<>>, <<"n">>,
           <<Ret(ETernary(X("n"), EBinary("MLT", X("n"),
                    CallOf("fact", <<EBinary("SUB", X("n"), N(1))>>)), N(1)))>>)
Thrower == Fn("boom", <<>>, <<"x">>, <<Let("q", X("x")), SThrow(ETuple(<<X("q")>>))>>)
Recursion(n) == <<Of(<<MainOf(<<Ret(CallOf("fact", <<N(n)>>))>>), Fact>>)>>
Risks ==
    <<SExpression(CallOf("boom", <<X("x")>>)), SExpression(EUnary("DEREF", ENull)),
      SForEach(BNewVar("e"), EArray(<<N(1)>>), SThrow(X("e"))), SNoOp>>
Handlers ==
    <<Ret(ETuple(<<X("w"), X("err")>>)), Ret(X("w")), SThrow(X("w")), SNoOp>>
Handled(s, h) ==
    <<Of(<<MainOf(<<Ret(CallOf("f", <<>>))>>), Thrower,
           Guarded(Fn("f", <<>>, <<>>, <<Let("x", N(1)), Risks[s], Ret(X("x"))>>), "err",
                   <<Let("w", N(2)), IF s = 2 THEN Ret(X("w")) ELSE Handlers[h]>>)>>)>>
Arguments == << <<>>, <<N(1)>>, <<N(1), N(2), N(3)>> >>
Rest == Variadic(Fn("rest", <<>>, <<"x">>, <<Ret(ETuple(<<X("x"), X("xs")>>))>>), "xs")
Called(n) == <<Of(<<MainOf(<<Ret(CallOf("rest", Arguments[n]))>>), Rest>>)>>
Pointed(n) ==
    <<Of(<<MainOf(<<Let("g", EFxPointer("rest", Root, 1, TRUE)),
                    Ret(CallOf("g", Arguments[n]))>>), Rest>>)>>
Captured(v, n) ==
    Body(<<Let("c", EArray(<<N(1)>>)), Let("d", N(2)),
           Let("l", ELambda(Variadic(Fn("l1", <<>>, <<"x">>,
                               <<SAssign(EIndex(X("c"), N(0)), X("x")),
                                 Put("d", N(9)), Ret(ETuple(<<X("d"), X("x")>>))>>), v),
                            <<X("c"), X("d")>>)),
           Ret(ETuple(<<CallOf("l", Arguments[n]), X("c"), X("d")>>))>>)

(* Namespaces, statics and qualifiers: g looks for f from <<n, m>>. *)
Around1 == << <<>>, <<"n">>, <<"n", "m">>, <<"n", "m", "n">> >>
Paths == <<Root, In(<<"n">>), In(<<"n", "m">>), Absolute(<<"n">>), Absolute(<<>>)>>
Marks == <<{}, {"const"}, {"private"}>>
Resolved(there, to, qg, qf) ==
    LET defined == SelectSeq(Around1, LAMBDA path : Len(path) \in there)
    IN <<Of(<<MainOf(<<Ret(ECall(EVar("g", Absolute(<<"n", "m">>)), <<>>))>>),
              Qualified(Fn("g", <<"n", "m">>, <<>>, <<Ret(ECall(EVar("f", Paths[to]), <<>>))>>),
                        Marks[qg])>>),
         Of([i \in DOMAIN defined |->
                Qualified(Fn("f", defined[i], <<>>, <<Ret(N(Len(defined[i])))>>), Marks[qf])])>>
Named == <<"a", "b", "c", "d">>
Scoped == <<Root, In(<<"n">>), In(<<"n", "e">>)>>
Static(x, to) ==
    <<Program(<<Fn("main", <<>>, <<>>,
                   <<SIfElse(X("b"), SAssign(X(Named[x]), N(7)), SNoOp),
                     Ret(EArray(<<ECall(EVar("g", In(<<"n">>)), <<>>),
                                  EVar(Named[x], Scoped[to])>>))>>),
                Fn("g", <<"n">>, <<>>, <<Ret(X(Named[x]))>>)>>,
              <<DDefinition("a", Root, N(300)), DDefinition("a", In(<<"n">>), EString("a"))>>,
              <<DGlobal("b", Root, EVar("a", Scoped[to]), FALSE, FALSE),
                DGlobal("c", In(<<"n">>), EArray(<<X("a")>>), FALSE, FALSE)>>,
              <<DEnumeration("e", In(<<"n">>), <<[name |-> "a", value |-> 0],
                                                 [name |-> "d", value |-> 4]>>)>>)>>

(* Programs that are refused, and what is compiled without being run. *)
Coroutine == Qualified(Fn("co", <<>>, <<"x">>,
                          <<SYield(X("x")), SIfElse(X("x"), SReturn(Absent), SNoOp)>>),
                       {"coroutine", "extern"})
Others ==
    <<Body(<<Let("x", N(1)), Let("x", N(2))>>), Just(X("x")),
      Body(<<SBlock(<<Let("x", N(1))>>), Ret(X("x"))>>),
      Body(<<Let("x", N(1)), SSwitch(X("x"), <<Case(X("x"), SNoOp)>>, SNoOp)>>),
      Just(EChoose(N(1), <<Case(CallOf("f", <<>>), N(1))>>, N(2))),
      Body(<<SYield(N(1))>>), Just(CallOf("f", <<>>)),
      Just(ECustomLiteral("day", "two")), Just(ECustomLiteral("year", "two")),
      <<Of(<<MainOf(<<>>), MainOf(<<>>)>>)>>, <<Of(<<Fact>>)>>,
      <<Of(<<MainOf(<<Ret(N(1))>>), Coroutine>>)>>,
      <<Of(<<MainOf(<<>>), Guarded(Coroutine, "err", <<>>)>>)>>,
      Body(<<Let("a", EType(<<16>>)), Ret(ETernary(X("a"), X("a"), N(2)))>>),
      <<Of(<<MainOf(<<>>), Qualified(Fn("k", <<>>, <<"x">>, <<Put("x", N(1))>>),
                                     {"const", "extern"})>>)>>,
      <<Of(<<MainOf(<<Let("r", EReflect(NamespaceQuery(In(<<"n">>)))),
                      Ret(EMember(EIndex(EMember(X("r"), "functions"), N(1)), "full_name"))>>),
             Fn("f", <<"n">>, <<>>, <<>>), Fact, Fn("g", <<"n">>, <<"x">>, <<>>)>>)>>,
      <<Of(<<MainOf(<<Let("r", EReflect(FunctionQuery(Root, "fact", 1, FALSE))),
                      Ret(ETuple(<<EMember(X("r"), "name"), EMember(X("r"), "private"),
                                   EInvokeMember(X("r"), "fx_ptr", <<>>)>>))>>),
             Qualified(Fact, {"private"})>>)>>,
      Just(ETuple(<<EReflect(LineQuery(300)), EReflect(FileQuery("a")),
                    EReflect(LocationQuery("b", 2))>>))>>

Names ==
    ({"literals"} \X BinaryOps \X (1..7) \X (1..7))
        \cup ({"variables"} \X BinaryOps \X (1..4) \X (1..4))
        \cup ({"unary"} \X UnaryOps \X (1..7))
        \cup ({"decided"} \X (1..7))
        \cup ({"number"} \X {1, 2, 127, 128, 129, 255, 256, 300})
        \cup ({"nested"} \X Contexts \X Contexts)
        \cup ({"looped"} \X Frames \X Frames)
        \cup ({"assigned"} \X (1..5) \X (1..6)) \cup ({"unpacked"} \X (1..3))
        \cup ({"recursion"} \X {0, 3}) \cup ({"handled"} \X (1..4) \X (1..4))
        \cup ({"called"} \X (1..3)) \cup ({"pointed"} \X (1..3))
        \cup ({"captured"} \X {"", "xs"} \X (1..3))
        \cup ({"resolved"} \X {{}, {0}, {0, 1}, {1, 2}, 0..3} \X (1..5) \X (1..2) \X (1..3))
        \cup ({"static"} \X (1..4) \X (1..3))
        \cup ({"other"} \X DOMAIN Others)
ProgramOf(n) ==
    CASE n[1] = "literals" -> OnLiterals(n[2], n[3], n[4])
      [] n[1] = "variables" -> OnVariables(n[2], n[3], n[4])
      [] n[1] = "unary" -> Unary(n[2], n[3])
      [] n[1] = "decided" -> Decided(n[2])
      [] n[1] = "number" -> Number(n[2])
      [] n[1] = "nested" -> Nested(n[2], n[3])
      [] n[1] = "looped" -> Looped(n[2], n[3])
      [] n[1] = "assigned" -> Assigned(n[2], n[3])
      [] n[1] = "unpacked" -> Unpacked(n[2])
      [] n[1] = "recursion" -> Recursion(n[2])
      [] n[1] = "handled" -> Handled(n[2], n[3])
      [] n[1] = "called" -> Called(n[2])
      [] n[1] = "pointed" -> Pointed(n[2])
      [] n[1] = "captured" -> Captured(n[2], n[3])
      [] n[1] = "resolved" -> Resolved(n[2], n[3], n[4], n[5])
      [] n[1] = "static" -> Static(n[2], n[3])
      [] n[1] = "other" -> Others[n[2]]
MCSources == [n \in Names |-> ProgramOf(n)]
MCLiterals == [day |-> [two |-> 2]]
MCAlphabet == <<"a", "b", "c">>
\* A private global of n is read by a function of n, or by one of path.
PrivateRead(path) ==
    <<Program(<<MainOf(<<Ret(ECall(EVar("g", In(path)), <<>>))>>),
                Fn("g", path, <<>>, <<Ret(EVar("c", In(<<"n">>)))>>)>>,
              <<DDefinition("a", Root, N(3))>>,
              <<DGlobal("b", Root, N(1), FALSE, FALSE),
                DGlobal("c", In(<<"n">>), X("a"), FALSE, TRUE)>>, <<>>)>>
MCPrivateSources == [path \in {<<"n">>, <<"n", "m">>, <<"o">>, <<>>} |-> PrivateRead(path)]
=============================================================================
