------------------------------ MODULE Meaning ------------------------------
(***************************************************************************)
(* What a program means, for comparison with what the compiled program     *)
(* does: the syntax trees are evaluated as they stand.  A variable is a    *)
(* name in the innermost scope that has it, a call is the evaluation of    *)
(* the body with the parameters as variables, a return or a throw ends     *)
(* what it stands in.  There are no slots, labels, frames or jumps.        *)
(* Values, operators and conditions are those of Values.                   *)
(*                                                                         *)
(* What is left out: coroutines, built-in functions and the members of     *)
(* objects other than structs.                                             *)
(***************************************************************************)
EXTENDS Syntax, Integers, SequencesExt

CONSTANTS IntBits, CharBits, Mantissa, CustomLiterals,
          Alphabet           \* the characters of texts, by their code
V == INSTANCE Arithmetic

Text(text) ==
    V!Container("string",
        [i \in 1..Len(text) |->
            V!Character(SelectInSeq(Alphabet, LAMBDA c : c = SubSeq(text, i, i)))])

(***************************************************************************)
(* The state: scopes of the running function (innermost last), its         *)
(* namespace, the objects, the values of definitions and globals, and the  *)
(* function values made.  An outcome is how the evaluation ended.          *)
(***************************************************************************)
World(program) ==
    [scopes |-> <<>>, ns |-> <<>>, heap |-> <<>>, statics |-> <<>>, closures |-> <<>>,
     program |-> program]
Ended(how, v, w) == [how |-> how, v |-> v, w |-> w]
Gives(v, w) == Ended("value", v, w)
Throws(v, w) == Ended("throw", v, w)
Finished(w) == Gives(V!Null, w)
Then(r, K(_)) == IF r.how = "value" THEN K(r) ELSE r

New(object, w) ==
    Gives(V!Scalar(object.k, Len(w.heap) + 1), [w EXCEPT !.heap = Append(@, object)])
Objects == {"array", "tuple", "struct", "map"}
At(v, w) == w.heap[v.n]
RECURSIVE Deep(_, _)
Deep(heap, v) ==
    IF v.k \in Objects
    THEN [heap[v.n] EXCEPT !.subs = [i \in DOMAIN @ |-> Deep(heap, @[i])]] ELSE v
Checked(v, w) ==
    IF V!IsFailure(v) THEN Throws(Text(v.k), w)
    ELSE IF v.k \in {"array", "tuple"} THEN New(v, w) ELSE Gives(v, w)

(***************************************************************************)
(* Names.                                                                  *)
(***************************************************************************)
ScopeOf(name, w) == SelectLastInSeq(w.scopes, LAMBDA s : name \in DOMAIN s)
IsVariable(name, namespaze, w) == IsEmpty(namespaze) /\ ScopeOf(name, w) # 0
Declare(name, v, w) == [w EXCEPT !.scopes[Len(w.scopes)] = (name :> v) @@ @]
Change(name, v, w) == [w EXCEPT !.scopes[ScopeOf(name, w)][name] = v]
Block(w) == [w EXCEPT !.scopes = Append(@, <<>>)]
BlockLeft(r) == [r EXCEPT !.w.scopes = Front(@)]

\* The declarations that a name means: those of the nearest namespace around
\* the place where it is used.
Around(ns, namespaze) ==
    IF namespaze.absolute THEN {namespaze.path}
    ELSE {SubSeq(ns, 1, n) \o namespaze.path : n \in 0..Len(ns)}
Nearest(decls, namespaze, w) ==
    LET seen == SelectSeq(decls, LAMBDA d : d.namespaze.path \in Around(w.ns, namespaze))
        length(d) == Len(d.namespaze.path)
    IN SelectSeq(seen, LAMBDA d : \A i \in DOMAIN seen : length(seen[i]) <= length(d))
Named(decls, name) == SelectSeq(decls, LAMBDA d : d.name = name)
Accepts(fx, n) == IF IsVariadic(fx) THEN n >= Len(fx.simple) ELSE n = Len(fx.simple)
FunctionsFor(name, namespaze, n, w) ==
    Nearest(SelectSeq(Named(w.program.functions, name), LAMBDA fx : Accepts(fx, n)),
            namespaze, w)

\* Enumerators are definitions in the namespace of their enumeration.
Enumerators(program) ==
    FlattenSeq([i \in DOMAIN program.enums |->
        LET e == program.enums[i]
        IN [j \in DOMAIN e.labels |->
               DDefinition(e.labels[j].name, Namespace(Append(e.namespaze.path, e.name)),
                           EInteger(e.labels[j].value))]])
Key(d) == <<d.namespaze.path, d.name>>
StaticFor(name, namespaze, w) ==
    LET defs == Nearest(Named(Enumerators(w.program) \o w.program.definitions, name),
                        namespaze, w)
    IN Head(defs \o Nearest(Named(w.program.globals, name), namespaze, w))

\* Expressions and statements; one that gives no value gives null.
RECURSIVE Eval(_, _)

\* One after the other: the values, if all give one.
EvalAll(exprs, w) ==
    FoldLeft(LAMBDA r, e :
                Then(r, LAMBDA done :
                    Then(Eval(e, done.w), LAMBDA x : Gives(Append(done.v, x.v), x.w))),
             Gives(<<>>, w), exprs)

(***************************************************************************)
(* Functions.                                                              *)
(***************************************************************************)
Bound(names, values) ==
    [x \in Range(names) |-> values[SelectLastInSeq(names, LAMBDA n : n = x)]]
\* The body in a world where only the parameters are variables.
BodyLeft(r, w) ==
    Ended(IF r.how = "throw" THEN "throw" ELSE "value", IF r.how = "value" THEN V!Null ELSE r.v,
          [r.w EXCEPT !.scopes = w.scopes, !.ns = w.ns])
RunBody(body, scope, ns, w) ==
    BodyLeft(Eval(body, [w EXCEPT !.scopes = <<scope>>, !.ns = ns]), w)
Excepted(fx, ns, r) ==
    IF r.how = "throw" /\ IsThere(fx.except)
    THEN RunBody(fx.except.body, fx.except.errorname :> r.v, ns, r.w) ELSE r
Rest(fx, args, w) ==
    IF ~IsVariadic(fx) THEN Finished(w)
    ELSE New(V!Container("tuple", SubSeq(args, Len(fx.simple) + 1, Len(args))), w)
Parameters(fx, args, rest) ==
    LET simple == Bound(fx.simple, SubSeq(args, 1, Len(fx.simple)))
    IN IF IsVariadic(fx) THEN (fx.variadic :> rest) @@ simple ELSE simple
Apply(fx, args, captured, ns, w) ==
    Then(Rest(fx, args, w), LAMBDA rest :
        Excepted(fx, ns, RunBody(fx.body, Parameters(fx, args, rest.v) @@ captured, ns, rest.w)))

Closure(fx, captured, ns, w) ==
    Gives(V!Scalar("function", Len(w.closures) + 1),
          [w EXCEPT !.closures = Append(@, [fx |-> fx, captured |-> captured, ns |-> ns])])
InvokeValue(f, args, w) ==
    IF f.k # "function" THEN Throws(Text("invalid_argument"), w)
    ELSE LET c == w.closures[f.n]
         IN IF ~Accepts(c.fx, Len(args)) THEN Throws(Text("invalid_parameters"), w)
            ELSE Apply(c.fx, args, c.captured, c.ns, w)

EvalCall(e, w) ==
    LET var == e.function_ptr
        direct == var.t = "var" /\ ~IsVariable(var.name, var.namespaze, w)
        fxs == IF direct THEN FunctionsFor(var.name, var.namespaze, Len(e.arguments), w) ELSE <<>>
    IN Then(EvalAll(e.arguments, w), LAMBDA args :
         IF fxs # <<>>
         THEN LET fx == Head(fxs)
              IN Apply(fx, args.v, <<>>, fx.namespaze.path, args.w)
         ELSE Then(Eval(var, args.w), LAMBDA f : InvokeValue(f.v, args.v, f.w)))
EvalPointer(e, w) ==
    LET fx == Head(FunctionsFor(e.name, e.namespaze, e.placeholders, w))
    IN Closure(fx, <<>>, fx.namespaze.path, w)
EvalLambda(e, w) ==
    LET names == [i \in DOMAIN e.captures |-> e.captures[i].name]
    IN Then(EvalAll(e.captures, w), LAMBDA values :
         Closure(e.fx, Bound(names, values.v), w.ns, values.w))

(***************************************************************************)
(* Elements and members.                                                   *)
(***************************************************************************)
Position(key, size) ==
    LET index == IF key.n < 0 THEN key.n + size ELSE key.n
    IN IF key.k # "int" \/ index \notin 0..(size - 1) THEN 0 ELSE index + 1
EntryOf(map, key, w) ==
    SelectInSeq(map.subs, LAMBDA p :
        V!StrictCompare(Deep(w.heap, At(p, w).subs[1]), Deep(w.heap, key)) = 0)
Indexed(v) == v.k \in {"array", "tuple", "string"}
SubsOf(v, w) == IF v.k = "string" THEN v.subs ELSE At(v, w).subs
ReadAt(subs, index, w) ==
    IF index = 0 THEN Throws(Text("out_of_range"), w) ELSE Gives(subs[index], w)
ReadEntry(map, entry, w) ==
    Gives(IF entry = 0 THEN V!Null ELSE At(map.subs[entry], w).subs[2], w)
ReadIndex(v, key, w) ==
    IF v.k = "map" THEN ReadEntry(At(v, w), EntryOf(At(v, w), key, w), w)
    ELSE IF Indexed(v) THEN ReadAt(SubsOf(v, w), Position(key, Len(SubsOf(v, w))), w)
    ELSE Throws(Text("invalid_argument"), w)

WriteAt(v, index, elem, w) ==
    IF index = 0 THEN Throws(Text("out_of_range"), w)
    ELSE Finished([w EXCEPT !.heap[v.n].subs[index] = elem])
Enter(v, pair) == Finished([pair.w EXCEPT !.heap[v.n].subs = Append(@, pair.v)])
WriteEntry(v, entry, key, elem, w) ==
    IF entry = 0 THEN Enter(v, New(V!Container("tuple", <<key, elem>>), w))
    ELSE Finished([w EXCEPT !.heap[At(v, w).subs[entry].n].subs[2] = elem])
WriteIndex(v, key, elem, w) ==
    IF v.k = "map" THEN WriteEntry(v, EntryOf(At(v, w), key, w), key, elem, w)
    ELSE IF v.k \in {"array", "tuple"}
    THEN WriteAt(v, Position(key, Len(At(v, w).subs)), elem, w)
    ELSE Throws(Text("invalid_argument"), w)

\* A member that is not there is null, one that is set to null is not there.
MemberOf(v, name, w) == SelectInSeq(At(v, w).ids, LAMBDA i : i = name)
ReadMember(v, name, w) ==
    IF v.k # "struct" THEN Throws(Text("invalid_member_access"), w)
    ELSE LET m == MemberOf(v, name, w)
         IN Gives(IF m = 0 THEN V!Null ELSE At(v, w).subs[m], w)
WriteMember(v, name, x, w) ==
    LET m == MemberOf(v, name, w)
        changed(object) ==
            IF m = 0 THEN [object EXCEPT !.ids = Append(@, name), !.subs = Append(@, x)]
            ELSE IF x = V!Null
            THEN [object EXCEPT !.ids = RemoveAt(@, m), !.subs = RemoveAt(@, m)]
            ELSE [object EXCEPT !.subs[m] = x]
    IN IF v.k # "struct" THEN Throws(Text("invalid_member_access"), w)
       ELSE Finished([w EXCEPT !.heap[v.n] = changed(@)])

(***************************************************************************)
(* Expressions.                                                            *)
(***************************************************************************)
Truth(v) == V!ToBool(v).n = 1
Order(op, c) ==
    CASE op = "EQUAL" -> V!Boolean(c = 0)
      [] op = "UNEQUEL" -> V!Boolean(c # 0)
      [] op = "SMALLER" -> V!Boolean(c < 0)
      [] op = "BIGGER" -> V!Boolean(c > 0)
      [] op = "SMALLEREQUAL" -> V!Boolean(c <= 0)
      [] op = "BIGGEREQUAL" -> V!Boolean(c >= 0)
      [] op = "SPACE_SHIP" -> V!Integer(c)
Comparisons ==
    {"EQUAL", "UNEQUEL", "SMALLER", "BIGGER", "SMALLEREQUAL", "BIGGEREQUAL", "SPACE_SHIP"}
Calculate(op, l, r) ==
    CASE op = "ADD" -> V!Add(l, r)
      [] op = "SUB" -> V!Sub(l, r)
      [] op = "MLT" -> V!Mlt(l, r)
      [] op = "DIV" -> V!Div(l, r)
      [] op = "MOD" -> V!Mod(l, r)
      [] op = "POW" -> V!Pow(l, r)
      [] op = "SHIFT_L" -> V!ShiftL(l, r)
      [] op = "SHIFT_R" -> V!ShiftR(l, r)
      [] op = "BIT_AND" -> V!BitAnd(l, r)
      [] op = "BIT_OR" -> V!BitOr(l, r)
      [] op = "BIT_XOR" -> V!BitXor(l, r)
Opened(v, w) == IF v.k \in {"array", "tuple"} THEN At(v, w) ELSE v
Compared(op, c, w) ==
    IF c = V!Throws THEN Throws(Text("invalid_comparison"), w) ELSE Gives(Order(op, c), w)
Combine(op, l, r, w) ==
    IF op \in Comparisons
    THEN Compared(op, V!Compare(Deep(w.heap, l), Deep(w.heap, r)), w)
    ELSE Checked(Calculate(op, Opened(l, w), Opened(r, w)), w)

\* The right operand is evaluated only if the left one does not decide.
EvalBinary(e, w) ==
    Then(Eval(e.l, w), LAMBDA l :
        CASE e.op = "AND" /\ ~Truth(l.v) -> Gives(V!Boolean(FALSE), l.w)
          [] e.op = "OR" /\ Truth(l.v) -> Gives(V!Boolean(TRUE), l.w)
          [] e.op = "ELVIS" /\ Truth(l.v) -> l
          [] e.op = "NULLCO" /\ l.v # V!Null -> l
          [] OTHER -> Then(Eval(e.r, l.w), LAMBDA r :
               CASE e.op \in {"AND", "OR"} -> Gives(V!Boolean(Truth(r.v)), r.w)
                 [] e.op \in {"ELVIS", "NULLCO"} -> r
                 [] OTHER -> Combine(e.op, l.v, r.v, r.w)))
EvalUnary(e, w) ==
    Then(Eval(e.expr, w), LAMBDA x :
        CASE e.op = "NEG" -> Checked(V!Neg(x.v), x.w)
          [] e.op = "NOT" -> Gives(V!Boolean(~Truth(x.v)), x.w)
          [] e.op = "BITNOT" -> Checked(V!BitNot(x.v), x.w)
          [] e.op = "NUL" -> Gives(V!Boolean(x.v # V!Null), x.w)
          [] e.op = "DEREF" -> IF x.v = V!Null THEN Throws(Text("null"), x.w) ELSE x)

\* Each case is tried in turn; Decides says whether its condition is met.
Choose(cases, otherwise, w, Decides(_)) ==
    LET tried == FoldLeft(LAMBDA r, i :
                     Then(r, LAMBDA done :
                         IF done.v.taken # 0 THEN done
                         ELSE Then(Eval(cases[i].cond, done.w), LAMBDA c :
                                Gives([taken |-> IF Decides(c) THEN i ELSE 0], c.w))),
                     Gives([taken |-> 0], w), [i \in DOMAIN cases |-> i])
    IN Then(tried, LAMBDA done :
         BlockLeft(Eval(IF done.v.taken = 0 THEN otherwise ELSE cases[done.v.taken].body,
                        Block(done.w))))
EvalSwitch(e, w) ==
    Then(Eval(e.condition, w), LAMBDA x :
        Choose(e.cases, e.d3fault, x.w,
               LAMBDA c : V!Compare(Deep(c.w.heap, x.v), Deep(c.w.heap, c.v)) = 0))
OrNothing(node) == IF IsThere(node) THEN node ELSE SNoOp
EvalConditional(e, w) == Choose(e.cases, OrNothing(e.else_branch), w, LAMBDA c : Truth(c.v))
IifeLeft(r) ==
    CASE r.how = "return" -> Gives(r.v, r.w)
      [] r.how = "value" -> Finished(r.w)
      [] OTHER -> r
EvalIife(e, w) == IifeLeft(BlockLeft(Eval(e.stmt, Block(w))))

EvalMap(e, w) ==
    FoldLeft(LAMBDA r, p :
                Then(r, LAMBDA map :
                    Then(EvalAll(<<p.val, p.key>>, map.w), LAMBDA x :
                        Then(WriteIndex(map.v, x.v[2], x.v[1], x.w), LAMBDA done :
                            Gives(map.v, done.w)))),
             New(V!Container("map", <<>>), w), e.pairs)
EvalStruct(e, w) ==
    FoldLeft(LAMBDA r, m :
                Then(r, LAMBDA struct :
                    Then(Eval(m.expr, struct.w), LAMBDA x :
                        Gives(struct.v, WriteMember(struct.v, m.name, x.v, x.w).w))),
             New(V!Container("struct", <<>>), w), e.members)
\* A struct with these members; the values are those of names.
StructOf(names, values, w) ==
    New(V!Object("struct", 0, values, names), w)
Qualifiers3 == <<"const", "private", "extern">>
EvalFunctionQuery(fx, w) ==
    LET f == Closure(fx, <<>>, fx.namespaze.path, w)
        flags == [i \in 1..3 |-> V!Boolean(Qualifiers3[i] \in fx.qualifiers)]
    IN StructOf(<<"name", "full_name", "fx_ptr">> \o Qualifiers3,
                <<Text(fx.name), Text(NamespaceText[fx.namespaze.path] \o fx.name), f.v>> \o flags,
                f.w)
EvalReflect(q, w) ==
    LET file(name, u) == StructOf(<<"name">>, <<Text(name)>>, u)
        known(name, n) == Head(FunctionsFor(name, q.namespaze, n, w))
    IN CASE q.q = "line" -> Gives(V!Integer(q.line), w)
         [] q.q = "file" -> file(q.file, w)
         [] q.q = "location" ->
               LET f == file(q.file, w)
               IN StructOf(<<"line", "file">>, <<V!Integer(q.line), f.v>>, f.w)
         [] q.q = "function" -> EvalFunctionQuery(known(q.name, q.arity), w)
         [] q.q = "namespace" ->
               LET here == SelectSeq(w.program.functions, LAMBDA fx : fx.namespaze = q.namespaze)
                   fxs == FoldLeft(LAMBDA r, fx :
                              LET x == EvalFunctionQuery(fx, r.w) IN Gives(Append(r.v, x.v), x.w),
                              Gives(<<>>, w), here)
                   list == New(V!Container("array", fxs.v), fxs.w)
               IN StructOf(<<"name", "functions">>,
                           <<Text(NamespaceText[q.namespaze.path]), list.v>>, list.w)

EvalVar(e, w) ==
    IF IsVariable(e.name, e.namespaze, w) THEN Gives(w.scopes[ScopeOf(e.name, w)][e.name], w)
    ELSE Gives(w.statics[Key(StaticFor(e.name, e.namespaze, w))], w)

EvalExpression(e, w) ==
    CASE e.t = "integer" -> Gives(V!Integer(e.value), w)
      [] e.t = "float" -> Gives(e.value, w)
      [] e.t = "bool" -> Gives(V!Boolean(e.value), w)
      [] e.t = "char" -> Gives(V!Character(e.value), w)
      [] e.t = "string" -> Gives(Text(e.value), w)
      [] e.t = "null" -> Finished(w)
      [] e.t = "type" -> Gives(V!Object("type", Head(e.code), <<>>, <<>>), w)
      [] e.t = "reflect" -> EvalReflect(e.query, w)
      [] e.t = "custom_literal" -> Gives(V!Integer(CustomLiterals[e.type][e.value]), w)
      [] e.t = "var" -> EvalVar(e, w)
      [] e.t \in {"array", "tuple"} ->
            Then(EvalAll(e.elements, w), LAMBDA xs : New(V!Container(e.t, xs.v), xs.w))
      [] e.t = "map" -> EvalMap(e, w)
      [] e.t = "struct" -> EvalStruct(e, w)
      [] e.t = "member" -> Then(Eval(e.expr, w), LAMBDA x : ReadMember(x.v, e.name, x.w))
      [] e.t = "index" ->
            Then(EvalAll(<<e.expr, e.index>>, w), LAMBDA xs : ReadIndex(xs.v[1], xs.v[2], xs.w))
      [] e.t = "unary" -> EvalUnary(e, w)
      [] e.t = "binary" -> EvalBinary(e, w)
      [] e.t = "ternary" ->
            Then(Eval(e.condition, w), LAMBDA c :
                Eval(IF Truth(c.v) THEN e.if_branch ELSE e.else_branch, c.w))
      [] e.t = "conditional" -> EvalConditional(e, w)
      [] e.t = "choose" -> EvalSwitch(e, w)
      [] e.t = "iife" -> EvalIife(e, w)
      [] e.t = "call" -> EvalCall(e, w)
      [] e.t = "fx_pointer" -> EvalPointer(e, w)
      [] e.t = "lambda" -> EvalLambda(e, w)
      [] e.t = "invoke_member" ->
            Then(EvalAll(<<e.object>> \o e.arguments, w), LAMBDA xs :
                Then(ReadMember(Head(xs.v), e.name, xs.w), LAMBDA f :
                    InvokeValue(f.v, xs.v, f.w)))

(***************************************************************************)
(* Statements.                                                             *)
(***************************************************************************)
RECURSIVE Bind(_, _, _)
Bind(binding, v, w) ==
    IF binding.t = "new_var" THEN Finished(Declare(binding.name, v, w))
    ELSE IF v.k # "tuple" \/ Len(At(v, w).subs) < Len(binding.sub_bindings)
    THEN Throws(Text("cannot_unpack_tuple"), w)
    ELSE FoldLeft(LAMBDA r, i :
                    Then(r, LAMBDA x : Bind(binding.sub_bindings[i], At(v, w).subs[i], x.w)),
                  Finished(w), [i \in DOMAIN binding.sub_bindings |-> i])
Assign(l, v, w) ==
    CASE l.t = "var" /\ IsVariable(l.name, l.namespaze, w) -> Finished(Change(l.name, v, w))
      [] l.t = "var" /\ ~IsVariable(l.name, l.namespaze, w) ->
            Finished([w EXCEPT !.statics[Key(StaticFor(l.name, l.namespaze, w))] = v])
      [] l.t = "index" ->
            Then(EvalAll(<<l.expr, l.index>>, w), LAMBDA xs :
                WriteIndex(xs.v[1], xs.v[2], v, xs.w))
      [] l.t = "member" -> Then(Eval(l.expr, w), LAMBDA x : WriteMember(x.v, l.name, v, x.w))
RunAll(statements, w) ==
    FoldLeft(LAMBDA r, s : Then(r, LAMBDA done : Eval(s, done.w)), Finished(w), statements)
EvalOptional(expr, w) == IF IsThere(expr) THEN Eval(expr, w) ELSE Finished(w)

\* One turn of the loop, while the condition gives a true value, and the loop
\* again.
RunLoop(s, w) ==
    Then(IF s.t = "while" THEN Eval(s.condition, w) ELSE Gives(V!Boolean(TRUE), w), LAMBDA c :
        IF ~Truth(c.v) THEN Finished(c.w)
        ELSE Then(BlockLeft(Eval(s.body, Block(c.w))), LAMBDA done : Eval(s, done.w)))
RunForEach(s, w) ==
    Then(Eval(s.expr, w), LAMBDA x :
        IF x.v.k \notin {"array", "tuple"} THEN Throws(Text("invalid_argument"), x.w)
        ELSE FoldLeft(LAMBDA r, i :
                Then(r, LAMBDA done :
                    BlockLeft(Then(Bind(s.bind, At(x.v, done.w).subs[i], Block(done.w)),
                                   LAMBDA b : Eval(s.body, b.w)))),
                Finished(x.w), [i \in DOMAIN At(x.v, x.w).subs |-> i]))

RunStatement(s, w) ==
    CASE s.t = "no_op" -> Finished(w)
      [] s.t = "block" -> BlockLeft(RunAll(s.statements, Block(w)))
      [] s.t = "expression" -> Then(Eval(s.expr, w), LAMBDA x : Finished(x.w))
      [] s.t = "new_var" ->
            Then(EvalOptional(s.expr, w), LAMBDA x : Bind(s.binding, x.v, x.w))
      [] s.t = "assign" -> Then(Eval(s.r, w), LAMBDA x : Assign(s.l, x.v, x.w))
      [] s.t = "return" ->
            Then(EvalOptional(s.expr, w), LAMBDA x : Ended("return", x.v, x.w))
      [] s.t = "throw" -> Then(EvalOptional(s.expr, w), LAMBDA x : Throws(x.v, x.w))
      [] s.t = "if_else" ->
            Then(Eval(s.condition, w), LAMBDA c :
                BlockLeft(Eval(IF Truth(c.v) THEN s.if_branch ELSE OrNothing(s.else_branch),
                               Block(c.w))))
      [] s.t \in {"while", "infinite_loop"} -> RunLoop(s, w)
      [] s.t = "for_each" -> RunForEach(s, w)
      [] s.t = "switch" -> EvalSwitch(s, w)

Statements ==
    {"no_op", "block", "expression", "new_var", "assign", "return", "throw", "if_else", "while",
     "infinite_loop", "for_each", "switch"}
Eval(node, w) == IF node.t \in Statements THEN RunStatement(node, w) ELSE EvalExpression(node, w)

(***************************************************************************)
(* The program: definitions and globals have their values before main.     *)
(***************************************************************************)
WithStatics(program) ==
    LET statics == Enumerators(program) \o program.definitions \o program.globals
    IN FoldLeft(LAMBDA r, d :
                  Then(r, LAMBDA done :
                      Then(EvalOptional(d.expr, [done.w EXCEPT !.ns = d.namespaze.path]),
                           LAMBDA x : Finished([x.w EXCEPT !.statics = (Key(d) :> x.v) @@ @]))),
                Finished(World(program)), statics)
MeansMain(program, main) ==
    Then(WithStatics(program), LAMBDA ready :
        Apply(main, <<>>, <<>>, main.namespaze.path, ready.w))
Outcome(r) == [how |-> r.how, v |-> Deep(r.w.heap, r.v)]
Means(program) == Outcome(MeansMain(program, Head(Named(program.functions, "main"))))
=============================================================================
