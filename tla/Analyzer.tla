------------------------------ MODULE Analyzer ------------------------------
(***************************************************************************)
(* The analyzer (ltnc/analyze): syntax trees become semantic trees.  The   *)
(* context st is threaded through: an operator returns the tree it made    *)
(* (node) and the context after it (st).  The code stops at the first      *)
(* error; here the first error is kept and the tree after it means         *)
(* nothing.  Locations are left out.                                       *)
(***************************************************************************)
EXTENDS Scoping, Semantic

CONSTANT CustomLiterals    \* CustomResolver: type -> value -> the integer it means

Made(node, st) == [node |-> node, st |-> st]
Failed(st, what) == Made(SemNull, CompilerError(st, what))
\* The tree with these parts; and two steps, one after the other.
With(parts, Node(_)) == Made(Node(parts.node), parts.st)
AndThen(l, R(_), Node(_, _)) == With(R(l.st), LAMBDA r : Node(l.node, r))

\* An expression, a statement or a binding.
RECURSIVE AnalyzeNode(_, _, _)
AnalyzeExpression(expr, st) == AnalyzeNode("expression", expr, st)
AnalyzeStatement(stmt, st) == AnalyzeNode("statement", stmt, st)
AnalyzeBinding(binding, st) == AnalyzeNode("binding", binding, st)

\* The nodes of a sequence, one after the other.
Appended(acc, r) == Made(Append(acc.node, r.node), r.st)
AnalyzeAll(Analyze(_, _), nodes, st) ==
    FoldLeft(LAMBDA acc, n : Appended(acc, Analyze(n, acc.st)), Made(<<>>, st), nodes)
AnalyzeNodes(kind, nodes, st) == AnalyzeAll(LAMBDA n, s : AnalyzeNode(kind, n, s), nodes, st)
AnalyzeExpressions(exprs, st) == AnalyzeNodes("expression", exprs, st)
Left(r) == Made(r.node, Leave(r.st))
AnalyzeInScope(kind, node, st, scope) == Left(AnalyzeNode(kind, node, Enter(st, scope)))
AnalyzeOptional(expr, st) ==
    IF IsThere(expr) THEN AnalyzeExpression(expr, st) ELSE Made(SemNull, st)

(***************************************************************************)
(* Literals and operators.                                                 *)
(***************************************************************************)
AnalyzeInteger(expr, st) == Made(SemInteger(expr.value), st)
AnalyzeFloat(expr, st) == Made(SemFloat(expr.value), st)
AnalyzeBool(expr, st) == Made(SemBool(expr.value), st)
AnalyzeNull(expr, st) == Made(SemNull, st)
AnalyzeChar(expr, st) == Made(SemChar(expr.value), st)
AnalyzeString(expr, st) == Made(SemString(expr.value), st)
AnalyzeBuildIn(expr, st) == Made(SemBuildIn(expr.key), st)
AnalyzeCustomLiteral(expr, st) ==
    IF expr.type \in DOMAIN CustomLiterals
    THEN Made(SemInteger(CustomLiterals[expr.type][expr.value]), st)
    ELSE Failed(st, "no_such_literal")

AnalyzeArray(array, st) == With(AnalyzeExpressions(array.elements, st), SemArray)
AnalyzeTuple(tuple, st) == With(AnalyzeExpressions(tuple.elements, st), SemTuple)
AnalyzePair(pair, st) ==
    With(AnalyzeExpressions(<<pair.key, pair.val>>, st), LAMBDA n : [key |-> n[1], val |-> n[2]])
AnalyzeMap(init, st) == With(AnalyzeAll(AnalyzePair, init.pairs, st), SemMap)
NamedMember(name, expr) ==
    Made([address |-> MemberId(expr.st, name), expr |-> expr.node], AddMember(expr.st, name))
AnalyzeStruct(init, st) ==
    With(AnalyzeAll(LAMBDA m, s : NamedMember(m.name, AnalyzeExpression(m.expr, s)),
                    init.members, st),
         SemStruct)

AnalyzeUnary(unary, st) ==
    With(AnalyzeExpression(unary.expr, st), LAMBDA x : SemUnary(unary.op, x))
AnalyzeBinary(binary, st) ==
    With(AnalyzeExpressions(<<binary.l, binary.r>>, st),
         LAMBDA n : SemBinary(binary.op, n[1], n[2]))
AnalyzeTernary(expr, st) ==
    With(AnalyzeExpressions(<<expr.condition, expr.if_branch, expr.else_branch>>, st),
         LAMBDA n : SemTernary(n[1], n[2], n[3]))
AnalyzeIndex(index, st) ==
    With(AnalyzeExpressions(<<index.expr, index.index>>, st), LAMBDA n : SemIndex(n[1], n[2]))

(***************************************************************************)
(* Choices: each body is in a block of its own.  The labels of a switch    *)
(* see nothing but definitions (CaseScope); its default is analysed in the *)
(* scope around it.                                                        *)
(***************************************************************************)
AnalyzeCase(case, st, Cond(_, _), kind) ==
    AndThen(Cond(case.cond, st),
            LAMBDA s : AnalyzeInScope(kind, case.body, s, BlockScope),
            LAMBDA cond, body : [cond |-> cond, body |-> body])
AnalyzeConditional(ast, st, kind, nothing) ==
    AndThen(AnalyzeAll(LAMBDA c, s : AnalyzeCase(c, s, AnalyzeExpression, kind), ast.cases, st),
            LAMBDA s : IF IsThere(ast.else_branch)
                       THEN AnalyzeInScope(kind, ast.else_branch, s, BlockScope)
                       ELSE Made(nothing, s),
            SemConditional)

AnalyzeLabel(expr, st) == AnalyzeInScope("expression", expr, st, CaseScope(st))
AnalyzeCases(cases, st, kind) ==
    AnalyzeAll(LAMBDA c, s : AnalyzeCase(c, s, AnalyzeLabel, kind), cases, st)
AnalyzeSwitch(sw1tch, st, kind) ==
    AndThen(AnalyzeExpression(sw1tch.condition, st),
            LAMBDA s : AndThen(AnalyzeCases(sw1tch.cases, s, kind),
                               LAMBDA t : AnalyzeNode(kind, sw1tch.d3fault, t),
                               LAMBDA cases, def4ault : <<cases, def4ault>>),
            LAMBDA condition, rest : SemSwitch(condition, rest[1], rest[2]))

AnalyzeIife(iife, st) ==
    LET return_label == JumpId("IIFE", ToString(st.unique))
    IN With(AnalyzeInScope("statement", iife.stmt, [st EXCEPT !.unique = @ + 1],
                           IifeScope(return_label)),
            LAMBDA body : SemIife(return_label, body))

(***************************************************************************)
(* Reading (analyze_read.cxx): a local variable, then a definition, then a *)
(* global.  The question whether a private global may be read is asked the *)
(* wrong way round.                                                        *)
(***************************************************************************)
ReadGlobal(glob) ==
    IF ~IsThere(glob.found) THEN Failed(glob.st, "undefined_variable")
    ELSE IF glob.found.is_private /\ IsInsideOf(glob.found.namespaze, GetNamespace(glob.st))
    THEN Failed(glob.st, "private_global")
    ELSE Made(SemGlobalVar(glob.found.id), glob.st)
ReadDefinition(expr, def) ==
    IF IsThere(def.found) THEN Made(SemGlobalVar(def.found.id), def.st)
    ELSE ReadGlobal(ResolveGlobalVariable(def.st, expr.name, expr.namespaze))
LocalVariable(var, st) ==
    IF IsEmpty(var.namespaze) THEN ResolveLocalVariable(st, var.name) ELSE NoVariable
ReadVar(expr, st, local) ==
    IF local # NoVariable THEN Made(SemVar(local), st)
    ELSE ReadDefinition(expr, ResolveDefinition(st, expr.name, expr.namespaze))
AnalyzeVar(expr, st) == ReadVar(expr, st, LocalVariable(expr, st))
AnalyzeMember(access, st) ==
    With(AnalyzeExpression(access.expr, AddMember(st, access.name)),
         LAMBDA expr : SemMember(expr, MemberId(st, access.name)))

(***************************************************************************)
(* Functions and calls.                                                    *)
(***************************************************************************)
DoInvoke(call, st) ==
    With(AnalyzeExpressions(<<call.function_ptr>> \o call.arguments, st),
         LAMBDA n : SemInvoke(Head(n), Tail(n)))

\* The arguments beyond the simple parameters become a tuple.
PackedArguments(fx, arguments) ==
    LET n == Len(fx.simple)
    IN IF IsVariadic(fx)
       THEN Append(SubSeq(arguments, 1, n),
                   SemTuple(SubSeq(arguments, n + 1, Len(arguments))))
       ELSE arguments
AnalyzeArguments(call, fx, st) ==
    With(AnalyzeExpressions(call.arguments, st), LAMBDA n : PackedArguments(fx, n))

\* Slip: the namespace of the function has to be inside that of the call.
PrivateViolationReversed(fx, st) ==
    "private" \in fx.qualifiers /\ ~IsInsideOf(fx.namespaze, GetNamespace(st))
PrivateViolation(fx, st) ==
    "private" \in fx.qualifiers /\ ~IsInsideOf(GetNamespace(st), fx.namespaze)
MadeCall(fx, arguments) ==
    Made(SemCall(FunctionLabel(fx), arguments.node), RequireFunction(arguments.st, fx))
DoCallFunction(call, fx, st) ==
    IF PrivateViolation(fx, st) THEN Failed(st, "private_call_violation")
    ELSE IF IsConst(st) /\ "const" \notin fx.qualifiers
         THEN Failed(st, "const_call_violation")
    ELSE MadeCall(fx, AnalyzeArguments(call, fx, st))

\* A name is called: a local variable, a function, a definition, a global.
CallStatic(call, found, otherwise) ==
    IF IsThere(found.found) THEN DoInvoke(call, found.st) ELSE otherwise
CallGlobal(call, glob) == CallStatic(call, glob, Failed(glob.st, "undefined_function"))
CallDefinition(call, var, def) ==
    CallStatic(call, def,
               CallGlobal(call, ResolveGlobalVariable(def.st, var.name, var.namespaze)))
CallResolved(call, var, fx) ==
    IF IsThere(fx.found) THEN DoCallFunction(call, fx.found, fx.st)
    ELSE CallDefinition(call, var, ResolveDefinition(fx.st, var.name, var.namespaze))
CallVariable(call, var, st) ==
    IF LocalVariable(var, st) # NoVariable THEN DoInvoke(call, st)
    ELSE CallResolved(call, var,
             ResolveFunction(st, var.name, var.namespaze, Len(call.arguments), "ALLOWED"))
AnalyzeCall(call, st) ==
    IF call.function_ptr.t = "var" THEN CallVariable(call, call.function_ptr, st)
    ELSE DoInvoke(call, st)

InvokedMember(name, parts) ==
    Made(SemInvokeMember(Head(parts.node), MemberId(parts.st, name), Tail(parts.node)),
         AddMember(parts.st, name))
AnalyzeInvokeMember(invoke, st) ==
    InvokedMember(invoke.name, AnalyzeExpressions(<<invoke.object>> \o invoke.arguments, st))
AnalyzeForwardDynamicCall(forward, st) ==
    Made(SemInvoke(SemInteger(forward.address),
                   [i \in 1..forward.arity |-> SemVar(i - 1)]), st)
PointTo(fx) ==
    IF IsThere(fx.found)
    THEN Made(SemFxPointer(FunctionLabel(fx.found), <<>>), RequireFunction(fx.st, fx.found))
    ELSE Failed(fx.st, "undefined_function")
AnalyzeFxPointer(fx_ptr, st) ==
    PointTo(ResolveFunction(st, fx_ptr.name, fx_ptr.namespaze, fx_ptr.placeholders,
                            IF fx_ptr.is_variadic THEN "EXACT" ELSE "PROHIBITED"))

\* The captures are read here; the body is analysed later, in this namespace.
StagedLambda(lambda, captures) ==
    Made(SemFxPointer(FunctionLabel(lambda.fx), captures.node),
         StageFunction(captures.st,
                       Staged(lambda.fx, lambda.captures, GetNamespace(captures.st))))
AnalyzeLambda(lambda, st) == StagedLambda(lambda, AnalyzeExpressions(lambda.captures, st))

(***************************************************************************)
(* Reflection.                                                             *)
(***************************************************************************)
ReflectMembers ==
    <<"name", "full_name", "fx_ptr", "functions", "const", "private", "extern", "file",
      "line", "type">>
FxToQuery(fx) ==
    [q |-> "function", id |-> FunctionLabel(fx), name |-> fx.name,
     full_name |-> NamespaceText[fx.namespaze.path] \o fx.name, qualifiers |-> fx.qualifiers]
QueryOf(fx) ==
    IF IsThere(fx.found) THEN Made(FxToQuery(fx.found), RequireFunction(fx.st, fx.found))
    ELSE Failed(fx.st, "undefined_function")
AnalyzeFunctionQuery(query, st) ==
    QueryOf(ResolveFunction(st, query.name, query.namespaze, query.arity,
                            IF query.is_variadic THEN "REQUIRED" ELSE "PROHIBITED"))
\* All functions of the namespace, none where functions may not be used.
AnalyzeNamespaceQuery(query, st) ==
    LET here == IF "functions" \in Outermost(st.scopes).allowed
                THEN SelectSeq(st.functions, LAMBDA fx : fx.namespaze.path = query.namespaze.path)
                ELSE <<>>
    IN Made([q |-> "namespace", name |-> NamespaceText[query.namespaze.path],
             functions |-> [i \in DOMAIN here |-> FxToQuery(here[i])]],
            FoldLeft(RequireFunction, st, here))
AnalyzeQuery(query, st) ==
    CASE query.q = "function" -> AnalyzeFunctionQuery(query, st)
      [] query.q = "namespace" -> AnalyzeNamespaceQuery(query, st)
      [] OTHER -> Made(query, st)
ReflectedWith(query, known) ==
    Made(SemReflect(query, [m \in Range(ReflectMembers) |-> MemberId(known, m)]), known)
Reflected(query) == ReflectedWith(query.node, FoldLeft(AddMember, query.st, ReflectMembers))
AnalyzeReflect(refl, st) == Reflected(AnalyzeQuery(refl.query, st))

VisitExpression(expr, st) ==
    CASE expr.t = "integer" -> AnalyzeInteger(expr, st)
      [] expr.t = "float" -> AnalyzeFloat(expr, st)
      [] expr.t = "bool" -> AnalyzeBool(expr, st)
      [] expr.t = "null" -> AnalyzeNull(expr, st)
      [] expr.t = "char" -> AnalyzeChar(expr, st)
      [] expr.t = "string" -> AnalyzeString(expr, st)
      [] expr.t = "type" -> Made(SemType(expr.code), st)
      [] expr.t = "build_in" -> AnalyzeBuildIn(expr, st)
      [] expr.t = "custom_literal" -> AnalyzeCustomLiteral(expr, st)
      [] expr.t = "array" -> AnalyzeArray(expr, st)
      [] expr.t = "tuple" -> AnalyzeTuple(expr, st)
      [] expr.t = "map" -> AnalyzeMap(expr, st)
      [] expr.t = "struct" -> AnalyzeStruct(expr, st)
      [] expr.t = "unary" -> AnalyzeUnary(expr, st)
      [] expr.t = "binary" -> AnalyzeBinary(expr, st)
      [] expr.t = "ternary" -> AnalyzeTernary(expr, st)
      [] expr.t = "index" -> AnalyzeIndex(expr, st)
      [] expr.t = "conditional" -> AnalyzeConditional(expr, st, "expression", SemNull)
      [] expr.t = "choose" -> AnalyzeSwitch(expr, st, "expression")
      [] expr.t = "iife" -> AnalyzeIife(expr, st)
      [] expr.t = "var" -> AnalyzeVar(expr, st)
      [] expr.t = "member" -> AnalyzeMember(expr, st)
      [] expr.t = "call" -> AnalyzeCall(expr, st)
      [] expr.t = "invoke_member" -> AnalyzeInvokeMember(expr, st)
      [] expr.t = "forward_dynamic_call" -> AnalyzeForwardDynamicCall(expr, st)
      [] expr.t = "fx_pointer" -> AnalyzeFxPointer(expr, st)
      [] expr.t = "lambda" -> AnalyzeLambda(expr, st)
      [] expr.t = "reflect" -> AnalyzeReflect(expr, st)

(***************************************************************************)
(* Bindings and statements.                                                *)
(***************************************************************************)
BindVariable(binding, st) ==
    Made(BindNewVar(NextAddress(st)), DeclareVariable(st, binding.name))
BindSubBindings(binding, st) ==
    With(AnalyzeNodes("binding", binding.sub_bindings, st), BindGroup)
VisitBinding(binding, st) ==
    IF binding.t = "new_var" THEN BindVariable(binding, st) ELSE BindSubBindings(binding, st)

AnalyzeNewVar(new_var, st) ==
    AndThen(AnalyzeOptional(new_var.expr, st),
            LAMBDA s : AnalyzeBinding(new_var.binding, s),
            LAMBDA expr, binding : SemAssign(binding, expr))
MadeAssign(l, r, st) ==
    IF IsThere(ConvertToBinding(l)) THEN Made(SemAssign(ConvertToBinding(l), r), st)
    ELSE Failed(st, "left_side_not_assignable")
MadeAssignOf(parts) == MadeAssign(parts.node[1], parts.node[2], parts.st)
AnalyzeAssign(stmt, st) ==
    IF IsConst(st) THEN Failed(st, "const_assign_violation")
    ELSE MadeAssignOf(AnalyzeExpressions(<<stmt.l, stmt.r>>, st))
AnalyzeExpressionStatement(stmt, st) ==
    With(AnalyzeExpression(stmt.expr, st), LAMBDA expr : SemAssign(BindDiscard, expr))

AnalyzeBlock(block, st) ==
    Left(With(AnalyzeNodes("statement", block.statements, Enter(st, BlockScope)), SemBlock))
HasElseBranch(stmt) == stmt.else_branch.t \notin {"absent", "no_op"}
AnalyzeBranch(branch, st) == AnalyzeInScope("statement", branch, st, BlockScope)
AnalyzeBranches(stmt, st) ==
    AndThen(AnalyzeBranch(stmt.if_branch, st),
            LAMBDA s : IF HasElseBranch(stmt) THEN AnalyzeBranch(stmt.else_branch, s)
                       ELSE Made(Absent, s),
            LAMBDA i, e : <<i, e>>)
AnalyzeIfElse(stmt, st) ==
    AndThen(AnalyzeExpression(stmt.condition, st), LAMBDA s : AnalyzeBranches(stmt, s),
            LAMBDA c, branches : SemIfElse(c, branches[1], branches[2]))
AnalyzeWhile(stmt, st) ==
    AndThen(AnalyzeExpression(stmt.condition, st), LAMBDA s : AnalyzeBranch(stmt.body, s),
            SemWhile)
AnalyzeInfiniteLoop(stmt, st) == With(AnalyzeBranch(stmt.body, st), SemInfiniteLoop)
\* The loop declares two more variables, which its code does not use.
DeclareHidden(st) ==
    LET label == JumpId("FOREACH", ToString(st.unique))
    IN DeclareVariable(DeclareVariable([st EXCEPT !.unique = @ + 1], "_iterator_" \o label),
                       "_container_" \o label)
AnalyzeForEach(stmt, st) ==
    Left(AndThen(AnalyzeExpression(stmt.expr, Enter(st, BlockScope)),
                 LAMBDA s : AndThen(AnalyzeBinding(stmt.bind, s),
                                    LAMBDA t : AnalyzeStatement(stmt.body, DeclareHidden(t)),
                                    LAMBDA bind, body : <<bind, body>>),
                 LAMBDA expr, rest : SemForEach(rest[1], expr, rest[2])))

Returned(expr, st) ==
    IF IsCoroutine(st) THEN SemCoReturn(expr) ELSE SemReturn(expr, GetReturn(st))
AnalyzeReturn(ret, st) ==
    With(AnalyzeOptional(ret.expr, st), LAMBDA expr : Returned(expr, st))
AnalyzeThrow(thr0w, st) == With(AnalyzeOptional(thr0w.expr, st), SemThrow)
AnalyzeYield(yield, st) ==
    IF IsCoroutine(st) THEN With(AnalyzeOptional(yield.expr, st), SemYield)
    ELSE Failed(st, "yield_in_non_coroutine")

VisitStatement(stmt, st) ==
    CASE stmt.t = "block" -> AnalyzeBlock(stmt, st)
      [] stmt.t = "if_else" -> AnalyzeIfElse(stmt, st)
      [] stmt.t = "while" -> AnalyzeWhile(stmt, st)
      [] stmt.t = "infinite_loop" -> AnalyzeInfiniteLoop(stmt, st)
      [] stmt.t = "for_each" -> AnalyzeForEach(stmt, st)
      [] stmt.t = "new_var" -> AnalyzeNewVar(stmt, st)
      [] stmt.t = "return" -> AnalyzeReturn(stmt, st)
      [] stmt.t = "throw" -> AnalyzeThrow(stmt, st)
      [] stmt.t = "switch" -> AnalyzeSwitch(stmt, st, "statement")
      [] stmt.t = "expression" -> AnalyzeExpressionStatement(stmt, st)
      [] stmt.t = "conditional" -> AnalyzeConditional(stmt, st, "statement", SemNoOp)
      [] stmt.t = "no_op" -> Made(SemNoOp, st)
      [] stmt.t = "assign" -> AnalyzeAssign(stmt, st)
      [] stmt.t = "yield" -> AnalyzeYield(stmt, st)

AnalyzeNode(kind, node, st) ==
    CASE kind = "expression" -> VisitExpression(node, st)
      [] kind = "statement" -> VisitStatement(node, st)
      [] kind = "binding" -> VisitBinding(node, st)

(***************************************************************************)
(* Declarations.                                                           *)
(***************************************************************************)
\* The parameters, the variadic one after the others, then the captures.
ParameterNames(fx, captures) ==
    fx.simple \o (IF IsVariadic(fx) THEN <<fx.variadic>> ELSE <<>>)
        \o [i \in DOMAIN captures |-> captures[i].name]
AnalyzeExcept(except, st) ==
    Left(With(AnalyzeStatement(except.body,
                  DeclareVariable(Enter(st, ExceptScope(st)), except.errorname)),
              LAMBDA body : SemExcept(except.errorname, body)))
AnalyzeOptionalExcept(fx, st) ==
    IF ~IsThere(fx.except) THEN Made(Absent, st)
    ELSE IF "coroutine" \in fx.qualifiers THEN Failed(st, "except_in_coroutine")
    ELSE AnalyzeExcept(fx.except, st)
AnalyzeFunction(fx, captures, st) ==
    AndThen(AnalyzeStatement(fx.body, FoldLeft(DeclareVariable, st, ParameterNames(fx, captures))),
            LAMBDA s : AnalyzeOptionalExcept(fx, s),
            LAMBDA body, except : SemFunction(fx, body, except, FunctionLabel(fx)))

AnalyzeStatic(statik, st, id, allowed) ==
    Left(With(AnalyzeOptional(statik.expr,
                              Enter(st, MajorScope(statik.namespaze, {}, allowed))),
              LAMBDA expr : SemStatic(statik, expr, id)))
AnalyzeDefinition(def, st, id) == AnalyzeStatic(def, st, id, {})
AnalyzeGlobal(global, st, id) == AnalyzeStatic(global, st, id, {"definitions"})
AnalyzeEnumeration(enumeration, first) ==
    [i \in DOMAIN enumeration.labels |->
        SemStatic(DDefinition(enumeration.labels[i].name,
                              Joined(enumeration.namespaze, Namespace(<<enumeration.name>>)),
                              Absent),
                  SemInteger(enumeration.labels[i].value), first + i - 1)]

\* One number after the other for every enumerator, definition and global.
AnalyzeEnumerations(enums) ==
    FoldLeft(LAMBDA acc, e : acc \o AnalyzeEnumeration(e, Len(acc)), <<>>, enums)
AnalyzeStatics(statics, st, first, Analyze(_, _, _)) ==
    AnalyzeAll(LAMBDA i, s : Analyze(statics[i], s, first + i - 1),
               [i \in DOMAIN statics |-> i], st)

FindExternFunctions(functions) ==
    SelectSeq(functions, LAMBDA fx :
        "extern" \in fx.qualifiers \/ (fx.name = "main" /\ Len(fx.simple) \in {0, 1}))

AnalyzeStaged(staged, st) ==
    Left(AnalyzeFunction(staged.fx, staged.captures,
                         Enter(st, FunctionScope(staged.namespaze, staged.fx.qualifiers))))

\* Slip: the functions a function needs are not looked at.
AnalyzeQueueOnce(st) == AnalyzeAll(AnalyzeStaged, st.queue, [st EXCEPT !.queue = <<>>])
RECURSIVE AnalyzeQueue(_)
AnalyzeQueue(st) ==
    IF st.queue = <<>> \/ Broken(st) THEN Made(<<>>, st)
    ELSE AndThen(AnalyzeStaged(Head(st.queue), [st EXCEPT !.queue = Tail(@)]),
                 AnalyzeQueue, LAMBDA fx, rest : <<fx>> \o rest)

\* The three phases of Analyze: the tables of the statics are filled, their
\* values being analysed, then that of the functions.
InsertStatics(table, made) ==
    Made(made.node, FoldLeft(LAMBDA st, d : InsertStatic(st, table, d), made.st, made.node))
AnalyzeDefinitions(source) ==
    LET enumerators == AnalyzeEnumerations(source.enums)
    IN InsertStatics("definitions",
           With(AnalyzeStatics(source.definitions, Context, Len(enumerators), AnalyzeDefinition),
                LAMBDA defs : enumerators \o defs))
AnalyzeGlobals(source, st, first) ==
    InsertStatics("globals", AnalyzeStatics(source.globals, st, first, AnalyzeGlobal))
AnalyzeFunctions(source, st) ==
    AnalyzeQueue(FoldLeft(RequireFunction, FoldLeft(InsertFunction, st, source.functions),
                          FindExternFunctions(source.functions)))
AnalyzeRest(source, defs) ==
    AndThen(AnalyzeGlobals(source, defs.st, Len(defs.node)),
            LAMBDA st : AnalyzeFunctions(source, st),
            LAMBDA globals, functions : <<defs.node, globals, functions>>)
Whole(parts) ==
    Made(SemProgram(parts.node[3], parts.node[1], parts.node[2], parts.st.members), parts.st)
Analyze(source) == Whole(AnalyzeRest(source, AnalyzeDefinitions(source)))
=============================================================================
