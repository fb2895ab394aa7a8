------------------------------ MODULE Codegen ------------------------------
(***************************************************************************)
(* Code generation (ltnc/compile): the instructions of semantic trees, and *)
(* the peephole pass over them (ltnc/peephole).                            *)
(*                                                                         *)
(* make_jump_id numbers the jumps of a compilation; here a jump is named   *)
(* after the place (at) of its node in the program.  An error the code     *)
(* throws is an instruction of its own, "refused".                         *)
(***************************************************************************)
EXTENDS Scoping, Semantic, Instructions

Do(op) == <<Inst(op)>>
Label(label) == <<WithLabel("label", label)>>
Jump(op, label) == <<WithLabel(op, label)>>
Word(op, value) == <<WithValue(op, value)>>
Refused(what) == <<WithLabel("refused", what)>>
Inside(at, i) == at \o "." \o ToString(i)

RECURSIVE CompileExpression(_, _), CompileStatement(_, _), CompileBinding(_, _)

\* The code of a sequence of nodes, one after the other.
CompileAll(nodes, at, Compile(_, _)) ==
    FlattenSeq([i \in DOMAIN nodes |-> Compile(nodes[i], Inside(at, i))])
CompileExpressions(exprs, at) == CompileAll(exprs, at, CompileExpression)

(***************************************************************************)
(* Literals.                                                               *)
(***************************************************************************)
PickIntInst(value) ==
    CASE value = 0 -> Do("newi_const_0")
      [] value = 1 -> Do("newi_const_1")
      [] value = 2 -> Do("newi_const_2")
      [] value \notin 0..2 /\ value \in -128..127 -> Word("newi_small", Byte(value))
      [] OTHER -> Word("newi", value)
CompileBool(value) == Do(IF value THEN "true" ELSE "false")
CompileString(text) == <<WithText("newstr", text)>>
CompileBuildIn(key) ==
    IF BuildInCode(key) = -1 THEN Refused("unknown_build_in")
    ELSE Word("build_in", BuildInCode(key))
CompileArray(array, at) ==
    CompileExpressions(array.elements, at) \o Word("newarr", Len(array.elements))
CompileTuple(tuple, at) ==
    CompileExpressions(tuple.elements, at) \o Word("newtuple", Len(tuple.elements))
CompileStruct(init, at) ==
    LET member(m, here) ==
            Do("duplicate") \o CompileExpression(m.expr, here)
                \o Do("swap") \o Word("member_write", m.address)
    IN Do("newstruct") \o CompileAll(init.members, at, member)
CompileMap(map, at) ==
    LET pair(p, here) ==
            Do("duplicate") \o CompileExpression(p.val, Inside(here, "v"))
                \o Do("swap") \o CompileExpression(p.key, here) \o Do("at_write")
    IN Do("newmap") \o CompileAll(map.pairs, at, pair)

(***************************************************************************)
(* Operators.                                                              *)
(***************************************************************************)
UnaryInst == [NEG |-> "neg", NOT |-> "not", BITNOT |-> "bit_not", DEREF |-> "deref"]
NullTest(x) == x \o Do("null") \o Do("ueql")
CompileUnary(expr, at) ==
    LET x == CompileExpression(expr.expr, Inside(at, 1))
    IN IF expr.op = "NUL" THEN NullTest(x) ELSE x \o Do(UnaryInst[expr.op])

BinaryInst ==
    [ADD |-> "add", SUB |-> "sub", MLT |-> "mlt", DIV |-> "div", MOD |-> "mod",
     POW |-> "pow", SMALLER |-> "lt", BIGGER |-> "gt", SMALLEREQUAL |-> "lt_eql",
     BIGGEREQUAL |-> "gt_eql", EQUAL |-> "eql", UNEQUEL |-> "ueql", SPACE_SHIP |-> "comp",
     SHIFT_L |-> "shift_l", SHIFT_R |-> "shift_r", BIT_AND |-> "bit_and",
     BIT_OR |-> "bit_or", BIT_XOR |-> "bit_xor"]
LogAnd(l, r, at) ==
    LET false == JumpId("AND", at) \o "FALSE"
        end == JumpId("AND", at) \o "_END"
    IN l \o Jump("ifelse", false) \o r \o Do("cast_bool") \o Jump("jump", end)
         \o Label(false) \o Do("false") \o Label(end)
LogOr(l, r, at) ==
    LET true == JumpId("OR", at) \o "_TRUE"
        end == JumpId("OR", at) \o "_END"
    IN l \o Do("not") \o Jump("ifelse", true) \o r \o Do("cast_bool") \o Jump("jump", end)
         \o Label(true) \o Do("true") \o Label(end)
\* elvis and nullco: the left operand, unless the test of its duplicate fails.
\* Slip: the left operand stays below the right one.
KeepUnlessUnscrapped(l, test, r, name) ==
    l \o Do("duplicate") \o test \o Jump("ifelse", name \o "_ELSE")
        \o Jump("jump", name \o "_END")
        \o Label(name \o "_ELSE") \o r \o Label(name \o "_END")
KeepUnless(l, test, r, name) ==
    l \o Do("duplicate") \o test \o Jump("ifelse", name \o "_ELSE")
        \o Jump("jump", name \o "_END")
        \o Label(name \o "_ELSE") \o Do("scrap") \o r \o Label(name \o "_END")
CompileBinary(binary, at) ==
    LET l == CompileExpression(binary.l, Inside(at, 1))
        r == CompileExpression(binary.r, Inside(at, 2))
    IN CASE binary.op = "AND" -> LogAnd(l, r, at)
         [] binary.op = "OR" -> LogOr(l, r, at)
         [] binary.op = "ELVIS" -> KeepUnless(l, <<>>, r, JumpId("ELVIS", at))
         [] binary.op = "NULLCO" -> KeepUnless(l, NullTest(<<>>), r, JumpId("NULLCO", at))
         [] OTHER -> l \o r \o Do(BinaryInst[binary.op])

(***************************************************************************)
(* Choices.                                                                *)
(***************************************************************************)
CompileConditional(name, condition, if_branch, else_branch) ==
    condition \o Jump("ifelse", name \o "_ELSE")
        \o if_branch \o Jump("jump", name \o "_END")
        \o Label(name \o "_ELSE") \o else_branch \o Label(name \o "_END")
CompileWithoutElse(name, condition, if_branch) ==
    condition \o Jump("ifelse", name \o "_ELSE") \o if_branch \o Label(name \o "_ELSE")
CompileTernary(expr, at) ==
    CompileConditional(JumpId("TERNARY", at), CompileExpression(expr.condition, Inside(at, 1)),
        CompileExpression(expr.if_branch, Inside(at, 2)),
        CompileExpression(expr.else_branch, Inside(at, 3)))
CompileIfElse(stmt, at) ==
    LET name == JumpId("IF", at)
        condition == CompileExpression(stmt.condition, Inside(at, 1))
        if_branch == CompileStatement(stmt.if_branch, Inside(at, 2))
    IN IF stmt.else_branch.t \in {"absent", "no_op"}
       THEN CompileWithoutElse(name, condition, if_branch)
       ELSE CompileConditional(name, condition, if_branch,
                               CompileStatement(stmt.else_branch, Inside(at, 3)))

CompileCascade(sst, at, CompileBody(_, _)) ==
    LET id == JumpId("CONDTIONAL", at)
        end == id \o "_END"
        label(i) == id \o "_" \o ToString(i)
        case(i) ==
            Label(label(i)) \o CompileExpression(sst.cases[i].cond, Inside(Inside(at, i), "c"))
                \o Jump("ifelse", label(i + 1))
                \o CompileBody(sst.cases[i].body, Inside(at, i)) \o Jump("jump", end)
    IN FlattenSeq([i \in DOMAIN sst.cases |-> case(i)])
         \o Label(label(Len(sst.cases) + 1)) \o CompileBody(sst.else_branch, at \o "e")
         \o Label(end)

AnySwitch(sw1tch, at, CompileBody(_, _)) ==
    LET id == JumpId("SWITCH", at)
        end == id \o "_END"
        label(i) == id \o "_CASE_" \o ToString(i)
        test(i) ==
            Do("duplicate")
                \o CompileExpression(sw1tch.cases[i].cond, Inside(Inside(at, i), "c"))
                \o Do("ueql") \o Jump("ifelse", label(i))
        body(i) ==
            Label(label(i)) \o Do("scrap") \o CompileBody(sw1tch.cases[i].body, Inside(at, i))
                \o Jump("jump", end)
        each(Part(_)) == FlattenSeq([i \in DOMAIN sw1tch.cases |-> Part(i)])
    IN CompileExpression(sw1tch.condition, at \o "c") \o each(test)
         \o Do("scrap") \o CompileBody(sw1tch.d3fault, at \o "d") \o Jump("jump", end)
         \o each(body) \o Label(end)

(***************************************************************************)
(* Calls and functions.                                                    *)
(***************************************************************************)
Invocation(arity) ==
    IF arity > 255 THEN Refused("arity_limit") ELSE Word("invoke", arity)
CompileInvoke(invoke, at) ==
    CompileExpressions(invoke.arguments, at)
        \o CompileExpression(invoke.function_ptr, at \o "f")
        \o Invocation(Len(invoke.arguments))
CompileCall(call, at) ==
    CompileExpressions(call.arguments, at) \o Jump("call", call.label)
\* The object is the first argument, below the function that it contains.
CompileInvokeMember(invoke, at) ==
    LET argument(arg, here) == CompileExpression(arg, here) \o Do("swap")
    IN CompileExpression(invoke.object, at \o "o")
         \o Do("duplicate") \o Word("member_read", invoke.member_id)
         \o CompileAll(invoke.arguments, at, argument)
         \o Invocation(Len(invoke.arguments) + 1)
CompileFxPointer(fx_ptr, at) ==
    LET capture(c, here) == CompileExpression(c, here) \o Do("capture")
    IN Jump("newfx", fx_ptr.label) \o CompileAll(fx_ptr.captures, at, capture)
CompileIife(iife, at) ==
    CompileStatement(iife.stmt, Inside(at, 1)) \o Do("null") \o Label(iife.return_label)

(***************************************************************************)
(* Reflection: structs whose members the compiler fills in.                *)
(***************************************************************************)
SetMember(address, init) ==
    Do("duplicate") \o init \o Do("swap") \o Word("member_write", address)
CompileFunctionQuery(address, query) ==
    Do("newstruct") \o SetMember(address["name"], CompileString(query.name))
        \o SetMember(address["full_name"], CompileString(query.full_name))
        \o SetMember(address["fx_ptr"], Jump("newfx", query.id))
        \o FlattenSeq([i \in 1..3 |->
              LET q == <<"const", "private", "extern">>[i]
              IN SetMember(address[q], CompileBool(q \in query.qualifiers))])
CompileNamespaceQuery(address, query) ==
    LET functions == FlattenSeq([i \in DOMAIN query.functions |->
                                    CompileFunctionQuery(address, query.functions[i])])
    IN Do("newstruct") \o SetMember(address["name"], CompileString(query.name))
         \o SetMember(address["functions"],
                      functions \o Word("newarr", Len(query.functions)))
CompileLineQuery(query) == Word("newi", query.line)
CompileFileQuery(address, query) ==
    Do("newstruct") \o SetMember(address["name"], CompileString(query.file))
CompileLocationQuery(address, query) ==
    Do("newstruct") \o SetMember(address["line"], CompileLineQuery(query))
        \o SetMember(address["file"], CompileFileQuery(address, query))
CompileReflect(address, query) ==
    CASE query.q = "function" -> CompileFunctionQuery(address, query)
      [] query.q = "namespace" -> CompileNamespaceQuery(address, query)
      [] query.q = "line" -> CompileLineQuery(query)
      [] query.q = "file" -> CompileFileQuery(address, query)
      [] query.q = "location" -> CompileLocationQuery(address, query)

CompileExpression(expr, at) ==
    CASE expr.t = "integer" -> PickIntInst(expr.value)
      [] expr.t = "float" -> <<WithFloat("newf", expr.value)>>
      [] expr.t = "bool" -> CompileBool(expr.value)
      [] expr.t = "null" -> Do("null")
      [] expr.t = "char" -> Word("newc", Byte(expr.value))
      [] expr.t = "string" -> CompileString(expr.value)
      [] expr.t = "type" -> <<WithBytes("newtype", expr.code)>>
      [] expr.t = "build_in" -> CompileBuildIn(expr.key)
      [] expr.t = "array" -> CompileArray(expr, at)
      [] expr.t = "tuple" -> CompileTuple(expr, at)
      [] expr.t = "map" -> CompileMap(expr, at)
      [] expr.t = "struct" -> CompileStruct(expr, at)
      [] expr.t = "unary" -> CompileUnary(expr, at)
      [] expr.t = "binary" -> CompileBinary(expr, at)
      [] expr.t = "ternary" -> CompileTernary(expr, at)
      [] expr.t = "conditional" -> CompileCascade(expr, at, CompileExpression)
      [] expr.t = "switch" -> AnySwitch(expr, at, CompileExpression)
      [] expr.t = "iife" -> CompileIife(expr, at)
      [] expr.t = "var" -> Word("load_x", expr.address)
      [] expr.t = "global_var" -> Word("global_read", expr.address)
      [] expr.t = "member" ->
            CompileExpression(expr.expr, Inside(at, 1)) \o Word("member_read", expr.address)
      [] expr.t = "index" ->
            CompileExpression(expr.expr, Inside(at, 1))
                \o CompileExpression(expr.index, Inside(at, 2)) \o Do("at")
      [] expr.t = "call" -> CompileCall(expr, at)
      [] expr.t = "invoke" -> CompileInvoke(expr, at)
      [] expr.t = "invoke_member" -> CompileInvokeMember(expr, at)
      [] expr.t = "fx_pointer" -> CompileFxPointer(expr, at)
      [] expr.t = "reflect" -> CompileReflect(expr.address, expr.query)

(***************************************************************************)
(* Bindings and statements.                                                *)
(***************************************************************************)
CompileGroup(bind, at) ==
    Word("unpack", Byte(Len(bind.sub_bindings)))
        \o CompileAll(bind.sub_bindings, at, CompileBinding)
CompileBinding(bind, at) ==
    CASE bind.t \in {"new_var", "local"} -> Word("store_x", bind.address)
      [] bind.t = "group" -> CompileGroup(bind, at)
      [] bind.t = "discard" -> Do("scrap")
      [] bind.t = "global" -> Word("global_write", bind.address)
      [] bind.t = "member" ->
            CompileExpression(bind.object, at \o "b") \o Word("member_write", bind.address)
      [] bind.t = "index" ->
            CompileExpression(bind.range, at \o "b") \o CompileExpression(bind.index, at \o "i")
                \o Do("at_write")

CompileAssign(stmt, at) ==
    CompileExpression(stmt.expr, Inside(at, 1)) \o CompileBinding(stmt.binding, Inside(at, 2))
CompileReturn(ret, at) ==
    CompileExpression(ret.expr, at)
        \o IF ret.overide_label # "" THEN Jump("jump", ret.overide_label) ELSE Do("return")
CompileCoReturn(stmt, at) == CompileExpression(stmt.expr, at) \o Do("co_return")
CompileYield(stmt, at) == CompileExpression(stmt.expr, at) \o Do("yield")
CompileThrow(stmt, at) == CompileExpression(stmt.expr, at) \o Do("throw")

CompileBlock(block, at) == CompileAll(block.statements, at, CompileStatement)
CompileWhile(stmt, at) ==
    LET name == JumpId("WHILE", at)
    IN Label(name \o "_BEGIN") \o CompileExpression(stmt.condition, Inside(at, 1))
         \o Jump("ifelse", name \o "_END") \o CompileStatement(stmt.body, Inside(at, 2))
         \o Jump("jump", name \o "_BEGIN") \o Label(name \o "_END")
CompileInfiniteLoop(stmt, at) ==
    LET jump == JumpId("INFINETE_LOOP", at)
    IN Label(jump) \o CompileStatement(stmt.body, Inside(at, 1)) \o Jump("jump", jump)
CompileForEach(stmt, at) ==
    LET end == JumpId("FOREACH_END", at)
        top == JumpId("FOREACH_BODY", at)
    IN CompileExpression(stmt.expr, Inside(at, 1)) \o Do("iter")
         \o Label(top) \o Jump("for_next", end)
         \o CompileBinding(stmt.bind, Inside(at, 2)) \o CompileStatement(stmt.body, Inside(at, 3))
         \o Jump("jump", top) \o Label(end) \o Do("scrap") \o Do("scrap")

CompileStatement(stmt, at) ==
    CASE stmt.t = "block" -> CompileBlock(stmt, at)
      [] stmt.t = "assign" -> CompileAssign(stmt, at)
      [] stmt.t = "if_else" -> CompileIfElse(stmt, at)
      [] stmt.t = "while" -> CompileWhile(stmt, at)
      [] stmt.t = "infinite_loop" -> CompileInfiniteLoop(stmt, at)
      [] stmt.t = "for_each" -> CompileForEach(stmt, at)
      [] stmt.t = "conditional" -> CompileCascade(stmt, at, CompileStatement)
      [] stmt.t = "switch" -> AnySwitch(stmt, at, CompileStatement)
      [] stmt.t = "return" -> CompileReturn(stmt, at)
      [] stmt.t = "co_return" -> CompileCoReturn(stmt, at)
      [] stmt.t = "throw" -> CompileThrow(stmt, at)
      [] stmt.t = "yield" -> CompileYield(stmt, at)
      [] stmt.t = "no_op" -> <<>>

(***************************************************************************)
(* Functions and programs.                                                 *)
(***************************************************************************)
CompileExcept(except, label, at) ==
    Label(label) \o CompileStatement(except.body, at) \o Do("null") \o Do("return")
CompileFunction(fx, at) ==
    LET handler == DeriveExcept(fx.label)
        coroutine == "coroutine" \in fx.qualifiers
    IN Label(fx.label)
         \o (IF IsThere(fx.except) THEN Jump("try", handler) ELSE <<>>)
         \o (IF coroutine THEN Do("co_dump") ELSE <<>>)
         \o CompileStatement(fx.body, at) \o Do("null")
         \o Do(IF coroutine THEN "co_return" ELSE "return")
         \o (IF IsThere(fx.except) THEN CompileExcept(fx.except, handler, at \o "e") ELSE <<>>)

\* The initial values of the definitions and globals stay on the stack.
StaticInit(statics, at) ==
    CompileAll(statics, at, LAMBDA s, here : CompileExpression(s.expr, here))
Compile(program) ==
    StaticInit(program.definitions, "d") \o StaticInit(program.globals, "g")
        \o Do("null") \o Do("exit")
        \o CompileAll(program.functions, "f", CompileFunction)
        \o Do("exit")

(***************************************************************************)
(* peephole.cxx: at each position the first pattern that is found there.   *)
(***************************************************************************)
NullAndReturn == <<Inst("null"), Inst("return")>>
FastSlots(op, fast) ==
    [i \in 1..4 |-> [search |-> Word(op, i - 1), replace |-> Do(fast \o ToString(i - 1))]]
Patterns ==
    FastSlots("load_x", "load_") \o FastSlots("store_x", "store_") \o
    <<[search |-> Word("newi", 1) \o Do("add"), replace |-> Do("inc")],
      [search |-> Word("newi", 1) \o Do("sub"), replace |-> Do("dec")],
      [search |-> NullAndReturn \o NullAndReturn, replace |-> Do("return_null")],
      [search |-> Do("return") \o NullAndReturn, replace |-> Do("return")],
      [search |-> NullAndReturn, replace |-> Do("return_null")]>>
RECURSIVE Transform(_)
Transform(code) ==
    LET p == SelectInSeq(Patterns, LAMBDA q : IsPrefix(q.search, code))
    IN IF code = <<>> THEN <<>>
       ELSE IF p = 0 THEN <<Head(code)>> \o Transform(Tail(code))
       ELSE Patterns[p].replace
              \o Transform(SubSeq(code, Len(Patterns[p].search) + 1, Len(code)))
Peephole(code) == Transform(code)
=============================================================================
