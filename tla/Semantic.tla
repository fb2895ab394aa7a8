------------------------------ MODULE Semantic ------------------------------
(***************************************************************************)
(* The trees the analyzer makes (ltnc/sst): names are resolved to slots,   *)
(* ids and labels.  Every class knows how many slots of the window its     *)
(* code uses: an expression its alloc, a statement the slots of variables  *)
(* that live on after it (persistent) and the others (temporary).  The     *)
(* frame of a function is as large as its body says (link.cxx).            *)
(***************************************************************************)
EXTENDS Syntax, SequencesExt

\* The greatest value of Op over a sequence of nodes, at least 0, and the sum.
Greatest(seq, Op(_)) == Max({0} \cup {Op(seq[i]) : i \in DOMAIN seq})
Total(seq, Op(_)) == FoldLeft(LAMBDA sum, x : sum + Op(x), 0, seq)
Larger(a, b) == IF a < b THEN b ELSE a

(***************************************************************************)
(* Expressions.                                                            *)
(***************************************************************************)
SemanticExpressions ==
    {"array", "binary", "bool", "build_in", "call", "char", "conditional", "float",
     "fx_pointer", "global_var", "iife", "index", "integer", "invoke", "invoke_member",
     "map", "member", "null", "reflect", "string", "struct", "switch", "ternary", "tuple",
     "type", "unary", "var"}
Literals == {"bool", "integer", "float", "char", "null", "string"}

SemInteger(value) == [t |-> "integer", value |-> value]
SemFloat(value) == [t |-> "float", value |-> value]
SemBool(value) == [t |-> "bool", value |-> value]
SemChar(value) == [t |-> "char", value |-> value]
SemString(value) == [t |-> "string", value |-> value]
SemNull == [t |-> "null", value |-> 0]
SemType(code) == [t |-> "type", code |-> code]
SemBuildIn(key) == [t |-> "build_in", key |-> key]
SemArray(elements) == [t |-> "array", elements |-> elements]
SemTuple(elements) == [t |-> "tuple", elements |-> elements]
SemMap(pairs) == [t |-> "map", pairs |-> pairs]               \* of [key, val]
SemStruct(members) == [t |-> "struct", members |-> members]   \* of [address, expr]
SemVar(address) == [t |-> "var", address |-> address]
SemGlobalVar(address) == [t |-> "global_var", address |-> address]
SemMember(expr, address) == [t |-> "member", expr |-> expr, address |-> address]
SemIndex(expr, index) == [t |-> "index", expr |-> expr, index |-> index]
SemFxPointer(label, captures) == [t |-> "fx_pointer", label |-> label, captures |-> captures]
SemCall(label, arguments) == [t |-> "call", label |-> label, arguments |-> arguments]
SemInvoke(function_ptr, arguments) ==
    [t |-> "invoke", function_ptr |-> function_ptr, arguments |-> arguments]
SemInvokeMember(object, member_id, arguments) ==
    [t |-> "invoke_member", object |-> object, member_id |-> member_id,
     arguments |-> arguments]
SemUnary(op, expr) == [t |-> "unary", op |-> op, expr |-> expr]
SemBinary(op, l, r) == [t |-> "binary", op |-> op, l |-> l, r |-> r]
SemTernary(condition, if_branch, else_branch) ==
    [t |-> "ternary", condition |-> condition, if_branch |-> if_branch,
     else_branch |-> else_branch]
SemConditional(cases, else_branch) ==                         \* of [cond, body]
    [t |-> "conditional", cases |-> cases, else_branch |-> else_branch]
SemSwitch(condition, cases, d3fault) ==                       \* of [cond, body]
    [t |-> "switch", condition |-> condition, cases |-> cases, d3fault |-> d3fault]
SemIife(return_label, stmt) == [t |-> "iife", return_label |-> return_label, stmt |-> stmt]
SemReflect(query, address) == [t |-> "reflect", query |-> query, address |-> address]

(***************************************************************************)
(* Bindings: what an assignment writes to.                                 *)
(***************************************************************************)
BindDiscard == [t |-> "discard"]
BindNewVar(address) == [t |-> "new_var", address |-> address]
BindLocal(address) == [t |-> "local", address |-> address]
BindGlobal(address) == [t |-> "global", address |-> address]
BindIndex(range, index) == [t |-> "index", range |-> range, index |-> index]
BindMember(object, address) == [t |-> "member", object |-> object, address |-> address]
BindGroup(sub_bindings) == [t |-> "group", sub_bindings |-> sub_bindings]

\* convert_to_bindung: only these expressions stand for a place.
ConvertToBinding(expr) ==
    CASE expr.t = "var" -> BindLocal(expr.address)
      [] expr.t = "global_var" -> BindGlobal(expr.address)
      [] expr.t = "index" -> BindIndex(expr.expr, expr.index)
      [] expr.t = "member" -> BindMember(expr.expr, expr.address)
      [] OTHER -> Absent

RECURSIVE AllocCount(_)
AllocCount(bind) ==
    CASE bind.t = "new_var" -> 1
      [] bind.t = "group" -> Total(bind.sub_bindings, AllocCount)
      [] OTHER -> 0

(***************************************************************************)
(* Statements, functions and programs.  An Absent return label is "".      *)
(***************************************************************************)
SemBlock(statements) == [t |-> "block", statements |-> statements]
SemAssign(binding, expr) == [t |-> "assign", binding |-> binding, expr |-> expr]
SemReturn(expr, overide_label) ==
    [t |-> "return", expr |-> expr, overide_label |-> overide_label]
SemCoReturn(expr) == [t |-> "co_return", expr |-> expr]
SemThrow(expr) == [t |-> "throw", expr |-> expr]
SemYield(expr) == [t |-> "yield", expr |-> expr]
SemIfElse(condition, if_branch, else_branch) ==
    [t |-> "if_else", condition |-> condition, if_branch |-> if_branch,
     else_branch |-> else_branch]
SemWhile(condition, body) == [t |-> "while", condition |-> condition, body |-> body]
SemInfiniteLoop(body) == [t |-> "infinite_loop", body |-> body]
SemForEach(bind, expr, body) ==
    [t |-> "for_each", bind |-> bind, expr |-> expr, body |-> body]
SemNoOp == [t |-> "no_op"]

SemFunction(fx, body, except, label) ==
    [name |-> fx.name, namespaze |-> fx.namespaze, label |-> label,
     arity |-> Len(fx.simple) % 256, qualifiers |-> fx.qualifiers,
     is_variadic |-> IsVariadic(fx), body |-> body, except |-> except]
SemExcept(errorname, body) == [t |-> "except", errorname |-> errorname, body |-> body]
SemStatic(statik, expr, id) ==
    [t |-> "static", name |-> statik.name, namespaze |-> statik.namespaze, expr |-> expr,
     id |-> id, is_extern |-> statik.is_extern, is_private |-> statik.is_private]
SemProgram(functions, definitions, globals, member_name_table) ==
    [functions |-> functions, definitions |-> definitions, globals |-> globals,
     member_name_table |-> member_name_table]

(***************************************************************************)
(* Slots (alloc, temporary_alloc, persistent_alloc).                       *)
(***************************************************************************)
RECURSIVE Alloc(_), TemporaryAlloc(_)

PersistentAlloc(stmt) == IF stmt.t = "assign" THEN AllocCount(stmt.binding) ELSE 0
TotalAlloc(stmt) == TemporaryAlloc(stmt) + PersistentAlloc(stmt)

ElementsAlloc(node) == Greatest(node.elements, Alloc)
TupleAlloc(node) == Greatest(node.elements, Alloc)
MapAlloc(node) == Greatest(node.pairs, LAMBDA p : Alloc(p.key) + Alloc(p.val))
StructAlloc(node) == Greatest(node.members, LAMBDA m : Alloc(m.expr))
IndexAlloc(node) == Larger(Alloc(node.expr), Alloc(node.index))
MemberAlloc(node) == 0
CallAlloc(node) == Greatest(node.arguments, Alloc)
InvokeAlloc(node) == Larger(Greatest(node.arguments, Alloc), Alloc(node.function_ptr))
InvokeMemberAlloc(node) == Larger(Greatest(node.arguments, Alloc), Alloc(node.object))
UnaryAlloc(node) == Alloc(node.expr)
BinaryAlloc(node) == Larger(Alloc(node.l), Alloc(node.r))
TernaryAlloc(node) ==
    Larger(Alloc(node.condition), Larger(Alloc(node.if_branch), Alloc(node.else_branch)))
ConditionalAlloc(node) ==
    Larger(Alloc(node.else_branch),
           Greatest(node.cases, LAMBDA c : Larger(Alloc(c.cond), Alloc(c.body))))
\* The condition and the default are left out.
SwitchAlloc(node) == Greatest(node.cases, LAMBDA c : Larger(Alloc(c.cond), Alloc(c.body)))
IifeAlloc(node) == PersistentAlloc(node.stmt) + TemporaryAlloc(node.stmt)

Alloc(node) ==
    CASE node.t = "array" -> ElementsAlloc(node)
      [] node.t = "tuple" -> TupleAlloc(node)
      [] node.t = "map" -> MapAlloc(node)
      [] node.t = "struct" -> StructAlloc(node)
      [] node.t = "index" -> IndexAlloc(node)
      [] node.t = "member" -> MemberAlloc(node)
      [] node.t = "call" -> CallAlloc(node)
      [] node.t = "invoke" -> InvokeAlloc(node)
      [] node.t = "invoke_member" -> InvokeMemberAlloc(node)
      [] node.t = "unary" -> UnaryAlloc(node)
      [] node.t = "binary" -> BinaryAlloc(node)
      [] node.t = "ternary" -> TernaryAlloc(node)
      [] node.t = "conditional" -> ConditionalAlloc(node)
      [] node.t = "switch" -> SwitchAlloc(node)
      [] node.t = "iife" -> IifeAlloc(node)
      [] OTHER -> 0

BlockTemporary(stmt) ==
    Greatest(stmt.statements, TemporaryAlloc) + Total(stmt.statements, PersistentAlloc)
AssignTemporary(stmt) == Alloc(stmt.expr)
IfElseTemporary(stmt) ==
    Larger(Alloc(stmt.condition),
           Larger(TotalAlloc(stmt.if_branch),
                  IF IsThere(stmt.else_branch) THEN TotalAlloc(stmt.else_branch) ELSE 0))
WhileTemporary(stmt) == Larger(Alloc(stmt.condition), TotalAlloc(stmt.body))
InfiniteLoopTemporary(stmt) == TotalAlloc(stmt.body)
ForEachTemporary(stmt) ==
    2 + Alloc(stmt.expr) + AllocCount(stmt.bind) + TotalAlloc(stmt.body)
\* Of the else branch, the variables it declares itself are left out.
ConditionalTemporary(stmt) ==
    Larger(TemporaryAlloc(stmt.else_branch),
           Greatest(stmt.cases, LAMBDA c : Alloc(c.cond) + TotalAlloc(c.body)))
\* The condition and the default are left out.
SwitchTemporary(stmt) ==
    Greatest(stmt.cases, LAMBDA c : Larger(TemporaryAlloc(c.body), Alloc(c.cond)))
        + Total(stmt.cases, LAMBDA c : PersistentAlloc(c.body))
ReturnTemporary(stmt) == Alloc(stmt.expr)
CoReturnTemporary(stmt) == Alloc(stmt.expr)
ThrowTemporary(stmt) == Alloc(stmt.expr)
YieldTemporary(stmt) == Alloc(stmt.expr)

TemporaryAlloc(stmt) ==
    CASE stmt.t = "block" -> BlockTemporary(stmt)
      [] stmt.t = "assign" -> AssignTemporary(stmt)
      [] stmt.t = "if_else" -> IfElseTemporary(stmt)
      [] stmt.t = "while" -> WhileTemporary(stmt)
      [] stmt.t = "infinite_loop" -> InfiniteLoopTemporary(stmt)
      [] stmt.t = "for_each" -> ForEachTemporary(stmt)
      [] stmt.t = "conditional" -> ConditionalTemporary(stmt)
      [] stmt.t = "switch" -> SwitchTemporary(stmt)
      [] stmt.t = "return" -> ReturnTemporary(stmt)
      [] stmt.t = "co_return" -> CoReturnTemporary(stmt)
      [] stmt.t = "throw" -> ThrowTemporary(stmt)
      [] stmt.t = "yield" -> YieldTemporary(stmt)
      [] stmt.t = "no_op" -> 0
=============================================================================
