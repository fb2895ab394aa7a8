------------------------------- MODULE Syntax -------------------------------
(***************************************************************************)
(* The syntax trees that the parser hands to the analyzer (ltnc/ast): one  *)
(* constructor per class.  E is an expression, S a statement, B a binding  *)
(* and D a declaration.  A node is a record whose field t names its class; *)
(* locations are left out, but for the line and the file of a reflection.  *)
(***************************************************************************)
EXTENDS Naturals, Sequences

\* A null pointer where a node may be missing.
Absent == [t |-> "absent"]
IsThere(node) == node.t # "absent"

(***************************************************************************)
(* Namespaces (Namespace.cxx).                                             *)
(***************************************************************************)
Namespace(path) == [path |-> path, absolute |-> FALSE]
Absolute(path) == [path |-> path, absolute |-> TRUE]
Root == Namespace(<<>>)
IsEmpty(ns) == ns.path = <<>> /\ ~ns.absolute
IsInsideOf(ns, inner) ==
    /\ Len(ns.path) >= Len(inner.path)
    /\ SubSeq(ns.path, 1, Len(inner.path)) = inner.path
Joined(l, r) == Namespace(l.path \o r.path)
NamespaceText[path \in Seq(STRING)] ==
    IF path = <<>> THEN "" ELSE Head(path) \o "::" \o NamespaceText[Tail(path)]

(***************************************************************************)
(* Expressions.                                                            *)
(***************************************************************************)
ExpressionClasses ==
    {"array", "binary", "bool", "build_in", "call", "char", "choose", "conditional",
     "custom_literal", "float", "fx_pointer", "forward_dynamic_call", "iife", "index",
     "integer", "invoke_member", "lambda", "map", "member", "null", "unary", "reflect",
     "string", "struct", "ternary", "tuple", "type", "var"}

UnaryOps == {"NEG", "NOT", "NUL", "BITNOT", "DEREF"}
BinaryOps ==
    {"ADD", "SUB", "MLT", "DIV", "MOD", "POW", "BIGGER", "SMALLER", "BIGGEREQUAL",
     "SMALLEREQUAL", "EQUAL", "UNEQUEL", "SPACE_SHIP", "SHIFT_L", "SHIFT_R", "AND", "OR",
     "NULLCO", "ELVIS", "BIT_OR", "BIT_AND", "BIT_XOR"}

EInteger(value) == [t |-> "integer", value |-> value]
EFloat(value) == [t |-> "float", value |-> value]
EBool(value) == [t |-> "bool", value |-> value]
EChar(value) == [t |-> "char", value |-> value]
EString(value) == [t |-> "string", value |-> value]
ENull == [t |-> "null"]
EType(code) == [t |-> "type", code |-> code]
ECustomLiteral(type, value) == [t |-> "custom_literal", type |-> type, value |-> value]
EBuildIn(key) == [t |-> "build_in", key |-> key]

EArray(elements) == [t |-> "array", elements |-> elements]
ETuple(elements) == [t |-> "tuple", elements |-> elements]
EMap(pairs) == [t |-> "map", pairs |-> pairs]               \* of [key, val]
EStruct(members) == [t |-> "struct", members |-> members]   \* of [name, expr]

EVar(name, namespaze) == [t |-> "var", name |-> name, namespaze |-> namespaze]
EMember(expr, name) == [t |-> "member", expr |-> expr, name |-> name]
EIndex(expr, index) == [t |-> "index", expr |-> expr, index |-> index]
EFxPointer(name, namespaze, placeholders, is_variadic) ==
    [t |-> "fx_pointer", name |-> name, namespaze |-> namespaze,
     placeholders |-> placeholders, is_variadic |-> is_variadic]
ELambda(fx, captures) == [t |-> "lambda", fx |-> fx, captures |-> captures]

ECall(function_ptr, arguments) ==
    [t |-> "call", function_ptr |-> function_ptr, arguments |-> arguments]
EInvokeMember(object, name, arguments) ==
    [t |-> "invoke_member", object |-> object, name |-> name, arguments |-> arguments]
EForwardDynamicCall(address, arity) ==
    [t |-> "forward_dynamic_call", address |-> address, arity |-> arity]

EUnary(op, expr) == [t |-> "unary", op |-> op, expr |-> expr]
EBinary(op, l, r) == [t |-> "binary", op |-> op, l |-> l, r |-> r]
ETernary(condition, if_branch, else_branch) ==
    [t |-> "ternary", condition |-> condition, if_branch |-> if_branch,
     else_branch |-> else_branch]
EConditional(cases, else_branch) ==                         \* of [cond, body]
    [t |-> "conditional", cases |-> cases, else_branch |-> else_branch]
EChoose(condition, cases, d3fault) ==                       \* of [cond, body]
    [t |-> "choose", condition |-> condition, cases |-> cases, d3fault |-> d3fault]
EIife(stmt) == [t |-> "iife", stmt |-> stmt]

\* The five queries of a reflection.
EReflect(query) == [t |-> "reflect", query |-> query]
NamespaceQuery(namespaze) == [q |-> "namespace", namespaze |-> namespaze]
FunctionQuery(namespaze, name, arity, is_variadic) ==
    [q |-> "function", namespaze |-> namespaze, name |-> name, arity |-> arity,
     is_variadic |-> is_variadic]
FileQuery(file) == [q |-> "file", file |-> file]
LineQuery(line) == [q |-> "line", line |-> line]
LocationQuery(file, line) == [q |-> "location", file |-> file, line |-> line]

(***************************************************************************)
(* Bindings and statements.                                                *)
(***************************************************************************)
BNewVar(name) == [t |-> "new_var", name |-> name]
BGroup(sub_bindings) == [t |-> "group", sub_bindings |-> sub_bindings]

StatementClasses ==
    {"block", "if_else", "while", "infinite_loop", "for_each", "new_var", "return",
     "throw", "switch", "expression", "conditional", "no_op", "assign", "yield"}

SBlock(statements) == [t |-> "block", statements |-> statements]
SIfElse(condition, if_branch, else_branch) ==
    [t |-> "if_else", condition |-> condition, if_branch |-> if_branch,
     else_branch |-> else_branch]
SWhile(condition, body) == [t |-> "while", condition |-> condition, body |-> body]
SInfiniteLoop(body) == [t |-> "infinite_loop", body |-> body]
SForEach(bind, expr, body) == [t |-> "for_each", bind |-> bind, expr |-> expr, body |-> body]
SNewVar(binding, expr) == [t |-> "new_var", binding |-> binding, expr |-> expr]
SReturn(expr) == [t |-> "return", expr |-> expr]
SThrow(expr) == [t |-> "throw", expr |-> expr]
SYield(expr) == [t |-> "yield", expr |-> expr]
SSwitch(condition, cases, d3fault) ==                       \* of [cond, body]
    [t |-> "switch", condition |-> condition, cases |-> cases, d3fault |-> d3fault]
SExpression(expr) == [t |-> "expression", expr |-> expr]
SConditional(cases, else_branch) ==                         \* of [cond, body]
    [t |-> "conditional", cases |-> cases, else_branch |-> else_branch]
SNoOp == [t |-> "no_op"]
SAssign(l, r) == [t |-> "assign", l |-> l, r |-> r]

(***************************************************************************)
(* Declarations.  The qualifiers of a function are the set of those it     *)
(* has; variadic is the name of its variadic parameter, or "".             *)
(***************************************************************************)
Qualifiers == {"const", "extern", "private", "coroutine"}
DExcept(errorname, body) == [t |-> "except", errorname |-> errorname, body |-> body]
DFunction(name, namespaze, simple, variadic, qualifiers, body, except) ==
    [t |-> "function", name |-> name, namespaze |-> namespaze, simple |-> simple,
     variadic |-> variadic, qualifiers |-> qualifiers, body |-> body, except |-> except]
DStatic(t, name, namespaze, expr, is_extern, is_private) ==
    [t |-> t, name |-> name, namespaze |-> namespaze, expr |-> expr,
     is_extern |-> is_extern, is_private |-> is_private]
DDefinition(name, namespaze, expr) ==
    DStatic("definition", name, namespaze, expr, FALSE, FALSE)
DGlobal(name, namespaze, expr, is_extern, is_private) ==
    DStatic("global", name, namespaze, expr, is_extern, is_private)
DEnumeration(name, namespaze, labels) ==                    \* of [name, value]
    [t |-> "enumeration", name |-> name, namespaze |-> namespaze, labels |-> labels]

IsVariadic(fx) == fx.variadic # ""

Program(functions, definitions, globals, enums) ==
    [functions |-> functions, definitions |-> definitions, globals |-> globals,
     enums |-> enums]
\* operator+=: the trees of two sources.
AddProgram(l, r) ==
    Program(l.functions \o r.functions, l.definitions \o r.definitions,
            l.globals \o r.globals, l.enums \o r.enums)
=============================================================================
