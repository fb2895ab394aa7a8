----------------------------- MODULE Optimizer -----------------------------
(***************************************************************************)
(* The optimizer (ltnc/optimize): constants are folded and conditions      *)
(* that are literals decided, in the initial values of definitions and in  *)
(* the bodies of functions.  It descends only into the arguments of direct *)
(* calls and into operators, and not into handlers or globals.             *)
(*                                                                         *)
(* The value of a float literal is the float of Values, that of the other  *)
(* literals a number.  Constants that overflow, which C++ leaves           *)
(* undefined, wrap around here as the compilers in use make them.          *)
(***************************************************************************)
EXTENDS Semantic, Integers

CONSTANTS IntBits, CharBits, Mantissa
V == INSTANCE Arithmetic

RECURSIVE OptimizeExpression(_), OptimizeStatement(_)

(***************************************************************************)
(* eval: the arithmetic of literals.  Nothing is Absent.                   *)
(***************************************************************************)
Arithmetic == {"bool", "char", "integer", "float"}

\* Promoted: what C++ computes with.
Operand(litr) ==
    IF litr.t = "float" THEN litr.value
    ELSE V!Integer(IF litr.t = "bool" THEN (IF litr.value THEN 1 ELSE 0) ELSE litr.value)
ToNode(value) == IF value.k = "float" THEN SemFloat(value) ELSE SemInteger(value.n)

FoldableBinary == {"ADD", "SUB", "MLT", "DIV", "MOD"}
EvalBinary(op, l, r) ==
    CASE op = "ADD" -> V!Calc(l, r, V!IntAdd, V!FloatAdd)
      [] op = "SUB" -> V!Calc(l, r, V!IntSub, V!FloatSub)
      [] op = "MLT" -> V!Calc(l, r, V!IntMlt, V!FloatMlt)
      [] op = "DIV" -> V!Calc(l, r, V!IntDiv, V!FloatDiv)
      [] op = "MOD" -> V!Calc(l, r, V!IntMod, V!FloatMod)

\* Slip: the operands of a difference are swapped.
FoldBinarySwapped(op, l, r) ==
    LET result == IF op = "SUB" THEN EvalBinary(op, Operand(r), Operand(l))
                  ELSE EvalBinary(op, Operand(l), Operand(r))
    IN IF V!IsFailure(result) THEN Absent ELSE ToNode(result)
FoldBinary(op, l, r) ==
    LET result == EvalBinary(op, Operand(l), Operand(r))
    IN IF V!IsFailure(result) THEN Absent ELSE ToNode(result)

\* A literal as a condition.  An array is one, whatever its elements do.
Decidable == Arithmetic \cup {"null", "string", "array"}
Truthy(litr) ==
    CASE litr.t = "null" -> FALSE
      [] litr.t = "bool" -> litr.value
      [] litr.t = "float" -> V!ToBool(litr.value).n = 1
      [] litr.t \in {"char", "integer"} -> litr.value # 0
      [] litr.t \in {"string", "array"} -> TRUE
PreDecide(node) ==
    IF node.condition.t \notin Decidable THEN Absent
    ELSE IF Truthy(node.condition) THEN node.if_branch ELSE node.else_branch

(***************************************************************************)
(* Expressions: what an optimize_* function returns replaces the node,     *)
(* otherwise the node stays, with its operands optimised.                  *)
(***************************************************************************)
Replaced(by, node) == IF IsThere(by) THEN by ELSE node

OptimizeUnary(unary) ==
    LET inner == OptimizeExpression(unary.expr)
        by == CASE unary.op = "NEG" /\ inner.t \in Arithmetic -> ToNode(V!Neg(Operand(inner)))
                [] unary.op = "NOT" /\ inner.t \in Decidable \ {"null"} ->
                      SemBool(~Truthy(inner))
                [] unary.op = "NUL" /\ inner.t \in Decidable -> SemBool(inner.t # "null")
                [] OTHER -> Absent
    IN Replaced(by, SemUnary(unary.op, inner))

OptimizeBinary(binary) ==
    LET l == OptimizeExpression(binary.l)
        r == OptimizeExpression(binary.r)
        by == CASE binary.op \in FoldableBinary /\ {l.t, r.t} \subseteq Arithmetic ->
                      FoldBinary(binary.op, l, r)
                [] binary.op = "ADD" /\ l.t = "string" /\ r.t = "string" ->
                      SemString(l.value \o r.value)
                [] OTHER -> Absent
    IN Replaced(by, SemBinary(binary.op, l, r))

OptimizeTernary(ternary) ==
    LET node == SemTernary(OptimizeExpression(ternary.condition),
                           OptimizeExpression(ternary.if_branch),
                           OptimizeExpression(ternary.else_branch))
    IN Replaced(PreDecide(node), node)

OptimizeExpression(expr) ==
    CASE expr.t = "call" ->
            SemCall(expr.label, [i \in DOMAIN expr.arguments |->
                                    OptimizeExpression(expr.arguments[i])])
      [] expr.t = "unary" -> OptimizeUnary(expr)
      [] expr.t = "binary" -> OptimizeBinary(expr)
      [] expr.t = "ternary" -> OptimizeTernary(expr)
      [] OTHER -> expr

(***************************************************************************)
(* Statements.                                                             *)
(***************************************************************************)
OptimizeUnaryStatement(stmt) == [stmt EXCEPT !.expr = OptimizeExpression(@)]
OptimizeBlock(block) ==
    SemBlock([i \in DOMAIN block.statements |-> OptimizeStatement(block.statements[i])])
\* The branch of a false condition without an else branch is nothing, so the
\* statement stays.
OptimizeIfElse(stmt) ==
    LET node == SemIfElse(OptimizeExpression(stmt.condition),
                          OptimizeStatement(stmt.if_branch),
                          IF IsThere(stmt.else_branch)
                          THEN OptimizeStatement(stmt.else_branch) ELSE Absent)
    IN Replaced(PreDecide(node), node)
OptimizeWhileLoop(stmt) ==
    LET condition == OptimizeExpression(stmt.condition)
        body == OptimizeStatement(stmt.body)
    IN IF condition.t \in Decidable /\ Truthy(condition) THEN SemInfiniteLoop(body)
       ELSE SemWhile(condition, body)

OptimizeStatement(stmt) ==
    CASE stmt.t \in {"return", "assign", "throw"} -> OptimizeUnaryStatement(stmt)
      [] stmt.t = "block" -> OptimizeBlock(stmt)
      [] stmt.t = "if_else" -> OptimizeIfElse(stmt)
      [] stmt.t = "while" -> OptimizeWhileLoop(stmt)
      [] OTHER -> stmt

OptimizeDefinition(definition) == [definition EXCEPT !.expr = OptimizeExpression(@)]
OptimizeFunction(function) == [function EXCEPT !.body = OptimizeStatement(@)]
Optimize(program) ==
    [program EXCEPT
        !.definitions = [i \in DOMAIN @ |-> OptimizeDefinition(@[i])],
        !.functions = [i \in DOMAIN @ |-> OptimizeFunction(@[i])]]
=============================================================================
