----------------------------- MODULE Operations -----------------------------
(***************************************************************************)
(* The instructions of the virtual machine that compute on values: the     *)
(* operand stack, the type table they fill and the operators of Values and *)
(* Types applied to the topmost operands.  (Frames, calls and control flow *)
(* are in Machine.)  The value an instruction leaves is kept in result,    *)
(* where the properties look at it, and the operands are gone.             *)
(***************************************************************************)
EXTENDS Types, Arithmetic

CONSTANTS
    Universe,      \* the values a program pushes
    Texts,         \* the type literals it contains, as sequences of tokens
    MaxLiterals,   \* bound on the literals it evaluates
    MaxPower       \* bound on exponents

VARIABLES
    names,    \* MemberTable: the member names of the program so far
    table,    \* TypeTable
    made,     \* the literals evaluated so far: what was read and what it became
    stack,    \* the operands
    result    \* what the last instruction left, or raised

vars == <<names, table, made, stack, result>>

BinaryOps == {"add", "sub", "mlt", "div", "mod", "pow", "bit_and", "bit_or",
              "bit_xor", "shift_l", "shift_r"}
Binary(op, l, r) ==
    CASE op = "add" -> Add(l, r) [] op = "sub" -> Sub(l, r) [] op = "mlt" -> Mlt(l, r)
      [] op = "div" -> Div(l, r) [] op = "mod" -> Mod(l, r) [] op = "pow" -> Pow(l, r)
      [] op = "bit_and" -> BitAnd(l, r) [] op = "bit_or" -> BitOr(l, r)
      [] op = "bit_xor" -> BitXor(l, r)
      [] op = "shift_l" -> ShiftL(l, r) [] op = "shift_r" -> ShiftR(l, r)

UnaryOps == {"neg", "n0t", "bit_not", "inc", "dec"}
Unary(op, x) ==
    CASE op = "neg" -> Neg(x) [] op = "n0t" -> LogicalNot(x) [] op = "bit_not" -> BitNot(x)
      [] op = "inc" -> Inc(x) [] op = "dec" -> Dec(x)

ComparisonOps == {"eql", "ueql", "lt", "gt", "smleql", "bgreql", "comp"}
Comparison(op, l, r) ==
    LET order == Compare(l, r)
    IN IF order = Throws THEN Raise("invalid_comparison")
       ELSE CASE op = "eql" -> Boolean(order = 0) [] op = "ueql" -> Boolean(order # 0)
              [] op = "lt" -> Boolean(order < 0) [] op = "gt" -> Boolean(order > 0)
              [] op = "smleql" -> Boolean(order <= 0) [] op = "bgreql" -> Boolean(order >= 0)
              [] op = "comp" -> Integer(order)

-----------------------------------------------------------------------------
Init ==
    /\ names = <<>>
    /\ table = <<>>
    /\ made = <<>>
    /\ stack = <<>>
    /\ result = Null

\* A newtype instruction, compiled from a literal and executed.
NewType(text) ==
    LET type == ParseType(text)
        known == NewNames(names, MembersOf(type))
        operand == Append(AnalyzeType(type, known), 0)
        new == MakeType(table, operand, 1)
    IN /\ Len(made) < MaxLiterals /\ stack = <<>> /\ type # NoType
       /\ names' = known
       /\ table' = new.table
       /\ made' = Append(made, [type |-> type, id |-> new.id, skipped |-> new.end, size |-> Len(operand)])
       /\ stack' = <<Scalar("type", new.id)>>
       /\ result' = Null

\* Any value, or a type made before.  Bound: a program that makes types uses
\* each with one operand, and when it has made them all compares them.
Push(v) ==
    /\ Len(stack) < 2
    /\ made # <<>> => IF Len(made) < MaxLiterals THEN Len(stack) = 1 ELSE v.k = "type"
    /\ stack' = Append(stack, v)
    /\ result' = Null
    /\ UNCHANGED <<names, table, made>>

Leave(v) == stack' = <<>> /\ result' = v /\ UNCHANGED <<names, table, made>>

BinaryOp(op) ==
    /\ Len(stack) = 2 /\ made = <<>>   \* bound: see Push
    /\ op = "pow" => /\ stack[2].d = 1 /\ (IsNumeric(stack[2]) => Abs(stack[2].n) <= MaxPower)
                     /\ stack[1].d # 0
    /\ Leave(Binary(op, stack[1], stack[2]))
UnaryOp(op) == Len(stack) = 1 /\ Leave(Unary(op, stack[1]))
ComparisonOp(op) == Len(stack) = 2 /\ Leave(Comparison(op, stack[1], stack[2]))

\* build_in/type.cxx
OnType(Op(_, _)) ==
    /\ Len(stack) = 2
    /\ Leave(IF stack[1].k # "type" THEN Raise("invalid_operands") ELSE Op(stack[1].n, stack[2]))
IsType == OnType(LAMBDA id, v : Boolean(TypeIs(table, id, v)))
CastToType == OnType(LAMBDA id, v : Cast(table, id, v))

Next ==
    \/ \E text \in Texts : NewType(text)
    \/ \E v \in Universe \cup {Scalar("type", made[i].id) : i \in DOMAIN made} : Push(v)
    \/ \E op \in BinaryOps : BinaryOp(op)
    \/ \E op \in UnaryOps : UnaryOp(op)
    \/ \E op \in ComparisonOps : ComparisonOp(op)
    \/ IsType
    \/ CastToType

Spec == Init /\ [][Next]_vars

-----------------------------------------------------------------------------
TypeOK ==
    /\ \A i \in DOMAIN table : \A j \in DOMAIN table[i].node.subs : table[i].node.subs[j] \in 1..(i - 1)
    /\ \A i \in DOMAIN made : made[i].id \in DOMAIN table
    /\ Len(stack) <= 2
    /\ \A v \in Range(stack) \cup {result} :
         v.k \in STRING /\ v.n \in Int /\ v.d \in Nat
    /\ result.k = "int" => result.n \in MinInt..(-MinInt - 1)

\* What a literal stands for: the short forms contain any.
RECURSIVE Canonical(_)
Canonical(t) ==
    LET any == Type("any", <<>>)
    IN [t EXCEPT !.subs = IF @ # <<>> THEN [i \in DOMAIN @ |-> Canonical(@[i])]
                          ELSE IF t.k \in UnaryTypes THEN <<any>>
                          ELSE IF t.k = "map" THEN <<any, any>> ELSE <<>>]

\* The type in the table is the one a literal stands for.
RECURSIVE Denotes(_, _)
Denotes(id, t) ==
    LET node == table[id].node
    IN /\ node.k = t.k /\ node.n = t.n
       /\ node.ids = [i \in DOMAIN t.members |-> MemberId(names, t.members[i])]
       /\ DOMAIN node.subs = DOMAIN t.subs
       /\ \A i \in DOMAIN t.subs : Denotes(node.subs[i], t.subs[i])

(***************************************************************************)
(* A literal becomes the type it stands for, the decoder stops at the      *)
(* terminator whatever bytes a type contains, and two literals give the    *)
(* same object (types are compared by pointer) exactly when they stand for *)
(* the same type.  Two programs and a table that both outlive them have to *)
(* agree on every byte.                                                    *)
(***************************************************************************)
LiteralsDenote ==
    \A i \in DOMAIN made :
      /\ made[i].skipped = made[i].size
      /\ Denotes(made[i].id, Canonical(made[i].type))
      /\ \A j \in DOMAIN made :
           (made[i].id = made[j].id) <=> (Canonical(made[i].type) = Canonical(made[j].type))

ReservedInside(t) == \E m \in Range(MembersOf(t)) : m[2] = "name" /\ m[1] \in DOMAIN ReservedMember

\* The name a type prints is a literal of the same type; types with a reserved
\* member have no name.
NamesReadBack ==
    \A i \in DOMAIN made :
      LET name == TypeName(table, made[i].id, names)
      IN IF ReservedInside(made[i].type) THEN Contains(name, OutOfRange[1])
         ELSE ParseType(<<"<">> \o name \o <<">">>) = Canonical(made[i].type)

\* The value fits the type, except for nulls inside it.
RECURSIVE FitsUpToNull(_, _)
FitsUpToNull(id, v) ==
    LET node == table[id].node
    IN \/ v = Null
       \/ TypeIs(table, id, v)
       \/ /\ node.k \in UnaryTypes /\ v.k = node.k
          /\ \A i \in DOMAIN v.subs : FitsUpToNull(node.subs[1], v.subs[i])
       \/ /\ node.k = "tuple_n" /\ v.k = "tuple" /\ Len(v.subs) = Len(node.subs)
          /\ \A i \in DOMAIN v.subs : FitsUpToNull(node.subs[i], v.subs[i])

(***************************************************************************)
(* std::cast and std::is agree: a value of the type is left as it is, and  *)
(* what a cast returns is of the type up to nulls, at any depth.           *)
(***************************************************************************)
CastsFit ==
    (Len(stack) = 2 /\ stack[1].k = "type") =>
      LET id == stack[1].n
          v == stack[2]
      IN /\ TypeIs(table, id, v) => Cast(table, id, v) = v
         /\ FitsUpToNull(id, Cast(table, id, v))

-----------------------------------------------------------------------------
\* No NaN inside, no struct with a comparison of its own, and no integer that a
\* float does not hold.
RECURSIVE Ordered(_)
Ordered(v) ==
    /\ v # NaN
    /\ ~(v.k = "struct" /\ Contains(v.ids, OperatorCmp))
    /\ v.k = "int" => Abs(v.n) <= 2^Mantissa
    /\ \A i \in DOMAIN v.subs : Ordered(v.subs[i])
OrderedOperands == Len(stack) = 2 /\ Ordered(stack[1]) /\ Ordered(stack[2])

(***************************************************************************)
(* The keys of a map: std::map needs a strict weak order, over keys of all *)
(* kinds at once and with containers compared by their elements.           *)
(***************************************************************************)
KeysOrdered ==
    OrderedOperands =>
      LET l == stack[1]
          r == stack[2]
      IN /\ StrictCompare(l, r) = -StrictCompare(r, l)
         /\ \A m \in {u \in Universe : Ordered(u)} :
              /\ StrictCompare(l, m) <= 0 /\ StrictCompare(m, r) <= 0 => StrictCompare(l, r) <= 0
              /\ StrictCompare(l, m) < 0 /\ StrictCompare(m, r) <= 0 => StrictCompare(l, r) < 0

\* Equal content, where a number equals the same number of another kind.
RECURSIVE SameContent(_, _)
SameContent(l, r) ==
    IF IsNumeric(l) /\ IsNumeric(r) THEN l.n * r.d = r.n * l.d /\ (l.d = 0) = (r.d = 0)
    ELSE /\ l.k = r.k /\ l.n = r.n /\ DOMAIN l.subs = DOMAIN r.subs
         /\ \A i \in DOMAIN l.subs : SameContent(l.subs[i], r.subs[i])

RECURSIVE Comparable(_)
Comparable(v) ==
    /\ IsNumeric(v) \/ v.k \in {"null", "stop", "string", "array", "tuple", "stack", "queue", "type"}
    /\ \A i \in DOMAIN v.subs : Comparable(v.subs[i])

(***************************************************************************)
(* == on numbers, strings, types and sequences of them is equality of      *)
(* content, and the operators <, > of the two orders of the operands       *)
(* mirror each other.  (Maps of one size, and functions, iterators and     *)
(* structs without {cmp}, are equal whatever they contain.)                *)
(***************************************************************************)
EqualMeansSame ==
    (OrderedOperands /\ Comparable(stack[1]) /\ Comparable(stack[2])) =>
      /\ (Compare(stack[1], stack[2]) = 0) <=> SameContent(stack[1], stack[2])
      /\ Compare(stack[1], stack[2]) = -Compare(stack[2], stack[1])

(***************************************************************************)
(* Division and remainder belong together: (l / r) * r + l % r = l, for    *)
(* every sign of the operands and for floats, unless the divisor is zero,  *)
(* which raises, or the quotient of the smallest integer by -1 kills the   *)
(* process.                                                                *)
(***************************************************************************)
DivisionReconstructs ==
    (Len(stack) = 2 /\ IsNumeric(stack[1]) /\ IsNumeric(stack[2]) /\ stack[1].d # 0 /\ stack[2].d # 0) =>
      LET l == stack[1]
          r == stack[2]
          q == Div(l, r)
          m == Mod(l, r)
          lowest == IsIntegral(l) /\ l.n = MinInt /\ r = Integer(-1)
      IN IF r.n = 0 THEN q = m /\ q = Raise("division_by_zero")
         ELSE IF lowest THEN q = Trap /\ m = Trap
         ELSE IF q.k = "int" THEN Add(Mlt(q, r), m) = Integer(l.n)
         ELSE Add(Mlt(Ratio(Quot(q.n, q.d), 1), r), m) = ToFloat(l)
=============================================================================
