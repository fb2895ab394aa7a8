----------------------------- MODULE Arithmetic -----------------------------
(***************************************************************************)
(* The order of values (ltnvm/utils/compare.cxx) and the unary, arithmetic *)
(* and bitwise instructions.                                               *)
(***************************************************************************)
EXTENDS Values
LOCAL INSTANCE Bitwise

(***************************************************************************)
(* compare.cxx.  An order is -1, 0, 1, Unordered, or the failure of the    *)
(* {cmp} member that was asked.                                            *)
(***************************************************************************)
Unordered == 2

\* cmp: two integers are compared as integers, otherwise both as floats.
Infinity(v) == IF v.d = 0 THEN v.n ELSE 0
CompareFloats(a, b) ==
    IF a = NaN \/ b = NaN THEN Unordered
    ELSE IF a.d = 0 \/ b.d = 0 THEN Sign(Infinity(a) - Infinity(b))
    ELSE Sign(a.n * b.d - b.n * a.d)
CompareNumbers(l, r) ==
    IF IsIntegral(l) /\ IsIntegral(r) THEN Sign(l.n - r.n)
    ELSE CompareFloats(ToFloat(l), ToFloat(r))

Unsigned(c) == c % 2^CharBits
\* Slip: strings are compared like arrays, first by size.
LexicographicSizeOnly(l, r) == Sign(Len(l) - Len(r))
RECURSIVE Lexicographic(_, _)
Lexicographic(l, r) ==
    IF l = <<>> \/ r = <<>> THEN Sign(Len(l) - Len(r))
    ELSE IF Head(l) = Head(r) THEN Lexicographic(Tail(l), Tail(r))
    ELSE Sign(Unsigned(Head(l).n) - Unsigned(Head(r).n))

\* The error that compare throws is the order Throws.
Throws == 3
FromComparator(ordering) ==
    IF ordering.k = "int" THEN Sign(ordering.n)
    ELSE IF IsFailure(ordering) THEN Throws ELSE Unordered

RECURSIVE CompareImpl(_, _), ObjectCompare(_, _), CompareElements(_, _)
RequireOrder(c) == IF c = Unordered THEN Throws ELSE c
Compare(l, r) == RequireOrder(CompareImpl(l, r))

Decided(c, otherwise) == IF c # 0 THEN c ELSE otherwise
CompareElements(ls, rs) ==
    IF ls = <<>> THEN 0
    ELSE Decided(Compare(Head(ls), Head(rs)), CompareElements(Tail(ls), Tail(rs)))

\* Maps: the loop over the pairs compares end_r with itself, so it never runs.
CompareMaps(l, r) == Sign(Len(l.subs) - Len(r.subs))

\* Slip: arrays are compared up to the end of the shorter one.
ObjectCompareShorter(l, r) ==
    LET n == IF Len(l.subs) < Len(r.subs) THEN Len(l.subs) ELSE Len(r.subs)
    IN IF l.k = "string" THEN Lexicographic(l.subs, r.subs)
       ELSE CompareElements(SubSeq(l.subs, 1, n), SubSeq(r.subs, 1, n))

\* Values of one kind.  Functions, iterators, streams, clocks, coroutines and
\* structs without {cmp} are all equivalent to each other.
ObjectCompare(l, r) ==
    CASE l.k = "string" -> Lexicographic(l.subs, r.subs)
      [] l.k \in {"array", "tuple", "stack", "queue"} ->
            IF Len(l.subs) # Len(r.subs) THEN Sign(Len(l.subs) - Len(r.subs))
            ELSE CompareElements(l.subs, r.subs)
      [] l.k = "type" -> Sign(l.n - r.n)
      [] l.k = "struct" /\ Contains(l.ids, OperatorCmp) ->
            FromComparator(RunFunction(FindMember(l, OperatorCmp), <<l, r>>))
      [] l.k = "map" -> CompareMaps(l, r)
      [] OTHER -> 0

CompareImpl(l, r) ==
    IF IsNumeric(l) /\ IsNumeric(r) THEN CompareNumbers(l, r)
    ELSE IF l.k = r.k THEN ObjectCompare(l, r)
    ELSE Sign(ValueType[l.k] - ValueType[r.k])

\* The order of the keys of a map: a number equals only a number of its kind.
StrictCompare(l, r) ==
    IF l.k # r.k THEN Sign(ValueType[l.k] - ValueType[r.k])
    ELSE IF IsNumeric(l) THEN CompareNumbers(l, r)
    ELSE ObjectCompare(l, r)

(***************************************************************************)
(* inst_arithmetic.cxx.  T is float when one operand is, otherwise int.    *)
(***************************************************************************)
Concat(l, r) == Container(l.k, l.subs \o r.subs)
RECURSIVE RepeatSeq(_, _)
RepeatSeq(s, count) == IF count <= 0 THEN <<>> ELSE s \o RepeatSeq(s, count - 1)

\* calc: IntOp and FloatOp are the two instances of the operation.
Calc(l, r, IntOp(_, _), FloatOp(_, _)) ==
    IF ~(IsNumeric(l) /\ IsNumeric(r)) THEN Raise("invalid_operands")
    ELSE IF IsIntegral(l) /\ IsIntegral(r) THEN IntOp(l.n, r.n)
    ELSE FloatOp(ToFloat(l), ToFloat(r))

\* Slip: the sum of two integers is not an integer of the machine.
IntAddUnbounded(l, r) == Scalar("int", l + r)
IntAdd(l, r) == Integer(l + r)
IntSub(l, r) == Integer(l - r)
IntMlt(l, r) == Integer(l * r)
IntDiv(l, r) ==
    IF r = 0 THEN Raise("division_by_zero")
    ELSE IF l = MinInt /\ r = -1 THEN Trap ELSE Integer(Quot(l, r))
IntMod(l, r) ==
    IF r = 0 THEN Raise("division_by_zero")
    ELSE IF l = MinInt /\ r = -1 THEN Trap ELSE Integer(Rem(l, r))
\* Infinities of one sign add up, those of different signs to NaN.
FloatAdd(l, r) ==
    IF l.d = 0 /\ r.d = 0 THEN IF l = r THEN l ELSE NaN
    ELSE Ratio(l.n * r.d + r.n * l.d, l.d * r.d)
FloatSub(l, r) == FloatAdd(l, [r EXCEPT !.n = -r.n])
FloatMlt(l, r) == Ratio(l.n * r.n, l.d * r.d)
FloatDiv(l, r) ==
    IF r.n = 0 /\ r.d # 0 THEN Raise("division_by_zero")
    ELSE Ratio(l.n * r.d * Sign(r.n), l.d * Abs(r.n))
FloatMod(l, r) ==
    IF r.n = 0 /\ r.d # 0 THEN Raise("division_by_zero")
    ELSE IF l.d = 0 \/ r = NaN THEN NaN
    ELSE IF r.d = 0 THEN l
    ELSE Ratio(Rem(l.n * r.d, r.n * l.d), l.d * r.d)
\* std::pow on doubles, for integral exponents; a negative power of zero is infinite.
RatioPower(n, d, e) ==
    IF e = 0 THEN Ratio(1, 1)
    ELSE IF e > 0 THEN Ratio(n^e, d^e)
    ELSE Ratio(d^(-e) * (IF n < 0 /\ e % 2 = 1 THEN -1 ELSE 1), Abs(n)^(-e))
IntPow(l, r) ==
    LET p == RatioPower(RoundedToFloat(l), 1, RoundedToFloat(r)) IN Scalar("int", Truncated(p))
FloatPow(l, r) == RatioPower(l.n, l.d, r.n)

Special(l, r, id, Otherwise) ==
    IF l.k = "struct" THEN CallSpecialMember(l, id, <<r>>) ELSE Otherwise

Add(l, r) ==
    IF l.k = r.k /\ l.k \in {"array", "tuple", "string"} THEN Concat(l, r)
    ELSE Special(l, r, OperatorAdd, Calc(l, r, IntAdd, FloatAdd))
Sub(l, r) == Special(l, r, OperatorSub, Calc(l, r, IntSub, FloatSub))
Mlt(l, r) ==
    CASE l.k \in {"string", "array"} /\ IsIntegral(r) -> Container(l.k, RepeatSeq(l.subs, r.n))
      [] IsIntegral(l) /\ r.k \in {"string", "array"} -> Container(r.k, RepeatSeq(r.subs, l.n))
      [] OTHER -> Special(l, r, OperatorMlt, Calc(l, r, IntMlt, FloatMlt))
Div(l, r) == Special(l, r, OperatorDiv, Calc(l, r, IntDiv, FloatDiv))
Mod(l, r) == Special(l, r, OperatorMod, Calc(l, r, IntMod, FloatMod))
Pow(l, r) == Special(l, r, OperatorPow, Calc(l, r, IntPow, FloatPow))

(***************************************************************************)
(* inst_bitwise.cxx and inst_unary.cxx.  The processor takes the count of a *)
(* shift modulo the width.                                                 *)
(***************************************************************************)
Bits(l, r, Op(_, _)) ==
    IF IsFailure(ToInt(l)) \/ IsFailure(ToInt(r)) THEN Raise("invalid_cast")
    ELSE Integer(Op(l.n % 2^IntBits, r.n % 2^IntBits))
BitAnd(l, r) == LET op(a, b) == a & b IN Bits(l, r, op)
BitOr(l, r) == LET op(a, b) == a | b IN Bits(l, r, op)
BitXor(l, r) == LET op(a, b) == a ^^ b IN Bits(l, r, op)
ShiftL(l, r) == LET op(a, b) == a * 2^(b % IntBits) IN Bits(l, r, op)
ShiftR(l, r) ==
    LET op(a, b) == WrapTo(a, IntBits) \div 2^(b % IntBits) IN Bits(l, r, op)

BitNot(x) == IF IsIntegral(x) THEN Integer(-x.n - 1) ELSE Raise("invalid_cast")
Neg(x) ==
    IF IsIntegral(x) THEN Integer(-x.n)
    ELSE IF x.k = "float" THEN Ratio(-x.n, x.d) ELSE Raise("invalid_argument")
LogicalNot(x) == LET b == ToBool(x) IN IF b.k = "bool" THEN Boolean(b.n = 0) ELSE b
Step(x, by, id) ==
    CASE x.k = "char" -> Integer(Character(x.n + by).n)
      [] x.k = "int" -> Integer(x.n + by)
      [] x.k = "float" -> FloatAdd(x, Ratio(by, 1))
      [] x.k = "struct" -> CallSpecialMember(x, id, <<Integer(1)>>)
      [] OTHER -> Raise("invalid_argument")
Inc(x) == Step(x, 1, OperatorAdd)
Dec(x) == Step(x, -1, OperatorSub)
=============================================================================
