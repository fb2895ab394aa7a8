------------------------------- MODULE Values -------------------------------
(***************************************************************************)
(* The values of the virtual machine (ltnvm/Value.hxx) and the conversions *)
(* between them (ltnvm/utils/convert.cxx, cast.cxx).                       *)
(*                                                                         *)
(* A value is one record shape, so that values of different kinds can be   *)
(* compared: its kind k, its number n (a float is the fraction n/d, with   *)
(* d = 0 for NaN and the infinities), what it contains (subs) and, for a   *)
(* struct, the member ids.  A map contains pairs, in the order of its      *)
(* keys.  A script function is the constant function it computes: n        *)
(* parameters, result subs[1].                                             *)
(*                                                                         *)
(* Integers have IntBits bits and characters CharBits: both are signed and *)
(* wrap around.  A float holds every integer of up to Mantissa bits; the   *)
(* larger ones are rounded when an integer is converted.  Other arithmetic *)
(* on floats is exact.                                                     *)
(***************************************************************************)
EXTENDS Integers, Sequences, SequencesExt

CONSTANTS IntBits, CharBits, Mantissa

ASSUME WidthAssumption ==
    /\ CharBits \in Nat \ {0} /\ IntBits \in Nat /\ Mantissa \in Nat \ {0}
    /\ CharBits < IntBits /\ Mantissa < IntBits

ValueType ==
    [null |-> 0, stop |-> 1, type |-> 2,
     bool |-> 16, int |-> 17, float |-> 18, char |-> 19,
     array |-> 32, string |-> 33, tuple |-> 34, istream |-> 48, ostream |-> 49,
     function |-> 64, iterator |-> 65, coroutine |-> 66, native |-> 67,
     clock |-> 80, struct |-> 96, queue |-> 112, stack |-> 113, map |-> 114,
     rng |-> 128]

Object(k, n, subs, ids) == [k |-> k, n |-> n, d |-> 1, subs |-> subs, ids |-> ids]
Scalar(k, n) == Object(k, n, <<>>, <<>>)
Null == Scalar("null", 0)
Boolean(b) == Scalar("bool", IF b THEN 1 ELSE 0)
Container(k, subs) == Object(k, 0, subs, <<>>)
Raise(what) == Scalar(what, 0)                       \* throw Exception
Trap == Scalar("trap", 0)                            \* the processor's SIGFPE

IsFailure(v) == v.k \notin DOMAIN ValueType
IsIntegral(v) == v.k \in {"bool", "char", "int"}
IsNumeric(v) == IsIntegral(v) \/ v.k = "float"
IsContiguous(v) == v.k \in {"array", "tuple"}
IsFxPtr(v) == v.k \in {"function", "native"}

(***************************************************************************)
(* Machine numbers.                                                        *)
(***************************************************************************)
WrapTo(i, bits) ==
    LET m == i % 2^bits IN IF m >= 2^(bits - 1) THEN m - 2^bits ELSE m
Integer(i) == Scalar("int", WrapTo(i, IntBits))
Character(i) == Scalar("char", WrapTo(i, CharBits))
MinInt == -(2^(IntBits - 1))

Sign(i) == IF i < 0 THEN -1 ELSE IF i > 0 THEN 1 ELSE 0
Abs(i) == IF i < 0 THEN -i ELSE i
Quot(l, r) == IF (l < 0) = (r < 0) THEN Abs(l) \div Abs(r) ELSE -(Abs(l) \div Abs(r))
\* Slip: the remainder of mathematics instead of the machine's.
RemFloored(l, r) == l % Abs(r)
Rem(l, r) == l - r * Quot(l, r)

Ratio(n, d) ==
    IF d = 0
    THEN [Scalar("float", IF n > 0 THEN 1 ELSE IF n < 0 THEN -1 ELSE 0) EXCEPT !.d = 0]
    ELSE LET g == CHOOSE g \in 1..Abs(d) :
                    /\ n % g = 0 /\ d % g = 0
                    /\ \A h \in (g + 1)..Abs(d) : ~(n % h = 0 /\ d % h = 0)
             s == IF d < 0 THEN -1 ELSE 1
         IN [Scalar("float", s * Quot(n, g)) EXCEPT !.d = Quot(Abs(d), g)]
NaN == Ratio(0, 0)

\* The multiple of step that is nearest to quotient * step + rest.
RoundedTo(step, quotient, rest) ==
    step * (IF 2 * rest > step \/ (2 * rest = step /\ quotient % 2 = 1)
            THEN quotient + 1 ELSE quotient)
\* An integer of more than Mantissa bits goes to the nearest even multiple.
RoundedToFloat(i) ==
    LET excess == {e \in 0..IntBits : Abs(i) < 2^(Mantissa + e)}
        e == CHOOSE e \in excess : \A f \in excess : e <= f
    IN Sign(i) * RoundedTo(2^e, Abs(i) \div 2^e, Abs(i) % 2^e)

(***************************************************************************)
(* convert.cxx: the conversions the instructions use by themselves.        *)
(***************************************************************************)
OperatorAdd == 16
OperatorSub == 17
OperatorMlt == 18
OperatorDiv == 19
OperatorMod == 20
OperatorPow == 21
OperatorStr == 32
OperatorCmp == 33
OperatorBool == 34

\* The first entry of a struct's members with this id.
FindMember(s, id) ==
    s.subs[CHOOSE i \in 1..Len(s.ids) : s.ids[i] = id /\ \A j \in 1..(i - 1) : s.ids[j] # id]

\* run_function: only a script function of the right arity is run.
RunFunction(f, args) ==
    IF f.k # "function" THEN Raise("invalid_argument")
    ELSE IF f.n # Len(args) THEN Raise("invalid_parameters")
    ELSE f.subs[1]

CallSpecialMember(self, id, args) ==
    IF Contains(self.ids, id) THEN RunFunction(FindMember(self, id), <<self>> \o args)
    ELSE Raise("missing_operator")

ToBool(v) ==
    CASE v.k = "null" -> Boolean(FALSE)
      [] v.k \in {"bool", "char", "int"} -> Boolean(v.n # 0)
      [] v.k = "float" -> Boolean(v.n # 0 \/ v.d = 0)
      [] v.k = "struct" /\ Contains(v.ids, OperatorBool) ->
            LET r == RunFunction(FindMember(v, OperatorBool), <<v>>)
            IN IF r.k = "bool" \/ IsFailure(r) THEN r ELSE Raise("invalid_argument")
      [] OTHER -> Boolean(TRUE)

ToInt(v) == IF IsIntegral(v) THEN Integer(v.n) ELSE Raise("invalid_cast")
ToFloat(v) ==
    IF IsIntegral(v) THEN Ratio(RoundedToFloat(v.n), 1)
    ELSE IF v.k = "float" THEN v ELSE Raise("invalid_cast")
ToChar(v) == IF v.k \in {"bool", "char"} THEN Character(v.n) ELSE Raise("invalid_cast")

\* cast.cxx: the conversions a program asks for.  A float outside the
\* integers becomes the smallest integer.
Truncated(v) ==
    IF v.d = 0 \/ Quot(v.n, v.d) \notin MinInt..(-MinInt - 1) THEN MinInt ELSE Quot(v.n, v.d)
\* Slip: a float is taken for a number already.
CastToIntKept(v) == IF v.k = "float" THEN v ELSE ToInt(v)
CastToInt(v) == IF v.k = "float" THEN Integer(Truncated(v)) ELSE ToInt(v)
CastToFloat(v) == IF v.k = "clock" THEN Ratio(v.n, 1) ELSE ToFloat(v)
CastToChar(v) ==
    CASE v.k \in {"bool", "int"} -> Character(v.n)
      [] v.k = "float" -> Character(Truncated(v))
      [] OTHER -> ToChar(v)
CastToString(v) == IF v.k = "string" THEN v ELSE Raise("invalid_cast")
=============================================================================
