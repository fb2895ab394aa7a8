------------------------------- MODULE Types --------------------------------
(***************************************************************************)
(* Types as values: how a type literal <...> is read (parse_type.cxx), how *)
(* the compiler turns it into the operand of a newtype instruction         *)
(* (analyze_type.cxx, MemberTable.cxx) and how the virtual machine makes,  *)
(* shares, prints and uses types (TypeTable.cxx, inst_newtype.cxx).        *)
(*                                                                         *)
(* A type is one record shape: its name k, the types it contains (subs;    *)
(* none for the short form of array, queue, stack and map), its number n   *)
(* (the parameters of a function) and the members of a struct.  A token is *)
(* the text of it.                                                         *)
(***************************************************************************)
EXTENDS Values, TLC

Type(k, subs) == [k |-> k, subs |-> subs, n |-> 0, members |-> <<>>]
SimpleTypes ==
    {"any", "bool", "char", "int", "float", "string", "istream", "ostream",
     "iter", "stop", "rng", "clock", "type", "coroutine", "null"}
UnaryTypes == {"array", "queue", "stack"}

\* type_code.hxx: "tuple_n" and "fx_n" are the forms with parentheses.
TypeCode ==
    [any |-> 120, null |-> 78, bool |-> 98, char |-> 99, int |-> 105,
     float |-> 102, array |-> 97, tuple |-> 116, tuple_n |-> 84,
     string |-> 115, istream |-> 62, ostream |-> 60, fx |-> 70, fx_n |-> 88,
     coroutine |-> 67, iter |-> 73, stop |-> 124, rng |-> 63, type |-> 58,
     clock |-> 72, stack |-> 83, queue |-> 81, map |-> 77, struct |-> 46]

\* Integer literals, with the number they denote.
Literal == [n \in 0..3 |-> ToString(n)] @@ 300 :> "300"
NumberOf == Inverse(Literal, DOMAIN Literal, Range(Literal))

(***************************************************************************)
(* Members: an operator in braces, a name the language reserves, or a name *)
(* of the program.                                                         *)
(***************************************************************************)
OperatorMember ==
    [add |-> OperatorAdd, sub |-> OperatorSub, mlt |-> OperatorMlt, div |-> OperatorDiv,
     mod |-> OperatorMod, pow |-> OperatorPow, str |-> OperatorStr, cmp |-> OperatorCmp,
     bool |-> OperatorBool]
ReservedMember ==
    [size |-> 64, is_empty |-> 65, at |-> 66, push |-> 67, pop |-> 68, back |-> 69, front |-> 70,
     peek |-> 71, insert |-> 72, erase |-> 73, keys |-> 74, values |-> 75, merged |-> 76,
     filter |-> 77, transform |-> 78, reduce |-> 79, reversed |-> 80, slice |-> 81, prefix |-> 82,
     suffix |-> 83, any |-> 84, all |-> 85, none |-> 86, has |-> 87]
Keywords == {"<", ">", "(", ")", ",", ".", ":", "{", "}", "null"} \cup Range(Literal)
IsName(t) == t \notin Keywords

\* MemberTable::get_id: names of the program get ids from 256 in order of use.
MemberId(names, m) ==
    CASE m[2] = "op" -> OperatorMember[m[1]]
      [] m[1] \in DOMAIN ReservedMember -> ReservedMember[m[1]]
      [] OTHER -> 255 + CHOOSE i \in 1..Len(names) : names[i] = m[1]
NewNames(names, ms) ==
    LET user == SelectSeq(ms, LAMBDA m : m[2] = "name" /\ m[1] \notin DOMAIN ReservedMember)
    IN FoldLeft(LAMBDA ns, m : IF Contains(ns, m[1]) THEN ns ELSE Append(ns, m[1]), names, user)

(***************************************************************************)
(* parse_type.cxx.  A parser takes the tokens to what it read and the rest. *)
(***************************************************************************)
NoType == Type("error", <<>>)
Fail == [t |-> NoType, rest |-> <<>>]
Read(t, rest) == [t |-> t, rest |-> rest]
At(ts, token) == ts # <<>> /\ Head(ts) = token
\* The closing token of what was read, or an error.
Closed(r, token) == IF r.t # NoType /\ At(r.rest, token) THEN Read(r.t, Tail(r.rest)) ELSE Fail

FxType(ts) ==
    IF ~At(ts, "(") THEN Read(Type("fx", <<>>), ts)
    ELSE IF Len(ts) > 1 /\ ts[2] \in Range(Literal)
         THEN Closed(Read([Type("fx_n", <<>>) EXCEPT !.n = NumberOf[ts[2]]], SubSeq(ts, 3, Len(ts))), ")")
         ELSE Fail

\* .name or .{operator}: the member and the tokens after it.
NoMember == <<>>
StructMemberName(ts) ==
    IF ~At(ts, ".") \/ Len(ts) < 2 THEN [m |-> NoMember, rest |-> ts]
    ELSE IF ts[2] = "{"
         THEN IF Len(ts) > 3 /\ ts[3] \in DOMAIN OperatorMember /\ ts[4] = "}"
              THEN [m |-> <<ts[3], "op">>, rest |-> SubSeq(ts, 5, Len(ts))]
              ELSE [m |-> NoMember, rest |-> ts]
         ELSE IF IsName(ts[2]) THEN [m |-> <<ts[2], "name">>, rest |-> SubSeq(ts, 3, Len(ts))]
         ELSE [m |-> NoMember, rest |-> ts]

RECURSIVE ParseTypeName(_), TypeList(_, _), StructMembers(_, _)

\* One or more types separated by commas.
TypeList(ts, t) ==
    LET sub == ParseTypeName(ts)
        more == [t EXCEPT !.subs = Append(@, sub.t)]
    IN IF sub.t = NoType THEN Fail
       ELSE IF At(sub.rest, ",") THEN TypeList(Tail(sub.rest), more)
       ELSE Read(more, sub.rest)

\* vector_of: the last comma is optional; a member without a type is any.
StructMembers(ts, t) ==
    LET name == StructMemberName(ts)
        sub == IF At(name.rest, ":") THEN ParseTypeName(Tail(name.rest))
               ELSE Read(Type("any", <<>>), name.rest)
        more == [t EXCEPT !.members = Append(@, name.m), !.subs = Append(@, sub.t)]
        comma == At(sub.rest, ",")
        rest == IF comma THEN Tail(sub.rest) ELSE sub.rest
    IN IF name.m = NoMember \/ sub.t = NoType THEN Fail
       ELSE IF At(rest, ")") THEN Read(more, Tail(rest))
       ELSE IF comma THEN StructMembers(rest, more) ELSE Fail

ParseTypeName(ts) ==
    IF ts = <<>> THEN Fail
    ELSE LET k == Head(ts)
             r == Tail(ts)
             inner == Tail(r)
             short == Read(Type(k, <<>>), r)
         IN CASE k \in SimpleTypes -> short
              [] k \in UnaryTypes \cup {"tuple", "map", "struct"} /\ ~At(r, "(") -> short
              [] k \in UnaryTypes ->
                    LET sub == ParseTypeName(inner)
                    IN Closed([sub EXCEPT !.t = IF @ = NoType THEN @ ELSE Type(k, <<@>>)], ")")
              [] k = "tuple" ->
                    IF At(inner, ")") THEN Read(Type("tuple_n", <<>>), Tail(inner))
                    ELSE Closed(TypeList(inner, Type("tuple_n", <<>>)), ")")
              [] k = "map" ->
                    LET key == Closed(ParseTypeName(inner), ",")
                        val == ParseTypeName(key.rest)
                    IN IF key.t = NoType \/ val.t = NoType THEN Fail
                       ELSE Closed(Read(Type("map", <<key.t, val.t>>), val.rest), ")")
              [] k = "fx" -> FxType(r)
              [] k = "struct" -> StructMembers(inner, Type("struct", <<>>))
              [] OTHER -> Fail

\* <T> or <type:T>
ParseType(ts) ==
    IF ~At(ts, "<") THEN NoType
    ELSE LET inner == Tail(ts)
             prefixed == Len(inner) > 1 /\ inner[1] = "type" /\ inner[2] = ":"
             r == ParseTypeName(IF prefixed THEN SubSeq(inner, 3, Len(inner)) ELSE inner)
         IN Closed(r, ">").t

(***************************************************************************)
(* analyze_type.cxx: the operand of newtype.                               *)
(***************************************************************************)
RECURSIVE LittleEndian(_, _)
LittleEndian(n, bytes) ==
    IF bytes = 0 THEN <<>> ELSE <<n % 256>> \o LittleEndian(n \div 256, bytes - 1)
Uint64ToBytes(n) == LittleEndian(n, 8)

\* The members a type names, in the order in which their ids are asked for.
RECURSIVE MembersOf(_)
MembersOf(t) ==
    FlattenSeq([i \in DOMAIN t.subs |->
        (IF t.k = "struct" THEN <<t.members[i]>> ELSE <<>>) \o MembersOf(t.subs[i])])

RECURSIVE AnalyzeType(_, _)
AnalyzeType(t, names) ==
    LET subs == [i \in DOMAIN t.subs |-> AnalyzeType(t.subs[i], names)]
        orAny(i) == IF t.subs = <<>> THEN <<TypeCode.any>> ELSE subs[i]
    IN <<TypeCode[t.k]>> \o
       CASE t.k \in UnaryTypes -> orAny(1)
         [] t.k = "map" -> orAny(1) \o orAny(2)
         [] t.k = "tuple_n" -> Uint64ToBytes(Len(subs)) \o FlattenSeq(subs)
         [] t.k = "fx_n" -> Uint64ToBytes(t.n)
         [] t.k = "struct" ->
               Uint64ToBytes(Len(subs)) \o
               FlattenSeq([i \in DOMAIN subs |->
                   Uint64ToBytes(MemberId(names, t.members[i])) \o subs[i]])
         [] OTHER -> <<>>

(***************************************************************************)
(* TypeTable.cxx: make.  The table is the sequence of the types made, each *)
(* with the bytes it was made from and, in place of pointers, the          *)
(* positions of the types it contains.                                     *)
(***************************************************************************)
\* Slip: only the first byte of a number is read.
ReadFirstByte(code, pos) == code[pos]

ReadUint64(code, pos) ==
    FoldRight(LAMBDA byte, acc : byte + 256 * acc, SubSeq(code, pos, pos + 7), 0)

Node(k, subs, n, ids) == [k |-> k, subs |-> subs, n |-> n, ids |-> ids]
Resolve(table, bytes) == SelectInSeq(table, LAMBDA e : e.code = bytes)

\* Reuse the type made from the same bytes, or add the node.
GetType(table, bytes, node) ==
    IF Resolve(table, bytes) # 0 THEN [id |-> Resolve(table, bytes), table |-> table]
    ELSE [id |-> Len(table) + 1, table |-> Append(table, [code |-> bytes, node |-> node])]

RECURSIVE MakeType(_, _, _), MakeSubs(_, _, _, _)

\* The next count types, each after a member id when it is a struct's.
MakeSubs(acc, code, count, struct) ==
    IF count = 0 THEN acc
    ELSE LET made == MakeType(acc.table, code, IF struct THEN acc.end + 8 ELSE acc.end)
         IN MakeSubs([table |-> made.table, end |-> made.end,
                      subs |-> Append(acc.subs, made.id),
                      ids |-> IF struct THEN Append(acc.ids, ReadUint64(code, acc.end)) ELSE <<>>],
                     code, count - 1, struct)

MakeType(table, code, pos) ==
    LET k == CHOOSE k \in DOMAIN TypeCode : TypeCode[k] = code[pos]
        number == ReadUint64(code, pos + 1)
        counted == k \in {"tuple_n", "struct"}
        subs == MakeSubs([table |-> table, subs |-> <<>>, ids |-> <<>>,
                          end |-> IF counted \/ k = "fx_n" THEN pos + 9 ELSE pos + 1],
                         code,
                         CASE k \in UnaryTypes -> 1 [] k = "map" -> 2
                           [] counted -> number [] OTHER -> 0,
                         k = "struct")
        got == GetType(subs.table, SubSeq(code, pos, subs.end - 1),
                       Node(k, subs.subs, IF k = "fx_n" THEN number ELSE 0, subs.ids))
    IN [id |-> got.id, table |-> got.table, end |-> subs.end]

(***************************************************************************)
(* Name, is and cast of the type with an id.                               *)
(***************************************************************************)
\* VM.cxx adds the operators to the names of the members of the program;
\* the reserved members are in neither: at() throws.
OutOfRange == <<"out_of_range">>

\* Slip: operators are entered without their braces.
MemberTextBare(names, id) ==
    IF id >= 256 THEN <<names[id - 255]>>
    ELSE IF id \in Range(OperatorMember)
         THEN <<CHOOSE m \in DOMAIN OperatorMember : OperatorMember[m] = id>>
         ELSE OutOfRange

MemberText(names, id) ==
    IF id >= 256 THEN <<names[id - 255]>>
    ELSE IF id \in Range(OperatorMember)
         THEN <<"{", CHOOSE m \in DOMAIN OperatorMember : OperatorMember[m] = id, "}">>
         ELSE OutOfRange

RECURSIVE TypeName(_, _, _)
TypeName(table, id, names) ==
    LET node == table[id].node
        texts == [i \in DOMAIN node.subs |->
                    (IF i = 1 THEN <<>> ELSE <<",">>) \o
                    (IF node.k = "struct" THEN <<".">> \o MemberText(names, node.ids[i]) \o <<":">> ELSE <<>>) \o
                    TypeName(table, node.subs[i], names)]
        inner == <<"(">> \o FlattenSeq(texts) \o <<")">>
    IN CASE node.k = "tuple_n" -> <<"tuple">> \o inner
         [] node.k = "fx_n" -> <<"fx", "(", Literal[node.n], ")">>
         [] node.k = "struct" /\ texts = <<>> -> <<"struct">>
         [] texts # <<>> -> <<node.k>> \o inner
         [] OTHER -> <<node.k>>

\* The kinds of value of the types that look no further.
KindsOf ==
    [k \in {"null", "bool", "char", "int", "float", "string", "tuple", "istream",
            "ostream", "stop", "rng", "clock", "type", "coroutine"} |-> {k}]
    @@ ("fx" :> {"function", "native"}) @@ ("iter" :> {"iterator"})

RECURSIVE TypeIs(_, _, _)
TypeIs(table, id, v) ==
    LET node == table[id].node
        sub(i, x) == TypeIs(table, node.subs[i], x)
    IN CASE node.k = "any" -> TRUE
         [] node.k \in UnaryTypes -> v.k = node.k /\ \A i \in DOMAIN v.subs : sub(1, v.subs[i])
         [] node.k = "map" ->
               v.k = "map" /\ \A i \in DOMAIN v.subs : sub(1, v.subs[i].subs[1]) /\ sub(2, v.subs[i].subs[2])
         [] node.k = "tuple_n" ->
               /\ v.k = "tuple" /\ Len(v.subs) = Len(node.subs)
               /\ \A i \in DOMAIN v.subs : sub(i, v.subs[i])
         [] node.k = "fx_n" -> IsFxPtr(v) /\ v.n = node.n
         [] node.k = "struct" ->
               /\ v.k = "struct"
               /\ \A i \in DOMAIN node.ids :
                    Contains(v.ids, node.ids[i]) /\ sub(i, FindMember(v, node.ids[i]))
         [] OTHER -> v.k \in KindsOf[node.k]

\* A copy of a container with cast elements; the first element that throws ends it.
Collected(k, elems) ==
    LET bad == SelectInSeq(elems, IsFailure) IN IF bad # 0 THEN elems[bad] ELSE Container(k, elems)

RECURSIVE CastType(_, _, _)
CastType(table, id, v) ==
    LET node == table[id].node
        each(f(_)) == [i \in DOMAIN v.subs |-> CastType(table, f(i), v.subs[i])]
    IN CASE node.k = "any" -> v
         [] node.k = "null" -> Null
         [] node.k = "bool" -> ToBool(v)
         [] node.k = "char" -> CastToChar(v)
         [] node.k = "int" -> CastToInt(v)
         [] node.k = "float" -> CastToFloat(v)
         [] node.k = "string" -> CastToString(v)
         [] node.k \in UnaryTypes ->
               IF v.k = node.k THEN Collected(v.k, each(LAMBDA i : node.subs[1])) ELSE Null
         [] node.k = "tuple_n" ->
               IF IsContiguous(v) /\ Len(v.subs) = Len(node.subs)
               THEN Collected("tuple", each(LAMBDA i : node.subs[i])) ELSE Null
         [] OTHER -> IF TypeIs(table, id, v) THEN v ELSE Null

\* objects/Type.cxx: whatever is thrown inside a cast makes it null.
Cast(table, id, v) == LET r == CastType(table, id, v) IN IF IsFailure(r) THEN Null ELSE r
=============================================================================
