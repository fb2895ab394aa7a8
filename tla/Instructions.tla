---------------------------- MODULE Instructions ----------------------------
(***************************************************************************)
(* The instructions the compiler emits (ltnc/inst), their numbers          *)
(* (ltn/opcodes.hxx) and those of the built-in functions.  An instruction  *)
(* is its name op and, where its kind has one, its argument: a value, the  *)
(* label of a position or of a function, a text of the string pool, a      *)
(* float or bytes.  A label is an instruction of size 0.                   *)
(***************************************************************************)
EXTENDS Integers, SequencesExt

(***************************************************************************)
(* The instructions by what they do.                                       *)
(***************************************************************************)
SystemInsts == {"label", "exit", "error", "try", "throw", "build_in"}
OperatorInsts ==
    {"add", "sub", "mlt", "div", "mod", "eql", "ueql", "lt", "gt", "lt_eql", "gt_eql",
     "shift_l", "shift_r", "neg", "not", "inc", "dec", "deref", "comp"}
PrimitiveInsts == {"newi", "newf", "newc", "true", "false", "null", "newi_small"}
AllocInsts ==
    {"newarr", "newstr", "newfx", "newclock", "newstruct", "newstack", "newqueue", "newmap",
     "newtuple", "newtype"}
ControlInsts ==
    {"jump", "call", "return", "ifelse", "invoke", "invoke_variadic", "capture", "for_next",
     "yield", "co_return", "co_dump", "return_null"}
StackInsts ==
    {"scrap", "duplicate", "load_x", "store_x", "swap", "unpack", "load_0", "load_1",
     "load_2", "load_3", "store_0", "store_1", "store_2", "store_3"}
ConstantInsts == {"newi_const_0", "newi_const_1", "newi_const_2"}
BitwiseInsts == {"pow", "bit_and", "bit_or", "bit_xor", "bit_not"}
CollectionInsts == {"at", "at_write", "iter", "cast_bool"}
MemberInsts == {"member_read", "member_write", "global_read", "global_write"}

\* The kinds of the instructions with an argument; all others have none.
KindOf ==
    [label |-> "label", try |-> "jump", jump |-> "jump", ifelse |-> "jump",
     for_next |-> "jump", call |-> "call", newfx |-> "call", newstr |-> "text",
     build_in |-> "u16", newi |-> "i64", newf |-> "float", newc |-> "byte",
     newi_small |-> "byte", invoke |-> "byte", unpack |-> "byte", newtype |-> "bytes",
     newarr |-> "u64", newtuple |-> "u64", load_x |-> "u64", store_x |-> "u64",
     member_read |-> "u64", member_write |-> "u64", global_read |-> "u64",
     global_write |-> "u64"]
Kind(op) == IF op \in DOMAIN KindOf THEN KindOf[op] ELSE "none"

Inst(op) == [op |-> op]
WithValue(op, value) == [op |-> op, value |-> value]
WithLabel(op, label) == [op |-> op, label |-> label]
WithText(op, text) == [op |-> op, text |-> text]
WithFloat(op, value) == [op |-> op, float |-> value]
WithBytes(op, bytes) == [op |-> op, bytes |-> bytes]
Byte(n) == n % 256

\* Slip: the zero that ends the bytes of a type is not counted.
SizeUnterminated(inst) ==
    LET kind == Kind(inst.op)
    IN IF kind = "label" THEN 0 ELSE IF kind = "none" THEN 1 ELSE IF kind = "byte" THEN 2
       ELSE IF kind = "u16" THEN 3 ELSE IF kind = "bytes" THEN 1 + Len(inst.bytes) ELSE 9
\* get_inst_size: the opcode, and the argument.
Size(inst) ==
    LET kind == Kind(inst.op)
    IN CASE kind = "label" -> 0
         [] kind = "none" -> 1
         [] kind = "byte" -> 2
         [] kind = "u16" -> 3
         [] kind = "bytes" -> 1 + Len(inst.bytes) + 1
         [] kind \in {"jump", "call", "u64", "i64", "float", "text"} -> 9

OpCode ==
    [exit |-> 0, error |-> 1, try |-> 2, throw |-> 3, build_in |-> 4,
     add |-> 16, sub |-> 17, mlt |-> 18, div |-> 19, mod |-> 20, pow |-> 21,
     eql |-> 24, ueql |-> 25, lt |-> 26, gt |-> 27, lt_eql |-> 28, gt_eql |-> 29,
     shift_l |-> 30, shift_r |-> 31,
     neg |-> 32, not |-> 33, inc |-> 34, dec |-> 35, deref |-> 36, comp |-> 40,
     newi |-> 48, newf |-> 49, newc |-> 50, true |-> 51, false |-> 52, null |-> 53,
     newi_small |-> 54,
     jump |-> 64, call |-> 65, return |-> 66, ifelse |-> 67, invoke |-> 68,
     invoke_variadic |-> 69, capture |-> 70, for_next |-> 71, yield |-> 72,
     co_return |-> 73, co_dump |-> 74, return_null |-> 75,
     newarr |-> 80, newstr |-> 81, newfx |-> 82, newclock |-> 83, newstruct |-> 84,
     newstack |-> 85, newqueue |-> 86, newmap |-> 87, newtuple |-> 88, newtype |-> 89,
     scrap |-> 96, duplicate |-> 97, load_x |-> 98, store_x |-> 99, swap |-> 100,
     unpack |-> 101,
     load_0 |-> 104, load_1 |-> 105, load_2 |-> 106, load_3 |-> 107,
     store_0 |-> 108, store_1 |-> 109, store_2 |-> 110, store_3 |-> 111,
     newi_const_0 |-> 112, newi_const_1 |-> 113, newi_const_2 |-> 114,
     bit_and |-> 144, bit_or |-> 145, bit_xor |-> 146, bit_not |-> 147,
     at |-> 160, at_write |-> 161, iter |-> 162, cast_bool |-> 176,
     member_read |-> 208, member_write |-> 209, global_read |-> 210, global_write |-> 211]

\* FxCode: the built-in functions, numbered in groups of 16.
FxCodes ==
  << <<"algorithm_sort_ascn", "algorithm_sort_desc", "algorithm_is_sorted_ascn",
        "algorithm_is_sorted_desc", "algorithm_find", "algorithm_fill", "algorithm_reverse",
        "algorithm_reduce_l_2", "algorithm_reduce_l_3">>,
     <<"random_split", "random_rand", "random_rand_int", "random_rand_float",
        "random_mersenne_0", "random_mersenne_1">>,
     <<"fx_arity", "fx_invoke", "fx_is_variadic", "fx_noroutine",
        "fx_is_noroutine">>,
     <<"io_reset_color", "io_fg_color", "io_bg_color", "io_close", "io_is_eof",
        "io_print", "io_read_str", "io_readln", "io_read_bool", "io_read_char", "io_read_int",
        "io_read_float", "io_read_all">>,
     <<"to_string", "split_string">>,
     <<"math_min", "math_max", "math_clamp", "math_round", "math_floor",
        "math_ceil", "math_abs", "math_sin", "math_cos", "math_tan", "math_sqrt",
        "math_hypot", "math_log", "math_ln", "math_ld", "math_lg">>,
     <<"io_cout", "io_fout", "io_strout", "io_cin", "io_fin", "io_strin",
        "", "", "json_parse", "json_print">>,
     <<"type_typeid", "type_clone", "type_is", "type_cast", "queue", "stack",
        "map">>,
     <<"iter_range", "iter_next", "iter_get", "iter_move", "iter_iter",
        "iter_is_stop", "iter_zipped", "iter_reversed">>,
     <<"chrono_clock", "chrono_to_seconds", "chrono_to_milliseconds">>,
     <<"container_push", "container_pop", "container_peek",
        "container_contains", "container_size", "container_empty", "container_at",
        "container_front", "container_back", "container_insert_front",
        "container_insert_back", "container_insert", "container_remove_front",
        "container_remove_back", "container_remove">>,
     <<"load_plugin">> >>

\* resolve_build_in: the keys of the standard library; two name IO_READ_STR.
BuildInCode(key) ==
    LET name == IF key = "io_read" THEN "io_read_str" ELSE key
        here == {g \in DOMAIN FxCodes : name # "" /\ Contains(FxCodes[g], name)}
    IN IF here = {} THEN -1
       ELSE LET g == CHOOSE g \in here : TRUE
            IN 16 * (g - 1) + SelectInSeq(FxCodes[g], LAMBDA k : k = name) - 1
=============================================================================
