------------------------------ MODULE Executor ------------------------------
(***************************************************************************)
(* The virtual machine on a compiled program: what the instructions that   *)
(* compiled code uses do to its state vm (VMCore).  Machine describes      *)
(* calls, natives and coroutines for programs of any shape; here the       *)
(* instructions are fetched from a file, and coroutines, build-in          *)
(* functions and the members of objects other than structs are left out.   *)
(*                                                                         *)
(* vm.heap is the vector of objects ever allocated; a reference is a value *)
(* of the kind of its object whose number is the object's index.  Strings  *)
(* cannot be changed by these instructions and are values of their own.    *)
(* room, of a frame, is the number of slots push_frame makes its own.      *)
(***************************************************************************)
EXTENDS Linker

CONSTANTS IntBits, CharBits, Mantissa,
          Alphabet    \* the characters of texts: character i has the code i
V == INSTANCE Arithmetic

CodeOf(letter) == SelectInSeq(Alphabet, LAMBDA c : c = letter)
StringOf(text) ==
    V!Container("string", [i \in 1..Len(text) |-> V!Character(CodeOf(Letters(text)[i]))])

(***************************************************************************)
(* The stack and the heap.                                                 *)
(***************************************************************************)
Start(pc) == [pc |-> pc, values |-> <<>>, frames |-> <<>>, fp |-> 0, heap |-> <<>>]
Push(vm, value) == [vm EXCEPT !.values = Append(@, value)]
Peek(vm) == Last(vm.values)
Operand(vm, depth) == vm.values[Len(vm.values) - depth]
Pop(vm, n) == [vm EXCEPT !.values = SubSeq(@, 1, Len(@) - n)]
Become(vm, n, value) == Push(Pop(vm, n), value)
Slot(vm, offset) == vm.values[vm.fp + offset + 1]
WriteSlot(vm, offset, value) == [vm EXCEPT !.values[vm.fp + offset + 1] = value]

Alloc1(vm, n, object) ==
    [Become(vm, n, V!Scalar(object.k, Len(vm.heap) + 1)) EXCEPT !.heap = Append(@, object)]
At(vm, ref) == vm.heap[ref.n]

\* A container as the operators see it: one level for +, all for comparisons.
Kinds == {"array", "tuple", "struct", "map", "function", "iterator"}
Shallow(vm, v) == IF v.k \in {"array", "tuple"} THEN At(vm, v) ELSE v
RECURSIVE Deep(_, _)
Deep(heap, v) ==
    IF v.k \in Kinds
    THEN [heap[v.n] EXCEPT !.subs = [i \in DOMAIN @ |-> Deep(heap, @[i])]] ELSE v

PushFrame(vm, ret, arity, entry) ==
    [vm EXCEPT !.frames = Append(@, [ret |-> ret, prev |-> vm.fp, handler |-> 0,
                                     context |-> entry, room |-> arity + entry.frame_size]),
               !.fp = Len(vm.values) - arity,
               !.values = @ \o [i \in 1..entry.frame_size |-> V!Null]]
PopFrame(vm) ==
    [vm EXCEPT !.pc = Last(vm.frames).ret, !.values = SubSeq(@, 1, vm.fp),
               !.fp = Last(vm.frames).prev, !.frames = Front(@)]

(***************************************************************************)
(* Exceptions: the newest frame with a handler is unwound to.  Without one *)
(* the run loop is left with the value (Unhandled).                        *)
(***************************************************************************)
Unhandled(vm, value) == [vm EXCEPT !.values = <<value>>, !.frames = <<>>, !.pc = -1]
RECURSIVE Throw(_, _)
\* Slip: the frame in which the handler runs has the handler, too.
ThrowKeepsHandler(vm, value) ==
    IF vm.frames = <<>> THEN Unhandled(vm, value)
    ELSE LET frame == Last(vm.frames)
             outer == PopFrame(vm)
             inner == PushFrame(Push(outer, value), frame.ret, 1, frame.context)
         IN IF frame.handler = 0 THEN Throw(outer, value)
            ELSE [inner EXCEPT !.pc = frame.handler,
                               !.frames[Len(inner.frames)].handler = frame.handler]
Throw(vm, value) ==
    IF vm.frames = <<>> THEN Unhandled(vm, value)
    ELSE LET frame == Last(vm.frames)
             outer == PopFrame(vm)
         IN IF frame.handler = 0 THEN Throw(outer, value)
            ELSE [PushFrame(Push(outer, value), frame.ret, 1, frame.context)
                    EXCEPT !.pc = frame.handler]
Fail(vm, what) == Throw(vm, StringOf(what))
\* An operator that computes a value, or fails.
Result(vm, n, value) ==
    IF V!IsFailure(value) THEN Fail(Pop(vm, n), value.k)
    ELSE IF value.k \in {"array", "tuple"} THEN Alloc1(vm, n, value)
    ELSE Become(vm, n, value)

(***************************************************************************)
(* Values and slots.                                                       *)
(***************************************************************************)
ExecPrimitive(vm, inst) ==
    CASE inst.op = "newi" -> Push(vm, V!Integer(inst.arg))
      [] inst.op = "newi_small" ->
            Push(vm, V!Integer(IF inst.arg > 127 THEN inst.arg - 256 ELSE inst.arg))
      [] inst.op \in ConstantInsts ->
            Push(vm, V!Integer(SelectInSeq(<<"newi_const_0", "newi_const_1", "newi_const_2">>,
                                           LAMBDA op : op = inst.op) - 1))
      [] inst.op = "newf" -> Push(vm, inst.float)
      [] inst.op = "newc" -> Push(vm, V!Character(inst.arg))
      [] inst.op \in {"true", "false"} -> Push(vm, V!Boolean(inst.op = "true"))
      [] inst.op = "null" -> Push(vm, V!Null)

FastSlot ==
    [load_0 |-> 0, load_1 |-> 1, load_2 |-> 2, load_3 |-> 3,
     store_0 |-> 0, store_1 |-> 1, store_2 |-> 2, store_3 |-> 3]
SlotOf(inst) == IF inst.op \in DOMAIN FastSlot THEN FastSlot[inst.op] ELSE inst.arg
Loads == {"load_x", "load_0", "load_1", "load_2", "load_3"}
Stores == {"store_x", "store_0", "store_1", "store_2", "store_3"}
ExecUnpack(vm, size) ==
    LET ref == Peek(vm)
        from == Pop(vm, 1)
    IN IF ref.k # "tuple" THEN Fail(from, "not_a_tuple")
       ELSE IF Len(At(vm, ref).subs) < size THEN Fail(from, "cannot_unpack_tuple")
       ELSE [from EXCEPT !.values = @ \o Reverse(SubSeq(At(vm, ref).subs, 1, size))]
ExecStack(vm, inst) ==
    CASE inst.op = "scrap" -> Pop(vm, 1)
      [] inst.op = "duplicate" -> Push(vm, Peek(vm))
      [] inst.op = "swap" -> Push(Become(vm, 2, Peek(vm)), Operand(vm, 1))
      [] inst.op = "unpack" -> ExecUnpack(vm, inst.arg)
      [] inst.op \in Loads -> Push(vm, Slot(vm, SlotOf(inst)))
      [] inst.op \in Stores -> WriteSlot(Pop(vm, 1), SlotOf(inst), Peek(vm))

ExecGlobal(vm, inst) ==
    IF inst.op = "global_read" THEN Push(vm, vm.values[inst.arg + 1])
    ELSE [Pop(vm, 1) EXCEPT !.values[inst.arg + 1] = Peek(vm)]

(***************************************************************************)
(* Operators.                                                              *)
(***************************************************************************)
UnaryOf(op, x) ==
    CASE op = "neg" -> V!Neg(x)
      [] op = "not" -> V!LogicalNot(x)
      [] op = "inc" -> V!Inc(x)
      [] op = "dec" -> V!Dec(x)
      [] op = "bit_not" -> V!BitNot(x)
      [] op = "cast_bool" -> V!ToBool(x)
      [] op = "deref" -> IF x = V!Null THEN V!Raise("cannot_dereference_null") ELSE x
UnaryInsts == {"neg", "not", "inc", "dec", "bit_not", "cast_bool", "deref"}
ArithmeticOf(op, l, r) ==
    CASE op = "add" -> V!Add(l, r)
      [] op = "sub" -> V!Sub(l, r)
      [] op = "mlt" -> V!Mlt(l, r)
      [] op = "div" -> V!Div(l, r)
      [] op = "mod" -> V!Mod(l, r)
      [] op = "pow" -> V!Pow(l, r)
      [] op = "bit_and" -> V!BitAnd(l, r)
      [] op = "bit_or" -> V!BitOr(l, r)
      [] op = "bit_xor" -> V!BitXor(l, r)
      [] op = "shift_l" -> V!ShiftL(l, r)
      [] op = "shift_r" -> V!ShiftR(l, r)
ComparisonInsts == {"eql", "ueql", "lt", "gt", "lt_eql", "gt_eql", "comp"}
ComparisonOf(op, l, r) ==
    LET order == V!Compare(l, r)
    IN IF order = V!Throws THEN V!Raise("invalid_comparison")
       ELSE CASE op = "eql" -> V!Boolean(order = 0)
              [] op = "ueql" -> V!Boolean(order # 0)
              [] op = "lt" -> V!Boolean(order < 0)
              [] op = "gt" -> V!Boolean(order > 0)
              [] op = "lt_eql" -> V!Boolean(order <= 0)
              [] op = "gt_eql" -> V!Boolean(order >= 0)
              [] op = "comp" -> V!Integer(order)
ExecOperator(vm, inst) ==
    CASE inst.op \in UnaryInsts -> Result(vm, 1, UnaryOf(inst.op, Peek(vm)))
      [] inst.op \in ComparisonInsts ->
            Result(vm, 2, ComparisonOf(inst.op, Deep(vm.heap, Operand(vm, 1)),
                                       Deep(vm.heap, Peek(vm))))
      [] OTHER -> Result(vm, 2, ArithmeticOf(inst.op, Shallow(vm, Operand(vm, 1)),
                                             Shallow(vm, Peek(vm))))

(***************************************************************************)
(* Objects.                                                                *)
(***************************************************************************)
Topmost(vm, n) == SubSeq(vm.values, Len(vm.values) - n + 1, Len(vm.values))
ExecAlloc(vm, inst, image) ==
    CASE inst.op \in {"newarr", "newtuple"} ->
            Alloc1(vm, inst.arg, V!Container(IF inst.op = "newarr" THEN "array" ELSE "tuple",
                                             Topmost(vm, inst.arg)))
      [] inst.op = "newstr" -> Push(vm, StringOf(image.strings[inst.arg + 1]))
      [] inst.op = "newstruct" -> Alloc1(vm, 0, V!Container("struct", <<>>))
      [] inst.op = "newmap" -> Alloc1(vm, 0, V!Container("map", <<>>))
      [] inst.op = "newfx" -> Alloc1(vm, 0, V!Object("function", inst.arg + 1, <<>>, <<>>))
      [] inst.op = "newtype" -> Push(vm, V!Object("type", Head(inst.bytes), <<>>, <<>>))
ExecCapture(vm) ==
    [Pop(vm, 1) EXCEPT !.heap[Operand(vm, 1).n].subs = Append(@, Peek(vm))]

\* to_index: 1-based, or 0 if there is no such element.
ToIndex(key, size) ==
    LET index == IF key.n < 0 THEN key.n + size ELSE key.n
    IN IF key.k # "int" \/ index \notin 0..(size - 1) THEN 0 ELSE index + 1
\* The pair of a map with the key, 0 if there is none.
PairOf(vm, map, key) ==
    SelectInSeq(map.subs, LAMBDA p :
        V!StrictCompare(Deep(vm.heap, At(vm, p).subs[1]), Deep(vm.heap, key)) = 0)
ExecAt(vm) ==
    LET key == Peek(vm)
        ref == Operand(vm, 1)
        object == IF ref.k = "string" THEN ref ELSE At(vm, ref)
        index == ToIndex(key, Len(object.subs))
        pair == PairOf(vm, object, key)
    IN CASE ref.k \in {"array", "tuple", "string"} ->
              IF index = 0 THEN Fail(Pop(vm, 2), "out_of_range")
              ELSE Become(vm, 2, object.subs[index])
         [] ref.k = "map" ->
              Become(vm, 2, IF pair = 0 THEN V!Null ELSE At(vm, object.subs[pair]).subs[2])
         [] OTHER -> Fail(Pop(vm, 2), "invalid_argument")
ExecAtWrite(vm) ==
    LET key == Peek(vm)
        ref == Operand(vm, 1)
        elem == Operand(vm, 2)
        object == At(vm, ref)
        index == ToIndex(key, Len(object.subs))
        pair == PairOf(vm, object, key)
        entry == V!Container("tuple", <<key, elem>>)
    IN CASE ref.k \in {"array", "tuple"} ->
              IF index = 0 THEN Fail(Pop(vm, 3), "out_of_range")
              ELSE [Pop(vm, 3) EXCEPT !.heap[ref.n].subs[index] = elem]
         [] ref.k = "map" ->
              IF pair # 0
              THEN [Pop(vm, 3) EXCEPT !.heap[object.subs[pair].n].subs[2] = elem]
              ELSE [Pop(vm, 3) EXCEPT
                      !.heap = Append([@ EXCEPT ![ref.n].subs =
                                          Append(@, V!Scalar("tuple", Len(vm.heap) + 1))], entry)]
         [] OTHER -> Fail(Pop(vm, 3), "invalid_argument")

Member(object, id) == SelectInSeq(object.ids, LAMBDA i : i = id)
ExecMemberRead(vm, id) ==
    LET ref == Peek(vm)
        member == Member(At(vm, ref), id)
    IN IF ref.k # "struct" THEN Fail(Pop(vm, 1), "invalid_member_access")
       ELSE Become(vm, 1, IF member = 0 THEN V!Null ELSE At(vm, ref).subs[member])
\* Writing null removes a member.
ExecMemberWrite(vm, id) ==
    LET ref == Peek(vm)
        value == Operand(vm, 1)
        rest == Pop(vm, 2)
        object == At(vm, ref)
        member == Member(object, id)
    IN IF ref.k # "struct" THEN Fail(rest, "invalid_member_access")
       ELSE [rest EXCEPT !.heap[ref.n] =
               IF member = 0
               THEN [@ EXCEPT !.ids = Append(@, id), !.subs = Append(@, value)]
               ELSE IF value = V!Null
               THEN [@ EXCEPT !.ids = RemoveAt(@, member), !.subs = RemoveAt(@, member)]
               ELSE [@ EXCEPT !.subs[member] = value]]

\* Iterators over arrays and tuples; the iterator is at its index n.
ExecIter(vm) ==
    IF Peek(vm).k \in {"array", "tuple"}
    THEN Alloc1(vm, 1, V!Object("iterator", 0, <<Peek(vm)>>, <<>>))
    ELSE Fail(Pop(vm, 1), "invalid_argument")
ExecForNext(vm, inst) ==
    LET iter == At(vm, Peek(vm))
        range == At(vm, iter.subs[1]).subs
    IN IF iter.n < Len(range)
       THEN [Push(vm, range[iter.n + 1]) EXCEPT !.heap[Peek(vm).n].n = @ + 1]
       ELSE [Push(vm, V!Scalar("stop", 0)) EXCEPT !.pc = inst.arg]

(***************************************************************************)
(* Control flow.                                                           *)
(***************************************************************************)
ExecBranch(vm, inst) ==
    LET cond == V!ToBool(Peek(vm))
    IN CASE inst.op = "jump" -> [vm EXCEPT !.pc = inst.arg]
         [] inst.op = "ifelse" ->
               IF cond.n = 0 THEN [Pop(vm, 1) EXCEPT !.pc = inst.arg] ELSE Pop(vm, 1)

ExecCall(vm, inst, image) ==
    LET entry == image.functions[inst.arg + 1]
        arity == entry.arity + IF entry.is_variadic THEN 1 ELSE 0
    IN [PushFrame(vm, vm.pc, arity, entry) EXCEPT !.pc = entry.address]
ExecReturn(vm, inst) ==
    Push(PopFrame(vm), IF inst.op = "return_null" THEN V!Null ELSE Peek(vm))

\* The arguments beyond the arity become a tuple, the captures follow.
ExecInvoke(vm, count, image) ==
    LET fx == At(vm, Peek(vm))
        entry == image.functions[fx.n]
        popped == Pop(vm, 1)
        ready == IF entry.is_variadic
                 THEN Alloc1(popped, count - entry.arity,
                             V!Container("tuple", Topmost(popped, count - entry.arity)))
                 ELSE popped
        loaded == [ready EXCEPT !.values = @ \o fx.subs]
        arity == entry.arity + (IF entry.is_variadic THEN 1 ELSE 0) + Len(fx.subs)
    IN IF Peek(vm).k # "function" THEN Fail(popped, "invalid_argument")
       ELSE IF count < entry.arity \/ (count > entry.arity /\ ~entry.is_variadic)
            THEN Fail(popped, "invalid_parameters")
       ELSE [PushFrame(loaded, vm.pc, arity, entry) EXCEPT !.pc = entry.address]

ExecTry(vm, inst) == [vm EXCEPT !.frames[Len(vm.frames)].handler = inst.arg]
ExecThrow(vm) == Throw(Pop(vm, 1), Peek(vm))

\* VM::call of main without arguments.  exit is the last byte of the code.
Main(image) ==
    LET one == GetByName(image.functions, "main(1)")
    IN IF one # 0 THEN one ELSE GetByName(image.functions, "main(0)")
\* Slip: main returns behind the code.
JumpToInitPastEnd(vm, image) ==
    LET entry == image.functions[Main(image)]
    IN [PushFrame(vm, Len(image.byte_code), 0, entry) EXCEPT !.pc = entry.address]
JumpToInit(vm, image) ==
    LET entry == image.functions[Main(image)]
    IN [PushFrame(vm, Len(image.byte_code) - 1, 0, entry) EXCEPT !.pc = entry.address]
=============================================================================
