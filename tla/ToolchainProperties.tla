------------------------ MODULE ToolchainProperties ------------------------
(* What the compiled program owes to its source. *)
EXTENDS Toolchain
M == INSTANCE Meaning

Stages ==
    {"analyze", "optimize", "compile", "peephole", "link", "assemble", "setup", "init_static",
     "main", "done", "unhandled", "without_main", "refused"}

\* The machine stays in the code it has read, the frames lie above each other
\* on the stack and every reference on the stack is to an object of the heap.
TypeOK ==
    /\ source \in DOMAIN Sources
    /\ stage \in Stages
    /\ Executing =>
         /\ vm.pc \in 0..(Len(image.byte_code) - 1)
         /\ vm.fp \in 0..Len(vm.values)
         /\ \A i \in DOMAIN vm.frames :
               /\ vm.frames[i].prev <= (IF i = Len(vm.frames) THEN vm.fp
                                        ELSE vm.frames[i + 1].prev)
               /\ vm.frames[i].ret \in 0..(Len(image.byte_code) - 1)
         /\ \A i \in DOMAIN vm.values :
               vm.values[i].k \in Kinds => vm.values[i].n \in DOMAIN vm.heap

(***************************************************************************)
(* The file (link.cxx, assemble.cxx, VM::setup, the fetch_* functions).    *)
(***************************************************************************)
RECURSIVE DecodedFrom(_, _)
DecodedFrom(byte_code, pc) ==
    IF pc >= Len(byte_code) THEN <<>>
    ELSE LET inst == Fetch(byte_code, pc)
         IN <<[inst |-> inst, pos |-> pc]>> \o DecodedFrom(byte_code, inst.next)

\* The instruction at the i-th place came back with what it was made with: a
\* jump leads to the instruction behind its label, the number of a function
\* or of a text to the function or the text of that name.
CameBack(inst, got, decoded, behind, read) ==
    /\ got.op = inst.op
    /\ LET kind == Kind(inst.op)
       IN CASE kind = "jump" -> got.arg = decoded[behind[inst.label]].pos
            [] kind = "call" ->
                  /\ read.functions[got.arg + 1].name = inst.label
                  /\ read.functions[got.arg + 1].address = decoded[behind[inst.label]].pos
            [] kind = "text" -> read.strings[got.arg + 1] = inst.text
            [] kind \in {"u64", "i64", "u16", "byte"} -> got.arg = inst.value
            [] kind = "float" -> got.float = inst.float
            [] kind = "bytes" -> got.bytes = inst.bytes
            [] OTHER -> TRUE

\* What the machine reads from the file is what the compiler wrote: the
\* instructions one by one, with jumps, calls and texts that mean the same,
\* and the functions with their arity and frame.
DecodesAsAssembled ==
    stage = "setup" =>
        LET read == Setup(product.file)
            decoded == DecodedFrom(read.byte_code, 0)
            insts == SelectSeq(product.code, LAMBDA inst : inst.op # "label")
            before(i) ==
                Len(SelectSeq(SubSeq(product.code, 1, i), LAMBDA inst : inst.op # "label"))
            behind == [label \in {product.code[i].label : i \in LabelsOf(product.code)} |->
                          1 + before(CHOOSE i \in LabelsOf(product.code) :
                                        product.code[i].label = label)]
        IN /\ Len(decoded) = Len(insts)
           /\ \A i \in DOMAIN insts :
                 CameBack(insts[i], decoded[i].inst, decoded, behind, read)
           /\ Len(read.functions) = Len(product.sst.functions)
           /\ \A i \in DOMAIN read.functions :
                 LET fx == product.sst.functions[i]
                     entry == read.functions[i]
                 IN /\ entry.name = fx.label
                    /\ entry.arity = fx.arity
                    /\ entry.is_variadic = fx.is_variadic
                    /\ entry.is_external = ("extern" \in fx.qualifiers)
                    /\ entry.frame_size = TotalAlloc(fx.body)
           /\ read.members = [i \in DOMAIN product.sst.member_name_table |->
                                 <<product.sst.member_name_table[i], 255 + i>>]

\* A program the analyzer accepts can be compiled and linked.  The label of a
\* function names nothing else.
AcceptedLinks == stage = "refused" => product.phase = "analyze"

(***************************************************************************)
(* The stack (doc/technical/nodes.md).                                     *)
(***************************************************************************)
ArityOf(program, label) ==
    LET fx == program.functions[SelectInSeq(program.functions, LAMBDA f : f.label = label)]
    IN fx.arity + IF fx.is_variadic THEN 1 ELSE 0
Binary ==
    {"add", "sub", "mlt", "div", "mod", "pow", "eql", "ueql", "lt", "gt", "lt_eql", "gt_eql",
     "comp", "shift_l", "shift_r", "bit_and", "bit_or", "bit_xor", "at", "capture", "scrap",
     "ifelse", "global_write", "yield"} \cup Stores
Growing ==
    PrimitiveInsts \cup ConstantInsts \cup Loads \cup
    {"newstr", "newfx", "newstruct", "newmap", "newtype", "duplicate", "global_read",
     "for_next"}
Growth(program, inst) ==
    CASE inst.op \in Growing -> 1
      [] inst.op \in Binary -> -1
      [] inst.op = "at_write" -> -3
      [] inst.op = "member_write" -> -2
      [] inst.op \in {"newarr", "newtuple"} -> 1 - inst.value
      [] inst.op = "unpack" -> inst.value - 1
      [] inst.op = "call" -> 1 - ArityOf(program, inst.label)
      [] inst.op = "invoke" -> -inst.value
      [] OTHER -> 0
Ending == {"jump", "return", "return_null", "co_return", "throw", "exit"}
Needed == [return |-> 1, return_null |-> 0, co_return |-> 1, throw |-> 1, exit |-> 1]

\* The height of the stack above the variables, along the code: where two
\* ways meet it is the same.  Unreached code has the height Unreached.
Unreached == -1
Heights(program, code) ==
    LET entries ==
            {fx.label : fx \in Range(program.functions)}
                \cup {DeriveExcept(fx.label) : fx \in {f \in Range(program.functions) :
                                                          IsThere(f.except)}}
        meets(acc, label, height) ==
            IF height = Unreached THEN acc
            ELSE IF label \in DOMAIN acc.at
            THEN [acc EXCEPT !.ok = @ /\ acc.at[label] = height]
            ELSE [acc EXCEPT !.at = (label :> height) @@ @]
        step(acc, inst) ==
            LET after == IF acc.here = Unreached THEN Unreached
                         ELSE acc.here + Growth(program, inst)
                next == [acc EXCEPT !.here = IF inst.op \in Ending THEN Unreached ELSE after,
                                    !.ok = @ /\ (acc.here = Unreached \/ after >= 0)
                                             /\ (inst.op \in DOMAIN Needed =>
                                                   acc.here = Unreached
                                                     \/ acc.here >= Needed[inst.op])]
            IN IF inst.op = "label"
               THEN LET joined == meets(acc, inst.label, acc.here)
                    IN [joined EXCEPT !.here = IF inst.label \in DOMAIN joined.at
                                               THEN joined.at[inst.label] ELSE Unreached]
               ELSE IF inst.op \in {"jump", "ifelse", "for_next"}
               THEN meets(next, inst.label, after) ELSE next
    IN FoldLeft(step, [here |-> 0, ok |-> TRUE, at |-> [label \in entries |-> 0]], code)

\* An expression leaves exactly one value on the stack and a statement none,
\* on every way through the code: wherever ways meet, the stack has the same
\* height, it never falls below the variables and a return finds its value.
StackDisciplined ==
    stage \in {"peephole", "link"} => Heights(product.sst, product.code).ok

(***************************************************************************)
(* The running program.                                                    *)
(***************************************************************************)
\* A variable lies in the window that push_frame made for the function (the
\* slots that scopes give to variables fit into the frame_size of the linker).
SlotsInWindow ==
    stage = "main" /\ Fetched.op \in Loads \cup Stores =>
        SlotOf(Fetched) < Last(vm.frames).room

Declared(label) ==
    LET all == Parsed.functions
    IN all[SelectInSeq(all, LAMBDA fx : FunctionLabel(fx) = label)]
NamespaceOf(label) ==
    IF \E fx \in Range(Parsed.functions) : FunctionLabel(fx) = label
    THEN Declared(label).namespaze.path ELSE <<>>
\* A private function is called only by functions of its namespace and of
\* those inside it (doc/language/Functions.md).
PrivateKept ==
    stage = "main" /\ Fetched.op = "call" =>
        LET callee == image.functions[Fetched.arg + 1].name
            caller == Last(vm.frames).context.name
        IN "private" \in Declared(callee).qualifiers =>
              IsPrefix(NamespaceOf(callee), NamespaceOf(caller))

\* The instruction reads or writes the static variable of a global: the
\* variables of the labels and the definitions come before those of globals.
LabelCount == FoldSeq(LAMBDA e, n : n + Len(e.labels), 0, Parsed.enums)
GlobalOf(inst) == inst.arg + 1 - LabelCount - Len(Parsed.definitions)
\* A private global is used only by functions of its namespace and of those
\* inside it (doc/language/Variables.md: it cannot be used from outside).
PrivateGlobalsKept ==
    stage = "main" /\ Fetched.op \in {"global_read", "global_write"}
        /\ GlobalOf(Fetched) \in DOMAIN Parsed.globals =>
        LET global == Parsed.globals[GlobalOf(Fetched)]
        IN global.is_private =>
              IsPrefix(global.namespaze.path, NamespaceOf(Last(vm.frames).context.name))

\* A value with all it contains, its members by their names.
RECURSIVE Shown(_)
Shown(v) ==
    IF v.k \notin Kinds THEN v
    ELSE LET object == vm.heap[v.n]
             name(id) == (CHOOSE m \in Range(image.members) : m[2] = id)[1]
         IN [object EXCEPT !.subs = [i \in DOMAIN @ |-> Shown(@[i])],
                           !.ids = [i \in DOMAIN @ |-> name(@[i])]]

\* main returns what it means, and ends with an unhandled exception only if
\* it means that: compiling, optimising and assembling keep the meaning.
MeaningKept ==
    /\ stage = "done" =>
          M!Means(Parsed) = [how |-> "value", v |-> Shown(product.value)]
    /\ stage = "unhandled" => M!Means(Parsed).how = "throw"

\* Every program of the instance comes to an end.
Ends == <>(stage \in {"done", "unhandled", "without_main", "refused"})
=============================================================================
