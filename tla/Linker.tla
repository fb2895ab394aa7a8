------------------------------- MODULE Linker -------------------------------
(***************************************************************************)
(* Linking and assembling (ltnc/link, ltnc/assemble), the file that is     *)
(* written (ltn/file) and how the virtual machine reads it (VM::setup).    *)
(*                                                                         *)
(* A file is a sequence of cells: bytes and, for the texts of names and    *)
(* string literals, characters.  The eight cells of a float carry the      *)
(* float.  A text contains no NUL, which would end it, and a type literal  *)
(* no number, whose bytes may be 0 (its bytes are read in Types).          *)
(***************************************************************************)
EXTENDS Codegen

(***************************************************************************)
(* binary.hxx and to_bytes: big-endian words.  Numbers of the model fit    *)
(* into the lower four bytes, so the upper ones repeat the sign.           *)
(***************************************************************************)
ToBytes(value) ==
    [i \in 1..8 |-> IF i <= 4 THEN (IF value < 0 THEN 255 ELSE 0)
                    ELSE (value \div 256^(8 - i)) % 256]
FloatBytes(value) == [i \in 1..8 |-> [float |-> value]]
FetchByte(file, pos) == file[pos + 1]
FetchUint(file, pos) ==
    LET high == IF file[pos + 5] >= 128 THEN file[pos + 5] - 256 ELSE file[pos + 5]
    IN 16777216 * high + 65536 * file[pos + 6] + 256 * file[pos + 7] + file[pos + 8]

Letters(text) == [i \in 1..Len(text) |-> SubSeq(text, i, i)]
TextOf(letters) == FoldLeft(LAMBDA text, c : text \o c, "", letters)

(***************************************************************************)
(* link.cxx.  A label is at the position after it.                         *)
(***************************************************************************)
Position(code, i) == FoldLeft(LAMBDA sum, inst : sum + Size(inst), 0, SubSeq(code, 1, i))
LabelsOf(code) == {i \in DOMAIN code : code[i].op = "label"}
JumpTable(code) ==
    [label \in {code[i].label : i \in LabelsOf(code)} |->
        Position(code, CHOOSE i \in LabelsOf(code) : code[i].label = label)]
RedefinedLabel(code) ==
    \E i, j \in LabelsOf(code) : i # j /\ code[i].label = code[j].label

\* StringPool::push: a text is entered once.
PushText(pool, text) == IF Contains(pool, text) THEN pool ELSE Append(pool, text)
GenerateStringPool(code) ==
    FoldLeft(LAMBDA pool, inst : IF inst.op = "newstr" THEN PushText(pool, inst.text) ELSE pool,
             <<>>, code)

\* Slip: the frame holds the variables of the body, not its temporaries.
FunctionEntryPersistent(fx, jump_table) ==
    [name |-> fx.label, arity |-> fx.arity, address |-> jump_table[fx.label],
     frame_size |-> PersistentAlloc(fx.body), is_external |-> "extern" \in fx.qualifiers,
     is_variadic |-> fx.is_variadic]
FunctionEntry(fx, jump_table) ==
    [name |-> fx.label, arity |-> fx.arity, address |-> jump_table[fx.label],
     frame_size |-> TotalAlloc(fx.body), is_external |-> "extern" \in fx.qualifiers,
     is_variadic |-> fx.is_variadic]
GetByName(pool, name) == SelectInSeq(pool, LAMBDA entry : entry.name = name)

\* What goes wrong, or "": the conditions under which link and assemble throw.
LinkError(program, code) ==
    LET labels == {code[i].label : i \in LabelsOf(code)}
        names == {fx.label : fx \in Range(program.functions)}
    IN CASE RedefinedLabel(code) -> "redefinition_of_label"
         [] ~(names \subseteq labels) -> "no_such_function"
         [] \E inst \in Range(code) : Kind(inst.op) = "jump" /\ inst.label \notin labels ->
               "cannot_find_label"
         [] \E inst \in Range(code) : Kind(inst.op) = "call" /\ inst.label \notin names ->
               "cannot_find_function"
         [] OTHER -> ""
Link(program, code) ==
    LET jump_table == JumpTable(code)
    IN [jump_table |-> jump_table,
        function_pool |-> [i \in DOMAIN program.functions |->
                              FunctionEntry(program.functions[i], jump_table)],
        string_pool |-> GenerateStringPool(code),
        member_name_table |-> program.member_name_table]

(***************************************************************************)
(* The file.                                                               *)
(***************************************************************************)
MajorVersion == 3
WriteText(text) == ToBytes(Len(text)) \o Letters(text)
WriteFunction(entry) ==
    WriteText(entry.name) \o <<Byte(entry.arity)>>
        \o ToBytes(entry.address) \o ToBytes(entry.frame_size)
        \o <<(IF entry.is_external THEN 1 ELSE 0) + (IF entry.is_variadic THEN 2 ELSE 0)>>
Nul == ""
WriteString(text) == Append(Letters(text), Nul)
WriteMember(name, id) == WriteText(name) \o ToBytes(id)
WriteAll(entries, Write(_)) ==
    ToBytes(Len(entries)) \o FlattenSeq([i \in DOMAIN entries |-> Write(entries[i])])
SequenceTable(members) ==
    WriteAll([i \in DOMAIN members |-> <<members[i], 255 + i>>],
             LAMBDA m : WriteMember(m[1], m[2]))

AssembleArgs(inst, info) ==
    LET kind == Kind(inst.op)
    IN CASE kind = "none" -> <<>>
         [] kind = "jump" -> ToBytes(info.jump_table[inst.label])
         [] kind = "call" -> ToBytes(GetByName(info.function_pool, inst.label) - 1)
         [] kind = "text" ->
               ToBytes(SelectInSeq(info.string_pool, LAMBDA t : t = inst.text) - 1)
         [] kind \in {"u64", "i64"} -> ToBytes(inst.value)
         [] kind = "u16" -> <<inst.value \div 256, Byte(inst.value)>>
         [] kind = "byte" -> <<inst.value>>
         [] kind = "float" -> FloatBytes(inst.float)
         [] kind = "bytes" -> Append(inst.bytes, 0)
AssembleInst(inst, info) ==
    IF inst.op = "label" THEN <<>> ELSE <<OpCode[inst.op]>> \o AssembleArgs(inst, info)
Assemble(code, info) ==
    <<MajorVersion>> \o WriteAll(info.function_pool, WriteFunction)
        \o WriteAll(info.string_pool, WriteString)
        \o SequenceTable(info.member_name_table)
        \o FlattenSeq([i \in DOMAIN code |-> AssembleInst(code[i], info)])

(***************************************************************************)
(* VM::setup reads what was written: [pos, read] after each part.          *)
(***************************************************************************)
ReadMany(file, pos, Read(_, _)) ==
    FoldLeft(LAMBDA acc, i :
                LET r == Read(file, acc.pos) IN [pos |-> r.pos, read |-> Append(acc.read, r.read)],
             [pos |-> pos + 8, read |-> <<>>],
             [i \in 1..FetchUint(file, pos) |-> i])
ReadText(file, pos) ==
    LET end == pos + 8 + FetchUint(file, pos)
    IN [pos |-> end, read |-> TextOf(SubSeq(file, pos + 9, end))]
ReadFunction(file, pos) ==
    LET name == ReadText(file, pos)
        flags == FetchByte(file, name.pos + 17)
    IN [pos |-> name.pos + 18,
        read |-> [name |-> name.read, arity |-> FetchByte(file, name.pos),
                  address |-> FetchUint(file, name.pos + 1),
                  frame_size |-> FetchUint(file, name.pos + 9),
                  is_external |-> flags % 2 = 1, is_variadic |-> (flags \div 2) % 2 = 1]]
ReadString(file, pos) ==
    LET length == CHOOSE n \in 0..(Len(file) - pos) :
                     file[pos + n + 1] = Nul /\ \A m \in 1..n : file[pos + m] # Nul
    IN [pos |-> pos + length + 1, read |-> TextOf(SubSeq(file, pos + 1, pos + length))]
ReadMember(file, pos) ==
    LET name == ReadText(file, pos)
    IN [pos |-> name.pos + 8, read |-> <<name.read, FetchUint(file, name.pos)>>]

Setup(file) ==
    LET functions == ReadMany(file, 1, ReadFunction)
        strings == ReadMany(file, functions.pos, ReadString)
        members == ReadMany(file, strings.pos, ReadMember)
    IN [functions |-> functions.read, strings |-> strings.read, members |-> members.read,
        byte_code |-> SubSeq(file, members.pos + 1, Len(file))]

\* The instruction at an address: its opcode, its argument and where it ends.
OpNames == [code \in Range(OpCode) |-> CHOOSE op \in DOMAIN OpCode : OpCode[op] = code]
Fetch(byte_code, pc) ==
    LET op == OpNames[FetchByte(byte_code, pc)]
        kind == Kind(op)
        end == CHOOSE e \in (pc + 2)..Len(byte_code) :
                  byte_code[e] = 0 /\ \A b \in (pc + 2)..(e - 1) : byte_code[b] # 0
    IN CASE kind = "none" -> [op |-> op, next |-> pc + 1]
         [] kind = "byte" -> [op |-> op, arg |-> FetchByte(byte_code, pc + 1), next |-> pc + 2]
         [] kind = "u16" ->
               [op |-> op, next |-> pc + 3,
                arg |-> 256 * FetchByte(byte_code, pc + 1) + FetchByte(byte_code, pc + 2)]
         [] kind = "float" -> [op |-> op, float |-> byte_code[pc + 2].float, next |-> pc + 9]
         [] kind = "bytes" -> [op |-> op, bytes |-> SubSeq(byte_code, pc + 2, end - 1), next |-> end]
         [] OTHER -> [op |-> op, arg |-> FetchUint(byte_code, pc + 1), next |-> pc + 9]
=============================================================================
