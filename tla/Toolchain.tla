----------------------------- MODULE Toolchain -----------------------------
(***************************************************************************)
(* ltn run (cli/commands/run.cxx): the phases a program goes through, from *)
(* its syntax trees to the file, and the virtual machine that loads the    *)
(* file, computes the static variables and runs main.  What the phases     *)
(* make is kept until the file is loaded.  A step of the machine is one    *)
(* instruction, an action for each group of instructions.                  *)
(***************************************************************************)
EXTENDS Analyzer, Executor
O == INSTANCE Optimizer

CONSTANT Sources        \* the programs, by name: sequences of the trees of their files

VARIABLES source,       \* the program that is run
          stage,        \* the phase that comes next
          product,      \* what the phases have made
          image,        \* what the machine has read: pools and code
          vm            \* VMCore
vars == <<source, stage, product, image, vm>>

NoImage == [functions |-> <<>>, strings |-> <<>>, members |-> <<>>, byte_code |-> <<>>]
NoProduct == [t |-> "nothing"]

Init ==
    /\ source \in DOMAIN Sources
    /\ stage = "analyze"
    /\ product = NoProduct
    /\ image = NoImage
    /\ vm = Start(0)

(***************************************************************************)
(* analysis_phase, synthesis_phase, link and assemble.  An error of any of *)
(* them ends the program.                                                  *)
(***************************************************************************)
Phase(name, error, made, next) ==
    /\ stage = name
    /\ IF error = "" THEN stage' = next /\ product' = made
       ELSE stage' = "refused" /\ product' = [error |-> error, phase |-> name]
    /\ UNCHANGED <<source, image, vm>>

Parsed == FoldLeft(AddProgram, Program(<<>>, <<>>, <<>>, <<>>), Sources[source])
DoAnalyze ==
    LET r == Analyze(Parsed) IN Phase("analyze", r.st.error, [sst |-> r.node], "optimize")
DoOptimize == Phase("optimize", "", [product EXCEPT !.sst = O!Optimize(@)], "compile")

RefusedCode(code) == \E i \in DOMAIN code : code[i].op = "refused"
DoCompile ==
    LET code == Compile(product.sst)
    IN Phase("compile", IF RefusedCode(code) THEN "refused" ELSE "",
             [sst |-> product.sst, code |-> code], "peephole")
DoPeephole == Phase("peephole", "", [product EXCEPT !.code = Peephole(@)], "link")
DoLink ==
    LET error == LinkError(product.sst, product.code)
    IN Phase("link", error,
             [sst |-> product.sst, code |-> product.code,
              link |-> IF error = "" THEN Link(product.sst, product.code) ELSE <<>>],
             "assemble")
DoAssemble ==
    Phase("assemble", "",
          [sst |-> product.sst, code |-> product.code, link |-> product.link,
           file |-> Assemble(product.code, product.link)],
          "setup")

(***************************************************************************)
(* VM::setup reads the file and computes the static variables, VM::call    *)
(* runs main.  The exit instruction ends both.                             *)
(***************************************************************************)
SetUp ==
    /\ stage = "setup"
    /\ stage' = "init_static"
    /\ image' = Setup(product.file)
    /\ product' = NoProduct
    /\ vm' = Start(0)
    /\ UNCHANGED source

Executing == stage \in {"init_static", "main"}
Fetched == Fetch(image.byte_code, vm.pc)

\* The instructions of a group; After is the machine that results.
Execute(ops, After(_, _)) ==
    /\ Executing
    /\ Fetched.op \in ops
    /\ vm' = After([vm EXCEPT !.pc = Fetched.next], Fetched)
    /\ stage' = IF vm'.pc = -1 THEN "unhandled" ELSE stage
    /\ UNCHANGED <<source, product, image>>

Primitive == Execute(PrimitiveInsts \cup ConstantInsts, ExecPrimitive)
StackInst == Execute(StackInsts, ExecStack)
GlobalInst == Execute({"global_read", "global_write"}, ExecGlobal)
OperatorInst ==
    Execute(OperatorInsts \cup BitwiseInsts \cup {"cast_bool"}, ExecOperator)
Allocate == Execute(AllocInsts, LAMBDA core, inst : ExecAlloc(core, inst, image))
Capture == Execute({"capture"}, LAMBDA core, inst : ExecCapture(core))
ReadAt == Execute({"at"}, LAMBDA core, inst : ExecAt(core))
WriteAt == Execute({"at_write"}, LAMBDA core, inst : ExecAtWrite(core))
ReadMemberInst == Execute({"member_read"}, LAMBDA core, inst : ExecMemberRead(core, inst.arg))
WriteMemberInst == Execute({"member_write"}, LAMBDA core, inst : ExecMemberWrite(core, inst.arg))
Iterate == Execute({"iter"}, LAMBDA core, inst : ExecIter(core))
ForNext == Execute({"for_next"}, ExecForNext)
Branch == Execute({"jump", "ifelse"}, ExecBranch)
Call == Execute({"call"}, LAMBDA core, inst : ExecCall(core, inst, image))
Invoke == Execute({"invoke"}, LAMBDA core, inst : ExecInvoke(core, inst.arg, image))
Return == Execute({"return", "return_null"}, ExecReturn)
Try == Execute({"try"}, ExecTry)
ThrowInst == Execute({"throw"}, LAMBDA core, inst : ExecThrow(core))

\* setup discards the value that exit throws, and main is called.  call
\* returns it.
Exit ==
    /\ Executing
    /\ Fetched.op = "exit"
    /\ LET popped == Pop(vm, 1)
       IN \/ /\ stage = "init_static" /\ Main(image) # 0
             /\ stage' = "main"
             /\ vm' = JumpToInit(popped, image)
             /\ UNCHANGED product
          \/ /\ stage = "init_static" /\ Main(image) = 0
             /\ stage' = "without_main"
             /\ vm' = popped
             /\ UNCHANGED product
          \/ /\ stage = "main"
             /\ stage' = "done"
             /\ vm' = popped
             /\ product' = [value |-> Peek(vm)]
    /\ UNCHANGED <<source, image>>

Next ==
    \/ DoAnalyze \/ DoOptimize \/ DoCompile \/ DoPeephole \/ DoLink \/ DoAssemble \/ SetUp
    \/ Primitive \/ StackInst \/ GlobalInst \/ OperatorInst
    \/ Allocate \/ Capture \/ ReadAt \/ WriteAt \/ ReadMemberInst \/ WriteMemberInst
    \/ Iterate \/ ForNext \/ Branch \/ Call \/ Invoke \/ Return \/ Try \/ ThrowInst \/ Exit

\* The phases and the run loop of the machine go on until the program ends:
\* weak fairness of Next, whose enabling condition is Running.
Running ==
    stage \in {"analyze", "optimize", "compile", "peephole", "link", "assemble", "setup",
               "init_static", "main"}
Progress == []<>~Running \/ []<><<TRUE>>_vars

Spec == Init /\ [][Next]_vars /\ Progress
=============================================================================
