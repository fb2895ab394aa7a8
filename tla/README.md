# Litan in TLA+

Litan is a dynamically typed language. `ltnc` compiles it to byte code, `ltnvm`
runs the byte code on a stack machine with a tracing garbage collector, `cli`
drives both. This directory holds TLA+ modules of the parts in which a mistake
is easy to make and hard to test, TLC configurations that check them on small
instances, and proofs for instances of every size.

## The system

| Part | State | Operations | Talks to | Hard because |
|-|-|-|-|-|
| Operand stack (`ltnvm/VMStack`) | one vector of values, one of frames, a frame pointer | push, pop, push_frame, pop_frame, copy_locals, read and write by slot | every instruction | globals, locals, arguments and temporaries share the vector; a frame's size comes from the linker, its contents from the caller |
| Run loops and control flow (`VM.cxx`, `inst_control_flow`, `inst_invoke`, `inst_debug`, `inst_yield`, `run_function.hxx`) | pc, the C++ stack of nested loops | setup, call, CALL, INVOKE, RETURN, THROW, TRY, YIELD, callbacks | stack, heap, natives, host | loops nest inside C++ functions; exceptions unwind frames, not C++ |
| Heap and collector (`Heap.hxx`, `gc.cxx`) | list of objects with flags, counts, thresholds, a lock | track, collect_garbage, mark, sweep, lock, reset | stack (the roots), natives | references in C++ variables are invisible to it |
| Natives and plugins (`inst_invoke`, `native/`, `build_in/plugin.cxx`) | arguments in C++ variables | call, call back, allocate, fail | heap, run loops | a callback may run any code, also collections and throws |
| Containers and iterators (`objects/`, `stdlib/`) | elements, versions, positions | insert, erase, next, move | callbacks, comparison | iterators go stale; callbacks change what is iterated |
| Comparison (`utils/compare.cxx`) | none | compare, strict_compare | Map, sort | must be a strict order over values of all kinds |
| Build-in library (`build_in/`) | none (streams, clocks, random engines) | about 130 functions | natives | mostly arithmetic and I/O |
| Scopes and analysis (`ltnc/scoping`, `ltnc/analyze`) | stacked scopes, tables of functions, definitions and globals, a work list | declare, resolve, stage | parser, code generation | slots of inner blocks are reused; functions are found while functions are analysed |
| Code generation (`ltnc/compile`) | instruction buffers, jump labels | one function per node | analysis, peephole | stack effects must balance on every path |
| Tokenizer and parser (`ltnc/parse`) | position in the source | tokenize, parse | sources | precedence |
| Optimizer, peephole (`ltnc/optimize`, `ltnc/peephole`) | none | folding, rewriting | code generation | must keep the meaning |
| Linker, assembler, file format (`ltnc/link`, `ltnc/assemble`, `ltn/file`) | address tables, pools | resolve, encode, decode | VM::setup | addresses are computed apart from the bytes |
| Source reading (`ltnc/read_sources`) | files read | read, import | parser | imports of imports |
| Command line (`cli`) | none | run, compile | all | |

The machine has one thread. What interleaves is compiled code, C++ code that
compiled code calls, compiled code that this calls back, collections inside
allocating instructions, and exceptions that end any of them. There is no
persistence and no network, so no crash recovery and no lost messages.

What makes each part correct: every activation finds its own slots (stack);
control comes back to whoever gave it away (run loops); nothing in use is freed
and nothing else survives (heap); the lock is released however a native ends
(natives); an iterator gives every element once or says that it is stale
(containers); keys have one strict order and operators agree with each other
(values); a type is what its literal says, wherever it comes from (types); a
compiled program does what its source means (compiler). The hazards, each at its
line of code, are in `PROJECT.json`.

## The modules

| Module | Models |
|-|-|
| `VMStack` | `VMStack.hxx`, `.cxx` and `unwind`/`thr0w`: the vector of values, the frames, and what each operation does to both |
| `Machine` | the run loops, all instructions that move control or values between activations, natives that call back, and the host |
| `MachineInvariants` | what has to hold of `Machine` |
| `Activations` | what `Machine` promises: activations, each with values of its own, that are entered, left, suspended and discarded |
| `MachineRefinement` | `Machine` implements `Activations` |
| `MachineSteps`, `MachineProofs` | proofs about `Machine` |
| `RefinementSteps`, `RefinementProofs` | proof that `Machine` implements `Activations` |
| `Heap` | allocation, collection and those who hold references: stack, natives, callbacks |
| `HeapProofs` | proofs about `Heap` |
| `Values` | values of all kinds, conversions and casts |
| `Arithmetic` | both orders of values, arithmetic and bit operations |
| `Types` | type literals: parser, bytes, the table of types, `std::is`, `std::cast`, names |
| `Operations` | the instructions that compute on values, with their properties |
| `Collections` | the containers and every entry point that reads or changes them |
| `Iterators` | iterators over containers that change, and the callback loops of arrays, with their properties |
| `CollectionProofs`, `IteratorProofs`, `TraversalProofs` | proofs about both |
| `Syntax`, `Semantic` | the trees of the parser and those of the analysis, with the slots each node allocates |
| `Scoping`, `Analyzer` | scopes, tables, resolution of names; the analysis of every node |
| `Optimizer` | folding |
| `Instructions`, `Codegen` | instructions and their sizes; code of every node, and the peephole pass |
| `Linker` | addresses, pools, the bytes of the file, and how the machine reads it |
| `Executor` | the instructions of compiled programs, one by one |
| `Toolchain` | `ltn run`: the phases and the run loop, composed of the six rows above |
| `Meaning` | what a source means: evaluation of the trees, without slots, labels, frames and jumps |
| `ToolchainProperties` | what the compiled program owes to its source |
| `MCMachine`, `MCHeap`, `MCOperations`, `MCIterators`, `MCToolchain` | instances for TLC |

### Machine

*State.* `values`, `frames`, `framePointer` are the members of `VMStack`; a frame
has the return address, the saved frame pointer, whether a handler is set and
the function. `pc` is the program counter. `natives` is the part of the C++
stack that matters: for each C++ function that may call back, the pc that
`run_function` keeps and the number of frames it was entered with. `inNative`
says that C++ code runs rather than a run loop; `phase` where the host is
(`setup`, `idle`, `call`, or `dead` after a failed setup). `objects` holds function
pointers, coroutines and tuples; objects are never freed here, that is `Heap`'s
subject.

*The program.* A program is not a list of instructions. A position is a function
and the part of it that runs (`entry`, `body`, `except`), and at each step the code
may take any instruction that its stack discipline allows: it takes no more
temporaries than it has pushed and addresses its own slots only. So each run
covers every program over its functions, among them every order of calls,
throws, yields and callbacks. A function is described by what the compiler
records of it: arity, frame size, captures, variadic, coroutine, except block. The
analysis rejects coroutines with an except block
(`analyze_function.cxx`), hence the assumption on `IsCoroutine`.

*Actions.* One per instruction handler or C++ function, named after it:
`Call`, `Invoke`, `InvokeVariadic`, `NewFx`, `NewTuple`, `Return`, `Try`, `Throw`, `CoDump`, `Yield`,
`CoReturn`, `InvokeCoroutine`, `Capture`, `Unpack`, `LoadX`, `StoreX`, `GlobalRead`,
`GlobalWrite` ..., `RunFunction` and `RunCoroutine` for the two ways C++ enters
compiled code, `Exit` for EXIT (which ends a nested loop or `VM::call`), `Fail` for
an instruction that throws a C++ exception, `FailNative` for a native that does,
`FinishSetup`, `HostCall` and `HostCallUnknown` for the host. A handler is one step, with all pushes,
pops and frames in it.

*Calls of unknown functions.* `VM::call` pushes the arguments before it looks for the
function and outside of its `try` (`VM.cxx:275`), so a name that is not in the pool leaves them on the
stack (`HostCallUnknown`). `settled` counts what lies at the bottom of the vector for good: the globals and
these arguments. The command line calls once and never sees it.

*Undefined behaviour.* A read or write beyond the end of the vector is left out
(the action is not enabled); where the code can get there is the subject of
`WindowsFit`, which says that all slots are there.

*Shapes.* Five kinds of programs are handled in a way that contradicts the
documentation or leaves something undefined. They are constants of the model,
`Shapes`, so that each run can say whether it admits them: a callback that lets
an exception escape into functions below its native; a lambda with captures and
locals called by a native; a coroutine with locals resumed by an iterator; a host
that passes another number of arguments than there are parameters; a lambda in
the initial value of a global that uses globals. The runs that pass admit none of
them; each finding admits exactly one.

### Heap

*State.* Only references are kept of the stack and only outgoing references of an
object. `live` and `refs` are the list of objects and their contents, `marked` the
flags, `pending` the recursion of `mark`, `unswept` the position of `sweep`,
`size`, `nextCollection`, `gcLock` the members of `Heap`, `collected` the local
variable of `sweep`. `natives` are the C++ functions in progress with the
references they hold in C++ variables. `phase` says what happens inside an
instruction: an allocating one collects (`mark`, `sweep`) before it takes its
operands (`alloc`).

*Actions.* The groups `Moving` (instructions that copy, drop, read and write
references), `Allocating`, `Collecting` (one object marked or swept at a time),
`Calling` (natives, what they allocate, read and write, their callbacks, their
end) and `Failing` (throw, error, an exception that nobody handles, reset).

*Member functions.* `x.push` as a value is a pointer to a native function that lies in a
table of the machine, not in the heap (`ReadMember`; `MemberFunctions` are these
references). Marking such a pointer reads through a null plugin (`gc.cxx:52`), which ends the process: `MarkMember`
takes the model to the phase `dead`. What the machine does before that is checked and proved with them.

*Shapes.* `coroutines` (they are not flagged when marked, finding 3) and
`unlocked_natives` (build-ins such as sort, is_sorted and find call back without the lock, and natives
whose uninitialised flags say so). Without them the heap is safe. With coroutines the first
collection still marks what it should.

### Values, Arithmetic, Types and Operations

*State.* `stack` and `result` of `Operations` are the operands and what the last
instruction left; `names` is the compiler's table of member names and `table` the
machine's table of types, both of which outlive a literal. `made` records the
literals evaluated so far for the properties.

A value is a record of its kind, a number and what it contains. Integers have
`IntBits` bits and wrap; characters have `CharBits`; a float is a fraction, NaN or
an infinity, and rounds when an integer of more than `Mantissa` bits is converted. So the
promotions of the C++ operators, signed overflow of the narrow types and the
asymmetry of the smallest integer are there with the width as a parameter. What a
special member of a struct does is a constant function.

*Actions.* `Push`, one action for each group of operators, `IsType`, `CastToType`
and `NewType`, which takes a literal through `ParseType`, the bytes of `newtype`
and the decoder of `TypeTable::make`.

### Collections and Iterators

*Collections* gives for each operation of each entry point (build-in function,
instruction, member function, plugin interface) what it returns, what it leaves
and whether it counts the version. A map is the sequence of its pairs, placed by
the lower bound of the strict order as `std::map` does. The two orders of values are
constants, `Order` and `StrictOrder`: what the containers rely on is that they are
orders, not how they compare. The runs give them `Compare` and `StrictCompare` of
`Arithmetic`, and the theorems hold whatever they are.

*State of Iterators.* `heap` and `version` are the containers, `iters` the
iterators, `loop` the callback loop of an array's member function that is running;
any other step may be its callback's. `crashed` is set where the process ends.
`history` is not in the program: it counts changes and elements taken, for the
properties.

*Actions.* One per function on iterators (`Iter`, `RangeIter`, `ReverseIter`,
`Combined`, `CloneIter`, `NextOf`, `MoveBy`), per group of entry points
(`PushTo`, `PopFrom`, `InsertInto`, `RemoveFrom`, `WriteInto`, `Rearrange`,
`WriteMember`, `Derive`, `CloneContainer`), and `StartLoop`, `LoopStep`. An iterator around others is made of their numbers, which
are smaller than its own, so what it gives (`Got`), how long it is (`IterSize`) and what a
move of it moves (`AllMoves`) are functions on the numbers, recursive downwards. Undefined behaviour
is a choice: `std::advance` beyond the end of a map finds some entry, or ends the
process if the map is empty; `std::sort` over values without order gives some
arrangement. An element read outside the memory of a vector is `Wild`.

*Callback loops.* `pos` is the element that comes next; the callback for the one before it runs until
the next `LoopStep`. Where a pointer loop leaves the vector the model goes on as the code does; that it does is
`CallbacksGetElements`, which does not hold (see the findings).

*Quirk.* `map_put` of the plugin interface adds keys without counting the version;
the constant `Quirks` admits it, only the run `plugin_map_put` does.

### The compiler

`Toolchain` takes a program from its trees through `Analyze`, `Optimize`,
`Compile`, `Peephole`, `Link`, `Assemble` and `Setup`, one action each, and then
executes the file it has made, one action per group of instructions. An error of
a phase ends it (`refused`). The modules follow the source file by file: an operator for
each `analyze_*`, `compile_*`, `optimize_*` function, named after it. What the C++ code
keeps in mutable tables (scopes, functions, members, the work list) is a context
`st` that is threaded through; an exception is its first `error`.

A file is a sequence of bytes; texts are characters ended by NUL, as in the file.
Jumps are named after the node they belong to instead of a counter.

`Meaning` is the reference for the compiler: it evaluates the trees directly. It shares with the compiled side only the values and their
operators (`Values`, `Arithmetic`). Where only the
code decides (order of evaluation, the result of a block without `return`), it
follows the code.

`MCToolchain` builds its programs by composition: every binary operator on
literals (folded) and on variables, every expression around every expression
around an IIFE that needs a slot, every statement around every statement, every
place that can be assigned, handlers that return, fall through and throw,
variadic calls by name and by pointer, captures, one function name declared in
five sets of namespaces and looked up by five paths with all qualifiers, statics, enumerations,
reflections, and programs that are refused.

Excluded from the programs, because the code is known to handle them wrongly (each
is a hazard in `PROJECT.json`): a `switch` whose condition or default allocates more than its cases
(`sst/stmt/Switch.cxx:10`), a variable in a bound index or member
(`sst/bind/Index.cxx:11`), `return` inside a loop of an IIFE
(`compile_return.cxx:18`), an IIFE in the condition of a case (`CaseScope.cxx:5`),
`f(x...)` beside `f()` (one label), an except block that allocates more than the
body (`link.cxx:60`), blocks in the initial value of a global
(`analyze_static.cxx:29`), folding at the edge of 64 bits and of characters above
127, and the negation of an array literal with side effects, which the optimizer decides.

## The runs

| Run | Instance | Shows |
|-|-|-|
| `calls` | main with handler and local, a lambda with a parameter and a capture, a variadic function, one global, two natives deep | types, return addresses, nested loops, windows, globals, a clean stack for the host, and that the machine implements `Activations` |
| `coroutines` | main and a coroutine with a parameter, three objects | windows of coroutines suspended, resumed twice, iterated, abandoned |
| `heap` | three addresses, first collection at one object, natives two deep | no dangling reference, exact collections, exact counts, a balanced lock, room after every collection, collections end |
| `heap_marking` | three addresses, coroutines and a member function, first collection at two objects | the first collection marks exactly what is reachable; marking ends in the sweep, or with the process if a member function is reached |
| `operations` | 54 values of all kinds, 5-bit integers, 3-bit characters; 106 type literals, two at a time | orders, equality, division, casts, and types that survive parsing, encoding and printing |
| `iterators` | ten programs of one or two containers, three objects, one change of a version, four ranges | no stale element, maps in order, complete traversals, agreement of entry points, members |
| `compiler` | 2352 programs, 12-bit integers | the file, the labels, the stack, the slots, private functions, the meaning, and that every program ends |
| `escaping_throw`, `callback_captures`, `swept_coroutine` | one shape each | findings 1, 2, 3 |
| `plugin_map_put` | the quirk | finding 4 |
| `private_globals` | four readers of a private global | finding 5 |

*Bounds of Machine and Heap.* `MaxStack`, `MaxDepth`, `MaxNatives`, `MaxObjects`, `MaxArgs`
and `MaxStack`, `MaxRefs`, `MaxNatives` appear as guards. Three frames suffice for
a handler with a function above it and a native between two functions; two natives for
nesting; a stack of five for a global, a parameter, a capture, a local and a
temporary. Three objects give cycles, chains, garbage that points to live objects
and live objects that point to each other.
In `heap_marking` the first collection comes at two objects, so that a coroutine and what it saved are there; it has no natives, whose
references marking does not look at. The proofs need none of these numbers.

*Bounds of Operations.* `MaxLiterals` = 2: the table and the member names are
shared, and sharing shows with two. `MaxPower` bounds exponents. Five bits hold a
smallest integer, products that wrap and two integers that the same float stands
for (`Mantissa` = 3), which is what 64 bits and 53 do. The order's transitivity is
checked over all triples of the universe.

*Bounds of Iterators.* `MaxObjects` = 3 containers, iterators and loops together: a
container with two iterators, an iterator around an iterator, a loop with a
container it derives. `MaxSize` = 2 elements and `MaxVersion` = 1, one change
that is counted: an iterator can only be fresh or stale. `Reach` = 3 bounds positions
and elements taken: two elements, the stop, and one step beyond each end. In the run the
one element written is null, which struct members and reads treat specially.

*Bounds of Toolchain.* None in the guards: programs are finite and end. The
programs have up to three nested constructs, functions in up to four namespaces and numbers
around 127 and 255, where the operand of an instruction grows by a byte.

*Deadlock* is checked for `heap`, not for `heap_marking`, where the process may end. For `Machine` it is not: a program stops after a
failed setup, and at the bounds a model of it may have no step left. `Toolchain` stops
when the program has ended (that it ends there is `Ends`), `Iterators` when the
process has crashed or no object is left to make, `Operations` at its bounds.

*Fairness.* `Heap` assumes weak fairness of `Collecting`: inside
`collect_garbage` nothing else can run, and the code is straight-line (`CollectionEnds`, `FirstMarkingEnds`). `Toolchain`
assumes `Progress`, weak fairness of `Next` with its enabling condition written out:
phases and the run loop are one thread that waits for nothing. `Machine`,
`Iterators` and `Operations` assume none; a program may loop for ever.

*Slips.* Operators whose comment starts with "Slip" are mistakes a programmer
might make in the definition they stand before; substituted for it they violate the
property that is to notice them. They are used nowhere else.

## Findings

1. `escaping_throw`: an exception that leaves a callback is handled below the
   native in the nested loop; the native takes what the handler's function returns for the
   result of its callback (`inst_debug.cxx:33`, `doc/types/array.md:71`).
2. `callback_captures`: `run_function` pushes captures behind the locals, the
   compiled code expects them behind the parameters (`run_function.hxx:24`).
3. `swept_coroutine`: coroutines are freed while in use (`gc.cxx:111`).
4. `plugin_map_put`: a plugin adds keys to a map and its iterators do not notice
   (`plugin.cxx:221`, `doc/language/IterationInvalidation.md:3`).
5. `private_globals`: a private global is open to unrelated namespaces and closed
   to its own (`analyze_read.cxx:25`, `doc/language/Variables.md:33`).

Seven more can be seen by changing a cfg, and have no run of their own. Three by a value:
with `Shapes = {"iterate_locals"}` and the function `corloc` in
`MCMachineCoroutines.cfg`, `ImplementsActivations` is violated (`run_coroutine`
pushes the saved window behind fresh locals, `CoroutineIterator.cxx:19`); with
`InitSlots = 1` in `MCMachineCalls.cfg`, `GlobalsKept` (variables of a block in the
initial value of a global share slots with the globals, `analyze_static.cxx:29`);
with `ExceptAlloc <- MCBigExceptAlloc` there, `WindowsFit` (the frame of an
except block has the size of the body, `link.cxx:60`).
Four by a property, which the modules state as the documentation has it:

- `CollectionSurvives` in `MCHeapMarking.cfg`: a pointer to a member function can be "saved and passed
  around" (`doc/types/function_pointers.md:3`), but a collection that reaches one reads
  through its null plugin (`gc.cxx:52`, `native.hxx:16`) and the process ends.
- `NoDangling` in `MCHeap.cfg` with `Shapes = {"unlocked_natives"}`: is_sorted and sort hold their array in C++ variables only
  while they call the comparison of a struct, so a collection there frees it
  (`algorithm.cxx:68`, `doc/stdlib/algorithm/is_sorted.md:11`).
- `InsertThrowsIfEmpty` in `MCIterators.cfg`: insert at 0 of an empty array inserts (`Array.cxx:45`);
  `doc/types/array.md:49` says that it throws. `EntryPointsAgree` has it as the code does.
- `CallbacksGetElements` in `MCIterators.cfg`: the pointers of the loops of filter, transform, any, all and has stay
  where they were when a callback adds or removes elements of the array (`array.cxx:107`); `doc/types/array.md:71`
  has `f` called for all elements. They then read memory that holds none.

## The proofs

`MachineProofs` proves for every function pool, every size of stack, heap and
nesting: `TypeOK`, `CodeMatchesFrames`, `NativesMatchFrames`, `WindowsFit`,
`HostFindsStackClean`, `GlobalsBelowWindows`, `CoroutinesFit` and
`CallbackReturns`. Assumptions: the constants have their types
(`ConstantsAssumption`) and the program is `WellFormed`: no exception escapes a
native into functions below it, the host passes all arguments, and an except block
allocates no more than the body. Finding 1 and the last of the three changes of a value
above show that two of these are needed. The other shapes are admitted.

The inductive invariant `IInv` is the conjunction of the seven invariants. None
is inductive alone: a return keeps `WindowsFit` only because the return address
belongs to the frame below (`CodeMatchesFrames`), an EXIT keeps that only because
the native's saved pc belongs to the frame it was entered with
(`NativesMatchFrames`), the end of a call leaves the globals, and what calls of unknown functions have left, because the lowest
window lies right above them (`GlobalsBelowWindows`), and a resumed coroutine owns its
slots because enough were saved (`CoroutinesFit`). `MachineSteps` shows that each
kind of step (straight code, enter, leave, unwind, native) keeps `IInv`;
`MachineProofs` shows which action is a step of which kind.

It proves `GlobalsKept` for the same programs whose globals need no
slots of their own while they are initialised (`NoInitSlots`; the second cfg change
above shows why). With `InitSlots = 0` every window begins above all globals that
exist, and `Keeps(b, vals)` says that a vector has the old values up to `b`: each
operation of the stack keeps what lies below the window it works on.

`RefinementProofs` proves that `Machine` implements `Activations` (`ImplementsActivations`),
for every `WellFormed` program without the shapes of the findings (`NoShapes`: what TLC
refutes it with are `escaping_throw`, `captures_in_callback`, `iterate_locals` and
`early_globals`). The inductive invariant `IInv` says which part of the vector belongs to
which activation: from its frame pointer up to the next one, and for a native up
to the window it has called. The argument is the same for each step. What lies below the
window a step works on is kept (`Agree`, from the operations of the stack), so every
activation but the running one shows as before (`SameBelow`); the running one
shows what the abstract step says. `RefinementSteps` has the steps within one
activation and those that enter one (a call, a closure with captures, a variadic
call, a resumed coroutine, a callback, a call by the host), `RefinementProofs` those that
leave one (return, yield, end of a native), those that throw (to the newest armed
activation, which is the one the machine unwinds to, or to the host) and the
writing of a global. EXIT of a nested loop is a stutter: the native had its value before.

`HeapProofs` proves for every number of objects, member functions and natives, without the two
shapes (`WellBehaved`): `TypeOK`, `NoDangling`, `CollectsExactly`, `SizeCounts`,
`LockBalanced`, and `RoomMade` for a factor of growth of at least 2 and a minimum of at least 1
(`HeapGrows`; the code has 2 and 129). `HeapInv` says what a collection has established at each
moment. While marking: what is marked or pending is reachable, the roots are
among it, and what marked objects refer to is too. When nothing is pending,
marked objects are closed, hence exactly the reachable ones. While sweeping: what
is kept (flagged, or already passed) stays that set. Natives hold only live
objects because no collection starts while one is in progress, which needs that
each one in progress holds the lock once.

That a collection ends is liveness (`CollectionEnds`, which TLC checks). The part of the
argument that is not is `CollectionRunsDown`: `Work` is a natural number (objects that can
still be marked, each with all the references it may bring in, then references to follow,
then objects to sweep), only steps of the collection happen between the first mark and the end
of the sweep, and each makes `Work` smaller. It also says how marking ends (`MarkingDecides`): in
the sweep if no member function can be reached, in the end of the process if one can.

`IteratorProofs` proves `TypeOK`, `MembersRead`, `NoStaleElement`,
`MapsOrdered` and `EntryPointsAgree` for any containers at the beginning, any number and nesting of iterators, any
orders of values and any bounds. Its assumptions on the constants are
`ProgramsAssumption` (the containers a program begins with are made as the code makes
them), natural numbers for `MaxVersion` and `Reach`, and integers for `Amounts`. `CollectionProofs` has what every
operation does to its container: it leaves a sequence, keeps the members of a struct
apart, and either counts the version or leaves the shape as it was (`Sound`).

The inductive invariant `IInv` has five parts: `HeapOK` (containers are well made),
`VersionsOK` and `EditsOK` (every container has a version and a count of edits),
`IteratorsOK` (every iterator is made of an address or of older iterators) and `LoopOK` (a
running loop knows the length of its array unless the array was edited). Freshness needs
one more, `VersionsTell`: an iterator whose version is the container's was made
after the last edit of the container. It is kept by a change because a change of the
shape raises the version above that of every iterator made before, and by a new
iterator because it takes the version of the moment; a clone takes version and age of its
original. An iterator around others gives an element only if all of them do
(`FreshBelow`), which is where wrapping comes in: the proof takes the
oldest iterator for which it would be false.

Three theorems of `IteratorProofs` have hypotheses. `NoStaleElements` assumes `NoQuirks`, that no plugin adds keys
with `map_put`: finding 4 shows that it has to. `MapsStayOrdered` assumes that the
strict order is transitive on the keys the script uses (`Transitive(Keys)`) and that the
maps it begins with are in order. The first is what `KeysOrdered` checks of
`StrictCompare` over all values without NaN and without comparisons of their own; TLC
evaluates both for the instance (`KeysAssumption`). Totality is not needed:
a key that the order does not tell from a present one is taken for it.

`EveryEntryPointAgrees` needs totality too (`Separating(Keys)`: of two different keys one is
less, also checked by TLC on the instance): without it a search by order and a comparison by
value would tell different stories. It says nothing of containers with more elements than an
`Int` counts (`SizesFit`): there the size that the code converts to an index is another number.
Its lemmas follow the parts of the property: `ArrayEnds` and `LastIndex` show that index -1 is
the last element, `ArrayParts` that a prefix and the suffix of the rest make up the array, and
`FirstMapRead` rests on `MergedReads`. Maps are read as finite functions from here on:
`CollectionProofs` shows what a key gives after a write (`AssignedReads`), an erasure
(`ErasedReads`) and a merge (`MergedReads`), from the binary search the code does (`Bound`) and
the order of the entries, which `MapsStayOrdered` supplies.

`TraversalProofs` proves `TraversalsComplete` (`TraversalsAreComplete`): next gives every element
once and in order, then the stop, and size tells how many, for iterators nested in any way, of any
length, and whatever else the script makes, moves and changes meanwhile. An iterator's position is
spread over those it is around, so the proof gives each one *places*: `Count` says how many
elements there are, and `Spots` is the set of `p` such that `get` gives element `p + 1` (or the
stop, before the first and behind the last). It is one place for a container. It is all `p` with
`begin + p * step` for a range, whose count comes from quotient and remainder (`RangeFacts`). A
reversed iterator has the mirror image of the inner one's set, a combined one the intersection.
Three facts carry the proof, each by induction on the nesting:

- `GetThere`: what `get` gives at a place, computed by the code's recursion over the inner
  iterators, is the element that `ElementsOf` has there.
- `MoveWhole`: a move by `n` takes place `p` to `p + n`, if every iterator it moves can be
  moved so (`AllMovable`: ranges, arrays and strings always, maps and coroutines up to the end).
- `SizeThere`: `size` is `Count`.

The inductive invariant `TInv` says of every pristine iterator from which `t` elements were
taken that it stands at `t` (`Stands`; a reversed one may have moved further beyond its end), and
that no part of it occurs twice in it (`Simple`: a combined iterator around one and the same
would move it twice). It holds while the iterator is fresh, and freshness is where a change of a
container comes in: `VersionsTell` shows that an iterator that is stale stays stale, and
that the container of a fresh one still has its length. A step that moves other iterators
leaves it alone because those with a common part cease to be pristine (`UndisturbedStay`).

The hypotheses: `NoQuirks` as above; `PlainPrograms`, that the script puts neither the stop nor
what stands for a failure into a container (failures are no values of the code, but the stop that
next returns is one: an array it was pushed to ends there for every iterator, which never gets past
it); `RangesFit` and, for all states, `SizesFit`, that an `Int` counts the elements. TLC
evaluates `PlainPrograms` and `RangesFit` on the instance (`KeysAssumption`).

Only model-checked, and why:

- `CollectionEnds`, `FirstMarkingEnds` and `Ends`: liveness is beyond the prover (`CollectionRunsDown` is the
  measure the first one rests on).
- `FirstMarkingExact`, which is about coroutines, a shape that the invariant of the heap excludes.
- The properties of `Operations` and `Toolchain`: what they say is about recursive
  operators on trees, values and code, over which the provers have no induction, and about
  bit operations, which they do not know.
- `CapturesInPlace`, `PrivateGlobalsKept`, `CollectionSurvives`, `InsertThrowsIfEmpty` and
  `CallbacksGetElements` are stated and refuted.

## Not modelled, and the plan

*Tokenizer and parser.* Programs enter `Toolchain` as trees. Only the parser of
type literals is modelled. A plan for it: tokens and the precedence climb of
`parse_binary.cxx`, against a reference grammar.

*Reading of sources.* Which files are read, and the set that keeps imports from
being read twice; several files of one program are (`AddProgram`).

*Libraries.* Functions of `std::` other than those on containers, iterators, types
and `std::invoke`: arithmetic of the C library, clocks, random engines, streams,
JSON. Loading of plugins.

*Within the parts above.* `Machine` has no jumps inside a function and no values other
than references and sample data; `Executor` has both, but no coroutines, build-in
functions and members of objects other than structs. What a call by the host does
with a C++ exception that is not the machine's own
(`CoroutineIterator::move`) is not followed. Formatting, locations and the text of
errors are left out, as are a second `VM::setup` of one machine (it appends to the pools) and
a native that is itself an object held only by C++.

*Iterators.* Reversed iterators over maps, coroutines and ranges that run against their
step do not traverse (undefined behaviour, or an end that is found at once);
`TraversalsComplete` excludes them through `Orderly`. An iterator of a string or
coroutine compares no version; nothing changes a string or a coroutine object once it is made.

*Values.* NaN, structs with a comparison of their own and integers that a float does not
hold have no strict order, and `KeysOrdered` leaves them out; maps of one size are
equal whatever they contain, and `EqualMeansSame` leaves maps out.

Still worth doing: the parser, and coroutines in `Executor`.
