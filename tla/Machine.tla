------------------------------ MODULE Machine ------------------------------
(***************************************************************************)
(* The virtual machine of Litan (ltnvm): its run loops, the instructions   *)
(* that move control between activations, and the host that starts them.   *)
(*                                                                         *)
(* A program is any program the compiler can emit.  It is not spelled out  *)
(* as a list of instructions: the program counter only says which function *)
(* runs and in which part of it, and at any moment the running code may    *)
(* take any instruction its stack discipline allows (it consumes only      *)
(* temporaries it has pushed itself, and addresses only its own slots).    *)
(*                                                                         *)
(* C++ code that runs script code in turn (sort with a {cmp} member,       *)
(* filter, an iterator over a coroutine, a plugin ...) is a "native": it   *)
(* calls run_function, which starts a nested run loop on the same stack.   *)
(***************************************************************************)
EXTENDS VMStack

CONSTANTS
    Arity,         \* Arity[f]: FunctionContext::arity, without a variadic parameter
    Captures,      \* Captures[f]: the number of values a lambda captures
    ExceptAlloc,   \* ExceptAlloc[f]: the slots the except block of f allocates
    HasExcept,     \* the functions with an except block
    IsCoroutine,   \* the functions with the qualifier coroutine
    IsVariadic,    \* the functions with a variadic parameter
    Data,          \* values that are not references
    NoFx,          \* "no function", of the positions outside every function
    NGlobals,      \* the number of definitions and globals
    InitSlots,     \* the slots used by blocks inside the initial values of globals
    Shapes,        \* shapes of programs admitted, see ProgramShapes
    MaxStack,      \* bound: the values on the stack
    MaxDepth,      \* bound: the frames
    MaxNatives,    \* bound: natives inside each other
    MaxObjects,    \* bound: objects ever allocated
    MaxArgs        \* bound: the arguments of one invocation

VARIABLES
    pc,        \* the position of the code that runs or, in a native, of the code it returns to
    phase,     \* what the host does: "setup", "idle", "call", "dead"
    natives,   \* the natives in progress, the newest last
    inNative,  \* C++ code runs, not a run loop
    settled,   \* the values at the bottom of the vector that no activation owns: the globals
               \* initialised so far and, after setup, what failed calls of the host have left
    objects    \* the heap objects, each referred to by its index

machineVars == <<pc, phase, natives, inNative, settled, objects>>
vars == <<stackVars, machineVars>>

(***************************************************************************)
(* Shapes of programs that the machine handles in a way of their own.  A   *)
(* program without them is the normal case; a model admits them one by one.*)
(*   escaping_throw        a function called by a native throws and has no *)
(*                         handler, but a function below the native has    *)
(*   captures_in_callback  a native calls a lambda that captures values    *)
(*                         and has local variables                         *)
(*   iterate_locals        an iterator resumes a coroutine that has local  *)
(*                         variables                                       *)
(*   any_argument_count    the host calls a function with fewer arguments  *)
(*                         than it has parameters                          *)
(*   early_globals         a lambda in the initial value of a global uses  *)
(*                         globals                                         *)
(***************************************************************************)
ProgramShapes ==
    {"escaping_throw", "captures_in_callback", "iterate_locals", "any_argument_count",
     "early_globals"}

ASSUME ConstantsAssumption ==
    /\ FrameSize \in [Functions -> Nat]
    /\ Arity \in [Functions -> Nat]
    /\ Captures \in [Functions -> Nat]
    /\ ExceptAlloc \in [Functions -> Nat]
    /\ HasExcept \subseteq Functions
    /\ IsCoroutine \subseteq Functions \ HasExcept
    /\ IsVariadic \subseteq Functions
    /\ NoFx \notin Functions
    /\ ExitPos = [fx |-> NoFx, at |-> "exit"]
    /\ Shapes \subseteq ProgramShapes
    /\ {NGlobals, InitSlots, MaxStack, MaxDepth, MaxNatives, MaxObjects, MaxArgs} \subseteq Nat

-----------------------------------------------------------------------------
(* Code *)

InitPos == [fx |-> NoFx, at |-> "init"]
BodyPos(f) == [fx |-> f, at |-> "body"]
ExceptPos(f) == [fx |-> f, at |-> "except"]
FunctionPos == [fx : Functions, at : {"entry", "body", "except"}]
Position == FunctionPos \cup {InitPos, ExitPos}

\* The first instruction of a function with an except block is TRY, that of
\* a coroutine is CO_DUMP; the body follows.
EntryPos(f) ==
    [fx |-> f, at |-> IF f \in HasExcept \cup IsCoroutine THEN "entry" ELSE "body"]

\* The values a call of f takes from the caller: the arity of the context plus
\* one for a variadic parameter; and the parameters the code of f addresses.
CallArityWithoutVariadic(f) == Arity[f]   \* slip: the variadic one is forgotten
CallArity(f) == Arity[f] + (IF f \in IsVariadic THEN 1 ELSE 0)
Parameters(f) == Arity[f] + (IF f \in IsVariadic THEN 1 ELSE 0)

\* The values of its window that the code at p addresses.  The code of a body
\* addresses its parameters, its captures and its locals, the code of an
\* except block the exception and its own locals, and the code that
\* initialises the globals leaves those it has initialised on the stack.
CodeSlots(p) ==
    IF p = ExitPos THEN 0
    ELSE IF p.at = "except" THEN 1 + ExceptAlloc[p.fx]
    ELSE Parameters(p.fx) + Captures[p.fx] + FrameSize[p.fx]

Slots(p) == IF p = InitPos THEN settled ELSE CodeSlots(p)

\* The slots of LOAD_X and STORE_X; there is a window but no frame for the
\* blocks inside the initial values of globals.
Addressable(p) == IF p = InitPos THEN InitSlots ELSE Slots(p)

-----------------------------------------------------------------------------
(* Values and objects *)

Reference == [ref : 1..MaxObjects]
Value == Data \cup {Null} \cup Reference
Plain == Data \cup {Null}

Object ==
    [kind : {"function"}, fx : Functions, captured : Seq(Value)]
        \cup [kind : {"coroutine"}, resume : FunctionPos, locals : Seq(Value), context : Functions]
        \cup [kind : {"tuple"}, items : Seq(Value)]

ObjectOf(v) == objects[v.ref]
IsA(v, kind) == v \in Reference /\ v.ref \in DOMAIN objects /\ ObjectOf(v).kind = kind
NewRef(n) == [ref |-> Len(objects) + n]

\* The compiler captures every value right after it has made the pointer.
IsCallable(v) == IsA(v, "function") /\ Len(ObjectOf(v).captured) = Captures[ObjectOf(v).fx]

-----------------------------------------------------------------------------
(* The state of the running code *)

\* A run loop executes compiled code.
Running == phase \in {"setup", "call"} /\ ~inNative /\ pc # ExitPos
InCode == Running /\ pc.at # "entry"

\* The code has pushed (at least) n temporaries; the stack has room for n more.
HasTemporaries(n) == framePointer + Slots(pc) + n <= Len(values)
HasRoom(n) == Len(values) + n <= MaxStack

Init ==
    /\ InitStack
    /\ pc = InitPos
    /\ phase = "setup"
    /\ natives = <<>>
    /\ inNative = FALSE
    /\ settled = 0
    /\ objects = <<>>

-----------------------------------------------------------------------------
(* Instructions on temporaries, locals and globals *)

\* The code pushes the sequence vs in the place of its n topmost values.
Replace(n, vs) ==
    /\ HasTemporaries(n)
    /\ HasRoom(Len(vs))
    /\ values' = Below(n) \o vs
    /\ UNCHANGED <<frames, framePointer, machineVars>>

PushConstant == \E v \in Plain : InCode /\ Replace(0, <<v>>)

Scrap == InCode /\ Replace(1, <<>>)

Duplicate == InCode /\ HasTemporaries(1) /\ Replace(1, Above(1) \o Above(1))

Swap == InCode /\ HasTemporaries(2) /\ Replace(2, Reverse(Above(2)))

LoadX == \E i \in 1..Addressable(pc) :
    InCode /\ framePointer + i <= Len(values) /\ Replace(0, <<values[framePointer + i]>>)

\* A store into a slot beyond the end of the vector is undefined; it is left
\* out because a vector that has just popped a value still has the storage.
StoreX == \E i \in 1..Addressable(pc) :
    /\ InCode
    /\ HasTemporaries(1)
    /\ framePointer + i < Len(values)
    /\ values' = [Below(1) EXCEPT ![framePointer + i] = Last(values)]
    /\ UNCHANGED <<frames, framePointer, machineVars>>

\* Inside the initial value of a global the analysis resolves no other global,
\* but a lambda is analysed later, in the tables of all functions.  Accesses
\* beyond the end of the vector are undefined and left out.
UsesGlobals ==
    /\ InCode /\ pc # InitPos
    /\ phase = "call" \/ "early_globals" \in Shapes

GlobalRead == \E i \in 1..NGlobals :
    UsesGlobals /\ i <= Len(values) /\ Replace(0, <<values[i]>>)

GlobalWrite == \E i \in 1..NGlobals :
    /\ UsesGlobals
    /\ HasTemporaries(1)
    /\ i < Len(values)
    /\ values' = [Below(1) EXCEPT ![i] = Last(values)]
    /\ UNCHANGED <<frames, framePointer, machineVars>>

\* The value of the next global stays where it has been pushed.
InitGlobal ==
    /\ phase = "setup" /\ Running /\ frames = <<>>
    /\ settled < NGlobals
    /\ Len(values) = settled + 1
    /\ settled' = settled + 1
    /\ UNCHANGED <<stackVars, pc, phase, natives, inNative, objects>>

-----------------------------------------------------------------------------
(* Function pointers and tuples *)

NewFx == \E f \in Functions :
    /\ InCode
    /\ Len(objects) < MaxObjects
    /\ HasRoom(1)
    /\ values' = Append(values, NewRef(1))
    /\ objects' = Append(objects, [kind |-> "function", fx |-> f, captured |-> <<>>])
    /\ UNCHANGED <<frames, framePointer, pc, phase, natives, inNative, settled>>

NewTuple == \E n \in 0..MaxArgs :
    /\ InCode
    /\ HasTemporaries(n)
    /\ HasRoom(1)
    /\ Len(objects) < MaxObjects
    /\ values' = Append(Below(n), NewRef(1))
    /\ objects' = Append(objects, [kind |-> "tuple", items |-> Above(n)])
    /\ UNCHANGED <<frames, framePointer, pc, phase, natives, inNative, settled>>

\* CAPTURE adds the popped value to the pointer below it, in place.
Capture ==
    /\ InCode
    /\ HasTemporaries(2)
    /\ LET pointer == Above(2)[1]
       IN  /\ IsA(pointer, "function")
           /\ Len(ObjectOf(pointer).captured) < Captures[ObjectOf(pointer).fx]
           /\ objects' = [objects EXCEPT ![pointer.ref].captured = Append(@, Last(values))]
    /\ values' = Below(1)
    /\ UNCHANGED <<frames, framePointer, pc, phase, natives, inNative, settled>>

\* The first item comes to lie on top.
Unpack ==
    /\ InCode
    /\ HasTemporaries(1)
    /\ IsA(Last(values), "tuple")
    /\ \E n \in 0..Len(ObjectOf(Last(values)).items) :
           Replace(1, Reverse(SubSeq(ObjectOf(Last(values)).items, 1, n)))

-----------------------------------------------------------------------------
(* Exceptions *)

\* The frames below the newest native that is left once the natives are ns.
FramesBelow(ns) == IF ns = <<>> THEN 0 ELSE Last(ns).depth

\* The host sees C++ exception Unhandled, and with it all natives are gone.
\* VM::call restores the program counter; setup has no way back.
Unhandled ==
    /\ \A i \in DOMAIN frames : ~frames[i].armed
    /\ UnwindAll
    /\ pc' = InitPos
    /\ phase' = IF phase = "call" THEN "idle" ELSE "dead"
    /\ natives' = <<>>
    /\ inNative' = FALSE
    /\ UNCHANGED <<settled, objects>>

\* thr0w, after the exception has been popped.  ns are the natives whose run
\* loops go on: the loop that executes thr0w continues at the handler, in
\* whichever frame that is.
Raise(exception, ns) ==
    \/ \E h \in DOMAIN frames :
           /\ StopsUnwind(h)
           /\ h > FramesBelow(ns) \/ "escaping_throw" \in Shapes
           /\ UnwindTo(h, exception)
           /\ pc' = ExceptPos(frames[h].context)
           /\ natives' = ns
           /\ inNative' = FALSE
           /\ UNCHANGED <<phase, settled, objects>>
    \/ Unhandled

Try ==
    /\ Running /\ pc.at = "entry" /\ pc.fx \in HasExcept
    /\ frames' = [frames EXCEPT ![Len(frames)].armed = TRUE]
    /\ pc' = BodyPos(pc.fx)
    /\ UNCHANGED <<values, framePointer, phase, natives, inNative, settled, objects>>

Throw == InCode /\ HasTemporaries(1) /\ Raise(Last(values), natives)

\* An instruction fails: the run loop turns the C++ exception into a string.
Fail == InCode /\ \E message \in Data : Raise(message, natives)

-----------------------------------------------------------------------------
(* Calls *)

MayEnter(n) == Len(frames) < MaxDepth /\ HasRoom(n)

Call == \E f \in Functions :
    /\ InCode /\ pc # InitPos
    /\ Captures[f] = 0
    /\ HasTemporaries(CallArity(f))
    /\ MayEnter(FrameSize[f])
    /\ PushFrame(values, pc, CallArity(f), f, <<>>)
    /\ pc' = EntryPos(f)
    /\ UNCHANGED <<phase, natives, inNative, settled, objects>>

\* INVOKE with n arguments below a script function: prepare_args, then the
\* captures are pushed as further parameters.  A variadic function gets the
\* surplus arguments as a tuple.  A wrong number of arguments is one of the
\* failures of Fail.
EnterClosure(v, vals, n) ==
    LET closure == ObjectOf(v)
        f == closure.fx
        surplus == n - Arity[f]
        packed == SubSeq(vals, 1, Len(vals) - surplus) \o <<NewRef(1)>>
        args == IF f \in IsVariadic THEN packed ELSE vals
    IN  /\ n >= Arity[f]
        /\ IF f \in IsVariadic
           THEN /\ Len(objects) < MaxObjects
                /\ objects' = Append(objects, [kind |-> "tuple",
                       items |-> SubSeq(vals, Len(vals) - surplus + 1, Len(vals))])
           ELSE n = Arity[f] /\ UNCHANGED objects
        /\ Len(frames) < MaxDepth
        /\ Len(vals) + 1 + Captures[f] + FrameSize[f] <= MaxStack
        /\ PushFrame(args \o closure.captured, pc, CallArity(f) + Captures[f], f, <<>>)
        /\ pc' = EntryPos(f)
        /\ UNCHANGED <<phase, natives, inNative, settled>>

Invoke == \E n \in 0..MaxArgs :
    /\ InCode
    /\ HasTemporaries(n + 1)
    /\ IsCallable(Last(values))
    /\ EnterClosure(Last(values), Below(1), n)

\* std::invoke: the arguments are the items of a tuple.  The build-in pops
\* the topmost value of the new window and its caller pushes it back.
InvokeVariadic ==
    /\ InCode
    /\ HasTemporaries(2)
    /\ IsA(Last(values), "tuple")
    /\ IsCallable(Above(2)[1])
    /\ LET items == ObjectOf(Last(values)).items
       IN  EnterClosure(Above(2)[1], Below(2) \o items, Len(items))

\* Slip: the program counter stays in the function that has been left.
LeaveInCallee(v) ==
    /\ InCode /\ pc # InitPos /\ pc.fx \notin IsCoroutine
    /\ PopFrame(<<v>>)
    /\ UNCHANGED <<pc, phase, natives, inNative, settled, objects>>

Leave(v) ==
    /\ InCode /\ pc # InitPos /\ pc.fx \notin IsCoroutine
    /\ PopFrame(<<v>>)
    /\ pc' = Last(frames).ret
    /\ UNCHANGED <<phase, natives, inNative, settled, objects>>

Return == InCode /\ HasTemporaries(1) /\ Leave(Last(values))

ReturnNull == Leave(Null)

-----------------------------------------------------------------------------
(* Coroutines: a coroutine object is never changed, it can be resumed again *)

CoroutineObjectBeforePop(n) ==   \* slip: the yielded value is still on the stack
    [kind |-> "coroutine", resume |-> BodyPos(pc.fx), locals |-> Window(0),
     context |-> Last(frames).context]
CoroutineObject(n) ==
    [kind |-> "coroutine", resume |-> BodyPos(pc.fx), locals |-> Window(n),
     context |-> Last(frames).context]
TupleObject(first, second) == [kind |-> "tuple", items |-> <<first, second>>]

InCoroutine == Running /\ pc.fx \in IsCoroutine /\ frames # <<>>

CoDump ==
    /\ InCoroutine /\ pc.at = "entry"
    /\ Len(objects) < MaxObjects
    /\ objects' = Append(objects, CoroutineObject(0))
    /\ PopFrame(<<NewRef(1)>>)
    /\ pc' = Last(frames).ret
    /\ UNCHANGED <<phase, natives, inNative, settled>>

Yield ==
    /\ InCoroutine /\ pc.at = "body"
    /\ HasTemporaries(1)
    /\ Len(objects) + 2 <= MaxObjects
    /\ objects' = objects \o <<CoroutineObject(1), TupleObject(NewRef(1), Last(values))>>
    /\ PopFrame(<<NewRef(2)>>)
    /\ pc' = Last(frames).ret
    /\ UNCHANGED <<phase, natives, inNative, settled>>

CoReturn ==
    /\ InCoroutine /\ pc.at = "body"
    /\ HasTemporaries(1)
    /\ Len(objects) < MaxObjects
    /\ objects' = Append(objects, TupleObject(Null, Last(values)))
    /\ PopFrame(<<NewRef(1)>>)
    /\ pc' = Last(frames).ret
    /\ UNCHANGED <<phase, natives, inNative, settled>>

InvokeCoroutine ==
    /\ InCode
    /\ HasTemporaries(1)
    /\ IsA(Last(values), "coroutine")
    /\ LET coroutine == ObjectOf(Last(values))
       IN  /\ MayEnter(Len(coroutine.locals))
           /\ RestoreFrame(Below(1), pc, coroutine.context, coroutine.locals)
           /\ pc' = coroutine.resume
    /\ UNCHANGED <<phase, natives, inNative, settled, objects>>

-----------------------------------------------------------------------------
(* Natives *)

InNative == phase \in {"setup", "call"} /\ inNative

\* An instruction that runs C++ code which may call back takes its operands.
StartNative == \E n \in 0..MaxArgs :
    /\ InCode
    /\ HasTemporaries(n)
    /\ Len(natives) < MaxNatives
    /\ values' = Below(n)
    /\ natives' = Append(natives, [prev |-> pc, depth |-> Len(frames)])
    /\ inNative' = TRUE
    /\ UNCHANGED <<frames, framePointer, pc, phase, settled, objects>>

\* What a nested run loop and VM::call return to: the EXIT behind the code.
ReturnToCaller == pc   \* slip: the code below the native
ReturnToLoop == ExitPos

\* run_function: the captures are pushed behind the locals.
RunFunction == \E id \in DOMAIN objects :
    LET closure == objects[id]
        f == closure.fx
    IN  /\ InNative
        /\ IsCallable([ref |-> id])
        /\ f \notin IsVariadic
        /\ Captures[f] = 0 \/ FrameSize[f] = 0 \/ "captures_in_callback" \in Shapes
        /\ MayEnter(Arity[f] + FrameSize[f] + Captures[f])
        /\ \E args \in [1..Arity[f] -> Plain] :
               PushFrame(values \o args, ReturnToLoop, Arity[f], f, closure.captured)
        /\ pc' = EntryPos(f)
        /\ inNative' = FALSE
        /\ UNCHANGED <<phase, natives, settled, objects>>

\* run_coroutine: the saved values are pushed behind the null locals.
RunCoroutine == \E id \in DOMAIN objects :
    LET coroutine == objects[id]
        f == coroutine.context
    IN  /\ InNative
        /\ IsA([ref |-> id], "coroutine")
        /\ FrameSize[f] = 0 \/ "iterate_locals" \in Shapes
        /\ MayEnter(FrameSize[f] + Len(coroutine.locals))
        /\ PushFrame(values, ReturnToLoop, 0, f, coroutine.locals)
        /\ pc' = coroutine.resume
        /\ inNative' = FALSE
        /\ UNCHANGED <<phase, natives, settled, objects>>

\* EXIT ends the innermost run loop.  A nested one gives the value and the
\* program counter back to its native, the outermost one ends VM::call.
Exit ==
    /\ phase \in {"setup", "call"} /\ ~inNative /\ pc = ExitPos
    /\ values # <<>>
    /\ values' = Below(1)
    /\ IF natives = <<>>
       THEN phase' = "idle" /\ pc' = InitPos /\ UNCHANGED inNative
       ELSE UNCHANGED phase /\ pc' = Last(natives).prev /\ inNative' = TRUE
    /\ UNCHANGED <<frames, framePointer, natives, settled, objects>>

EndNative == \E result \in Plain :
    /\ InNative
    /\ HasRoom(1)
    /\ values' = Append(values, result)
    /\ natives' = Front(natives)
    /\ inNative' = FALSE
    /\ UNCHANGED <<frames, framePointer, pc, phase, settled, objects>>

\* A C++ exception leaves the native; the loop around it turns it into a throw.
FailNative == InNative /\ \E message \in Data : Raise(message, Front(natives))

-----------------------------------------------------------------------------
(* The host *)

FinishSetup ==
    /\ phase = "setup" /\ Running /\ frames = <<>>
    /\ settled = NGlobals /\ Len(values) = NGlobals
    /\ phase' = "idle"
    /\ UNCHANGED <<stackVars, pc, natives, inNative, settled, objects>>

HostCall == \E f \in Functions, n \in 0..MaxArgs :
    /\ phase = "idle"
    /\ Captures[f] = 0
    /\ n >= Parameters(f) \/ "any_argument_count" \in Shapes
    /\ MayEnter(n + FrameSize[f])
    /\ \E args \in [1..n -> Plain] : PushFrame(values \o args, ReturnToLoop, n, f, <<>>)
    /\ pc' = EntryPos(f)
    /\ phase' = "call"
    /\ UNCHANGED <<natives, inNative, settled, objects>>

\* VM::call with a name that is not in the function pool throws before it
\* enters anything.  The program counter is restored, but the arguments, which
\* have been pushed already, stay on the stack for good.
HostCallUnknown == \E n \in 0..MaxArgs :
    /\ phase = "idle"
    /\ HasRoom(n)
    /\ \E args \in [1..n -> Plain] : values' = values \o args
    /\ settled' = settled + n
    /\ UNCHANGED <<frames, framePointer, pc, phase, natives, inNative, objects>>

-----------------------------------------------------------------------------
OnTemporaries == PushConstant \/ Scrap \/ Duplicate \/ Swap \/ LoadX \/ StoreX \/ Unpack
OnGlobals == GlobalRead \/ GlobalWrite \/ InitGlobal
OnFunctions ==
    \/ NewFx \/ NewTuple \/ Capture
    \/ Call \/ Invoke \/ InvokeVariadic \/ Return \/ ReturnNull
OnCoroutines == CoDump \/ Yield \/ CoReturn \/ InvokeCoroutine
OnExceptions == Try \/ Throw \/ Fail \/ FailNative
OnNatives == StartNative \/ RunFunction \/ RunCoroutine \/ Exit \/ EndNative
OnHost == FinishSetup \/ HostCall \/ HostCallUnknown

Next ==
    \/ OnTemporaries \/ OnGlobals \/ OnFunctions \/ OnCoroutines
    \/ OnExceptions \/ OnNatives \/ OnHost

Spec == Init /\ [][Next]_vars
=============================================================================
