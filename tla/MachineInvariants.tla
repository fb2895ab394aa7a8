------------------------- MODULE MachineInvariants -------------------------
(***************************************************************************)
(* What has to hold of the machine: its invariants and its action          *)
(* properties.                                                             *)
(***************************************************************************)
EXTENDS Machine

Frame == [ret : Position, prev : Nat, armed : BOOLEAN, context : Functions]
Native == [prev : Position \ {ExitPos}, depth : Nat]

(* Every variable has the type of the member it stands for: values, frames *)
(* and frame pointer of VMStack, pc and heap of VMCore, and the C++ stack  *)
(* of natives and nested run loops.                                        *)
TypeOK ==
    /\ values \in Seq(Value)
    /\ frames \in Seq(Frame)
    /\ framePointer \in Nat
    /\ pc \in Position
    /\ phase \in {"setup", "idle", "call", "dead"}
    /\ natives \in Seq(Native)
    /\ inNative \in BOOLEAN
    /\ settled \in Nat
    /\ objects \in Seq(Object)

-----------------------------------------------------------------------------
(* Where the code of an activation goes on when control comes back to it.  *)

AtExit == pc = ExitPos
Live == phase \in {"setup", "call"}

\* A value that Exit is about to take belongs to no activation.
Owned == Len(values) - (IF AtExit THEN 1 ELSE 0)

(* Return addresses and frames correspond: a frame that was entered by     *)
(* compiled code returns into the function of the frame below, and running *)
(* code belongs to the function of the top frame (CALL, INVOKE, YIELD,     *)
(* THROW save and restore pc and frames separately).  The code that        *)
(* initialises the globals has no frame and is not seen again after setup. *)
CodeMatchesFrames ==
    /\ \A i \in DOMAIN frames :
           /\ frames[i].ret \in FunctionPos => i > 1 /\ frames[i].ret.fx = frames[i - 1].context
           /\ frames[i].ret = InitPos => i = 1 /\ phase = "setup"
    /\ Live /\ pc = InitPos => frames = <<>> /\ phase = "setup"
    /\ Live /\ pc \in FunctionPos => frames # <<>> /\ pc.fx = frames[Len(frames)].context
    /\ ~Live => frames = <<>>

(* The nested run loops on the C++ stack correspond to the frames they     *)
(* have entered: whatever lies above a native was entered by it, and when  *)
(* its loop ends (EXIT) or its C++ code runs, exactly the frames that were *)
(* there when it started are left (run_function, run_core, inst::exit).    *)
NativesMatchFrames ==
    /\ \A j \in DOMAIN natives :
           /\ natives[j].depth <= Len(frames)
           /\ natives[j].depth < Len(frames) => frames[natives[j].depth + 1].ret = ExitPos
           /\ IF natives[j].depth = 0
              THEN natives[j].prev = InitPos /\ phase = "setup"
              ELSE natives[j].prev \in FunctionPos
                       /\ natives[j].prev.fx = frames[natives[j].depth].context
    /\ \A j, k \in DOMAIN natives : j < k => natives[j].depth < natives[k].depth
    /\ \A i \in DOMAIN frames :
           frames[i].ret = ExitPos =>
               \/ i = 1 /\ phase = "call"
               \/ \E j \in DOMAIN natives : natives[j].depth = i - 1
    /\ inNative => natives # <<>> /\ pc = natives[Len(natives)].prev
    /\ inNative \/ AtExit =>
           IF natives = <<>>
           THEN frames = <<>> /\ phase = "call"
           ELSE natives[Len(natives)].depth = Len(frames)
    /\ ~inNative /\ ~AtExit => \A j \in DOMAIN natives : natives[j].depth < Len(frames)
    /\ ~Live => natives = <<>> /\ ~inNative /\ ~AtExit

(* Every activation owns at least the slots its code addresses, and the    *)
(* windows of different activations do not overlap, although the sizes     *)
(* come from different places: frame_size from the linker, parameters from *)
(* the call, captures from the pointer, saved locals from the coroutine.   *)
WindowsFit ==
    /\ \A i, j \in 0..Len(frames) : i <= j => Base(i) <= Base(j)
    /\ Base(0) = 0
    /\ framePointer <= Owned
    /\ \A i \in DOMAIN frames :
           frames[i].ret # ExitPos => frames[i].prev + Slots(frames[i].ret) <= Base(i)
    /\ \A j \in DOMAIN natives :
           Base(natives[j].depth) + Slots(natives[j].prev)
               <= IF natives[j].depth < Len(frames) THEN Base(natives[j].depth + 1) ELSE Owned
    /\ Live => framePointer + Slots(pc) <= Owned

(* Between two calls of the host no frame, no native and no value of an    *)
(* activation is left, whether the last call returned, threw or came to    *)
(* nothing (VM::call).  Besides the globals only the arguments of calls of *)
(* functions that do not exist stay on the stack.                          *)
HostFindsStackClean ==
    phase = "idle" =>
        /\ Len(values) = settled
        /\ frames = <<>>
        /\ framePointer = 0
        /\ natives = <<>>

(* Below the windows of a call of the host lie the globals and what failed *)
(* calls have left, and nothing else, so that GLOBAL_READ finds its slots  *)
(* below every window; when the outermost run loop ends only the result is *)
(* above them.                                                             *)
GlobalsBelowWindows ==
    /\ phase \in {"idle", "call"} => NGlobals <= settled
    /\ phase = "call" =>
           /\ frames # <<>> => Base(1) = settled
           /\ frames = <<>> => AtExit /\ Len(values) = settled + 1

(* A coroutine keeps enough values for the code it is resumed at.          *)
CoroutinesFit ==
    \A i \in DOMAIN objects :
        objects[i].kind = "coroutine" =>
            /\ objects[i].context \in IsCoroutine
            /\ objects[i].resume = BodyPos(objects[i].context)
            /\ CodeSlots(objects[i].resume) <= Len(objects[i].locals)

-----------------------------------------------------------------------------
(* Action properties *)

(* A global that has been initialised changes by GLOBAL_WRITE only, while  *)
(* STORE_X, calls, unwinding and the window of the initialising code move  *)
(* over the same vector; and no call takes the arguments that a failed one *)
(* has left.                                                               *)
GlobalsKept ==
    [][GlobalWrite \/ \A i \in 1..settled : i <= Len(values') /\ values'[i] = values[i]]_vars

(* A lambda finds its captured values behind its parameters, whoever calls *)
(* it (INVOKE or run_function).                                            *)
CapturesInPlace ==
    [][Invoke \/ RunFunction =>
           LET first == framePointer' + Parameters(pc'.fx) + 1
           IN  \E i \in DOMAIN objects :
                   /\ objects[i].kind = "function" /\ objects[i].fx = pc'.fx
                   /\ SubSeq(values', first, first + Captures[pc'.fx] - 1) = objects[i].captured]_vars

(* A native gets values only from the function it has called.              *)
CallbackReturns ==
    AtExit /\ natives # <<>> => Last(natives).depth = Len(frames)

=============================================================================
