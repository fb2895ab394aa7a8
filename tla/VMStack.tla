------------------------------ MODULE VMStack ------------------------------
(***************************************************************************)
(* The operand stack of the virtual machine (ltnvm/VMStack.hxx, .cxx): one *)
(* vector of values shared by the globals and by all activations, and one  *)
(* vector of frames.  A frame owns no storage of its own: its window is    *)
(* the part of the vector between its frame pointer and the frame pointer  *)
(* of the frame above it.  The frame pointer of the top frame is a member  *)
(* of the stack, those of the others are saved in the frame above them.    *)
(*                                                                         *)
(* Sequences are 1-based: the slot i of the code (0-based) is              *)
(* values[framePointer + i + 1].                                           *)
(***************************************************************************)
EXTENDS Naturals, SequencesExt

CONSTANTS
    Functions,   \* the entries of the function pool
    FrameSize,   \* FrameSize[f]: FunctionContext::frame_size of f
    Null,        \* the value null
    ExitPos      \* the address code_end - 1, where an EXIT instruction lies

VARIABLES
    values,      \* the vector of values, globals first
    frames,      \* the vector of frames, the newest last
    framePointer \* where the window of the newest frame begins

stackVars == <<values, frames, framePointer>>

\* What VMStack::Frame holds.  The handler of a frame is the except block of
\* the function it runs, so whether except_jump is set is all there is to know.
FrameOf(ret, prev, armed, f) ==
    [ret |-> ret, prev |-> prev, armed |-> armed, context |-> f]

Nulls(n) == [i \in 1..n |-> Null]

\* The vector without, and only, its n topmost values; n pops in a row.
Below(n) == SubSeq(values, 1, Len(values) - n)
Above(n) == SubSeq(values, Len(values) - n + 1, Len(values))

\* Where the window of the i-th frame begins; the window of "frame 0", the
\* code that initialises the globals, begins at 0.
Base(i) == IF i = Len(frames) THEN framePointer ELSE frames[i + 1].prev

InitStack ==
    /\ values = <<>>
    /\ frames = <<>>
    /\ framePointer = 0

\* Slips that the properties have to notice stand before the definition they
\* spoil: here, a frame pointer that is one too low.
PushFrameOneTooLow(vals, ret, arity, f, extra) ==
    /\ frames' = Append(frames, FrameOf(ret, framePointer, FALSE, f))
    /\ framePointer' = Len(vals) - arity - 1
    /\ values' = vals \o Nulls(FrameSize[f]) \o extra

\* push_frame: the topmost arity values of vals become the parameters, nulls
\* are added for the locals.  Whatever the caller pushes next is extra.
PushFrame(vals, ret, arity, f, extra) ==
    /\ frames' = Append(frames, FrameOf(ret, framePointer, FALSE, f))
    /\ framePointer' = Len(vals) - arity
    /\ values' = vals \o Nulls(FrameSize[f]) \o extra

\* The frame of a coroutine that is resumed: push_frame without parameters,
\* then every value of the new window is overwritten by the saved one.
RestoreFrame(vals, ret, f, locals) ==
    /\ frames' = Append(frames, FrameOf(ret, framePointer, FALSE, f))
    /\ framePointer' = Len(vals)
    /\ values' = vals \o locals

\* Slips: the frame pointer is not restored; the vector is cut at the restored
\* frame pointer; the vector is not cut.
PopFrameWithoutPointer(pushed) ==
    /\ frames # <<>>
    /\ values' = SubSeq(values, 1, framePointer) \o pushed
    /\ framePointer' = framePointer
    /\ frames' = Front(frames)

PopFrameAtPrevious(pushed) ==
    /\ frames # <<>>
    /\ values' = SubSeq(values, 1, Last(frames).prev) \o pushed
    /\ framePointer' = Last(frames).prev
    /\ frames' = Front(frames)

PopFrameWithoutCut(pushed) ==
    /\ frames # <<>>
    /\ values' = values \o pushed
    /\ framePointer' = Last(frames).prev
    /\ frames' = Front(frames)

\* pop_frame: the window of the top frame is cut off, then what the handler
\* pushes for the caller is added.
PopFrame(pushed) ==
    /\ frames # <<>>
    /\ values' = SubSeq(values, 1, framePointer) \o pushed
    /\ framePointer' = Last(frames).prev
    /\ frames' = Front(frames)

\* Slip: the first slot is left out.
WindowOffByOne(n) == SubSeq(values, framePointer + 2, Len(values) - n)

\* copy_locals, after n temporaries have been popped.
Window(n) == SubSeq(values, framePointer + 1, Len(values) - n)

\* The frame at which unwind stops: the newest one with a handler.
StopsUnwind(h) ==
    /\ h \in DOMAIN frames
    /\ frames[h].armed
    /\ \A i \in DOMAIN frames : i > h => ~frames[i].armed

\* Slips: the handler stays set; the exception is pushed after the frame that
\* counts it as its parameter.
UnwindToStillArmed(h, exception) ==
    /\ frames' = Append(SubSeq(frames, 1, h - 1),
                        FrameOf(frames[h].ret, frames[h].prev, TRUE, frames[h].context))
    /\ framePointer' = Base(h)
    /\ values' = SubSeq(values, 1, Base(h)) \o <<exception>> \o Nulls(FrameSize[frames[h].context])

UnwindToWrongOrder(h, exception) ==
    /\ frames' = Append(SubSeq(frames, 1, h - 1),
                        FrameOf(frames[h].ret, frames[h].prev, FALSE, frames[h].context))
    /\ framePointer' = Base(h) - 1
    /\ values' = SubSeq(values, 1, Base(h)) \o Nulls(FrameSize[frames[h].context]) \o <<exception>>

\* thr0w with a handler in frame h: the frames above h are popped, then h
\* itself, then a fresh frame takes its place with the exception as its only
\* parameter.  The fresh frame has no handler.
UnwindTo(h, exception) ==
    /\ frames' = Append(SubSeq(frames, 1, h - 1),
                        FrameOf(frames[h].ret, frames[h].prev, FALSE, frames[h].context))
    /\ framePointer' = Base(h)
    /\ values' = SubSeq(values, 1, Base(h)) \o <<exception>> \o Nulls(FrameSize[frames[h].context])

\* thr0w without a handler: unwind pops every frame.
UnwindAll ==
    /\ frames' = <<>>
    /\ framePointer' = IF frames = <<>> THEN framePointer ELSE frames[1].prev
    /\ values' = IF frames = <<>> THEN values ELSE SubSeq(values, 1, Base(1))
=============================================================================
