------------------------- MODULE MachineRefinement -------------------------
(***************************************************************************)
(* The machine implements Activations: its vector of values, its frames    *)
(* and its nested run loops show as activations with values of their own.  *)
(***************************************************************************)
EXTENDS MachineInvariants

\* Who runs, the bottom of the stack and the activations as they show.
Control ==
    IF ~Live THEN "host"
    ELSE IF AtExit THEN (IF natives = <<>> THEN "host" ELSE "native")
    ELSE IF inNative THEN "native" ELSE "code"

Ground == IF frames = <<>> THEN SubSeq(values, 1, Owned) ELSE SubSeq(values, 1, Base(1))

NativesAt(depth) == {j \in DOMAIN natives : natives[j].depth = depth}

GoesOnAt(i) ==
    IF i = Len(frames) THEN (IF AtExit THEN Last(natives).prev ELSE pc)
    ELSE IF frames[i + 1].ret # ExitPos THEN frames[i + 1].ret
    ELSE natives[CHOOSE j \in NativesAt(i) : TRUE].prev

EnteredBy(i) ==
    IF frames[i].ret # ExitPos THEN "code"
    ELSE IF NativesAt(i - 1) # {} THEN "native" ELSE "host"

ActivationAt(i) ==
    [pos |-> GoesOnAt(i),
     vals |-> SubSeq(values, Base(i) + 1, IF i = Len(frames) THEN Owned ELSE Base(i + 1)),
     armed |-> frames[i].armed,
     by |-> EnteredBy(i)]

Acts == [i \in 1..Len(frames) |-> ActivationAt(i)]

Abstract == INSTANCE Activations WITH
    control <- Control,
    ground <- Ground,
    acts <- Acts

(* The shared vector, the frames and the nested run loops together behave  *)
(* like activations with values of their own.                              *)
ImplementsActivations == Abstract!Spec
=============================================================================
