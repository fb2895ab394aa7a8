----------------------------- MODULE MCMachine -----------------------------
(***************************************************************************)
(* Instances of the machine.  A program is given by the functions of its   *)
(* function pool; each run takes the ones its question needs:              *)
(*   main    has an except block and a local variable                      *)
(*   plain   a function with one parameter                                 *)
(*   lambda  a lambda with one parameter, one capture and no local         *)
(*   local   a lambda with one capture and one local                       *)
(*   variad  a function with a variadic parameter                          *)
(*   cor     a coroutine with one parameter and no local                   *)
(*   corloc  a coroutine with one local                                    *)
(***************************************************************************)
EXTENDS MachineRefinement

CONSTANTS main, plain, lambda, local, variad, cor, corloc

Table(ones) == [f \in Functions |-> IF f \in ones THEN 1 ELSE 0]

MCExitPos == [fx |-> NoFx, at |-> "exit"]
MCFrameSize == Table({main, local, corloc})
MCArity == Table({plain, lambda, cor})
MCCaptures == Table({lambda, local})
MCExceptAlloc == Table({main})
MCBigExceptAlloc == [f \in Functions |-> IF f = main THEN 2 ELSE 0]
MCHasExcept == Functions \cap {main}
MCIsCoroutine == Functions \cap {cor, corloc}
MCIsVariadic == Functions \cap {variad}
=============================================================================
