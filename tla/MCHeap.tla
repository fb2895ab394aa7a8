------------------------------- MODULE MCHeap -------------------------------
(***************************************************************************)
(* Instances of the heap: three addresses, so that there are cycles,       *)
(* chains and garbage, and one member function.                            *)
(***************************************************************************)
EXTENDS Heap

CONSTANTS o1, o2, o3, m
=============================================================================
