------------------------------- MODULE MCHeap -------------------------------
(***************************************************************************)
(* For the runs that check safety only: the threads are interchangeable.   *)
(***************************************************************************)
EXTENDS HeapBlocks, TLC

ThreadSymmetry == Permutations(Thread)
=============================================================================
