------------------------------- MODULE MCInodes -------------------------------
(***************************************************************************)
(* Model checking module Inodes: a root and a file, of a good image, of *)
(* one with a node that cannot be read and of one whose root cannot; on    *)
(* four kinds of kernels.                                                  *)
(***************************************************************************)
EXTENDS Inodes, TLC

CONSTANTS o1, o2, o3, t1, t2

Good == 0 :> "directory" @@ 1 :> "regular"
MCTables == {Good, [Good EXCEPT ![1] = "unknown"], [Good EXCEPT ![0] = "unknown"]}

Kernel(defers, waits, splices, counts) ==
    [defers |-> defers, waits |-> waits, splices |-> splices, counts |-> counts]

MCKernels ==
    { Kernel(FALSE, FALSE, FALSE, TRUE),   \* 2.6.36
      Kernel(TRUE, TRUE, FALSE, FALSE),    \* 3.0
      Kernel(TRUE, TRUE, TRUE, FALSE),     \* 3.5
      Kernel(TRUE, FALSE, TRUE, FALSE) }   \* 3.7 and later
=============================================================================
