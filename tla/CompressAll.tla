----------------------------- MODULE CompressAll -----------------------------
(***************************************************************************)
(* What output_write asks of its compression jobs, whatever the number of  *)
(* threads and their order: the set of finished blocks grows by one block  *)
(* at a time, the call succeeds only when it is complete, and the call     *)
(* answers.  Module CompressPool implements it.                            *)
(***************************************************************************)
CONSTANT Blocks

VARIABLES done,       \* the blocks that are compressed
          result      \* "none" while the call runs, then "ok" or "error"

vars == <<done, result>>

Init == done = {} /\ result = "none"

Finish(b) ==
    /\ result = "none"
    /\ b \notin done
    /\ done' = done \cup {b}
    /\ UNCHANGED result

Succeed ==
    /\ result = "none"
    /\ done = Blocks
    /\ result' = "ok"
    /\ UNCHANGED done

\* A compressor, an allocation, a thread creation or a write may fail.
Fail ==
    /\ result = "none"
    /\ result' = "error"
    /\ UNCHANGED done

Next == (\E b \in Blocks : Finish(b)) \/ Succeed \/ Fail

Spec == Init /\ [][Next]_vars
FairSpec == Spec /\ WF_vars(Next)
=============================================================================
