--------------------------- MODULE MCCompressPool ---------------------------
(***************************************************************************)
(* Model checking module CompressPool.  Job numbers are not symmetric (the *)
(* jobs are created and joined in order), so no symmetry is declared.      *)
(***************************************************************************)
EXTENDS CompressPool
=============================================================================
