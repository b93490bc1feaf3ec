---------------------------- MODULE MCSourceScan ----------------------------
(***************************************************************************)
(* Model checking module SourceScan.  Only equality of contents matters,   *)
(* so they are symmetric model values.                                     *)
(***************************************************************************)
EXTENDS SourceScan, TLC

ContentSymmetry == Permutations(Contents)

\* One failure in the longest scans, two in those that are one entry shorter.
FewerFailuresWhenLong == Len(entries) + failures =< MaxEntries + 1
=============================================================================
