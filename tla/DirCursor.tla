------------------------------ MODULE DirCursor ------------------------------
(***************************************************************************)
(* What a reader of a directory relies on (readdir(3), seekdir(3)): each   *)
(* call returns the items that follow the cursor, as many as there is room *)
(* for, none twice and none left out; and it may go back to any place it   *)
(* has been told.  Module DirRead implements it.                           *)
(***************************************************************************)
EXTENDS Integers, Sequences

VARIABLES listing,   \* the items of the directory, in order
          next,      \* the index of the first item not read yet
          batch      \* what the last call returned

vars == <<listing, next, batch>>

Init == next = 1 /\ batch = <<>>

Read(k) ==
    /\ batch' = SubSeq(listing, next, next + k - 1)
    /\ next' = next + k
    /\ UNCHANGED listing

Seek(i) == next' = i /\ batch' = <<>> /\ UNCHANGED listing

Next == \/ \E k \in 0..Len(listing) - next + 1 : Read(k)
        \/ \E i \in 1..Len(listing) + 1 : Seek(i)

Spec == Init /\ [][Next]_vars
=============================================================================
