------------------------------- MODULE MCDriver -------------------------------
(***************************************************************************)
(* Model checking module Driver with two devices: images that differ in    *)
(* block size and compression, one whose inodes table is longer than a     *)
(* block, and a device that holds no image.                                *)
(***************************************************************************)
EXTENDS Driver, TLC

CONSTANTS d1, d2, r1, r2

Holds(compression, block_size, inodes_csize) ==
    [magic |-> TRUE, compression |-> compression, block_size |-> block_size,
     inodes_csize |-> inodes_csize]
Foreign == [Holds("none", 1, 1) EXCEPT !.magic = FALSE]

MCImages ==
    { d1 :> Holds("gzip", 2, 1) @@ d2 :> Holds("gzip", 1, 1),
      d1 :> Holds("gzip", 2, 2) @@ d2 :> Foreign,
      d1 :> Holds("none", 1, 1) @@ d2 :> Holds("none", 2, 3),
      d1 :> Holds("lzma", 1, 1) @@ d2 :> Holds("gzip", 1, 1),
      d1 :> Holds("xz", 1, 1) @@ d2 :> Holds("lzo", 1, 1) }

MCGzip == {d1 :> Holds("gzip", 1, 1) @@ d2 :> Foreign}

ReaderSymmetry == Permutations({r1, r2})
=============================================================================
