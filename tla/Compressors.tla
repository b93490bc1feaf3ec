------------------------------ MODULE Compressors ------------------------------
(***************************************************************************)
(* What the compressors make of a buffer: mkfs's and unfs's                *)
(* (src/src/mkfs/compressor*.c) and the driver's (src/src/linux).  The     *)
(* libraries behind them are external: a compressed size is any that the   *)
(* library may come to, and bytes that are no compressed form uncompress   *)
(* to an error or to something else.                                       *)
(***************************************************************************)
EXTENDS Integers

CONSTANTS GzipBound,    \* what compressBound adds to a size; 13 or more
          LzoExtra      \* what lzo1x_999 may add to one; 67 or more

ASSUME CompressorsAssumption == GzipBound \in Nat /\ LzoExtra \in Nat

Names == {"none", "gzip", "lzma", "lzo", "xz"}

Result(rc, written) == [rc |-> rc, written |-> written]
Refused == Result(-1, 0)
Sized(sizes) == {Result(n, n) : n \in sizes}

none_compress(ssize, dsize) ==
    {IF dsize < ssize THEN Refused ELSE Result(ssize, ssize)}

\* mutant: the room is not compared with what may be needed
gzip_compressUnbounded(ssize, dsize) ==
    {Refused} \cup Sized(1..(ssize + GzipBound))

\* deflate needs room for the worst case before it starts.
gzip_compress(ssize, dsize) ==
    {Refused} \cup (IF ssize + GzipBound > dsize THEN {}
                    ELSE Sized(1..(ssize + GzipBound)))

\* Room for what comes is asked of the library, which stops at dsize.
lzma_compress(ssize, dsize) == {Refused} \cup Sized(1..dsize)
xz_compress(ssize, dsize) == {Refused} \cup Sized(1..dsize)

\* dsize is not looked at.  What is not shorter than the original is refused
\* after it was written.
lzo_compress(ssize, dsize) ==
    {Refused} \cup {Result(IF n >= ssize THEN -1 ELSE n, n) :
                       n \in 1..(ssize + LzoExtra)}

compressor_compress(name, ssize, dsize) ==
    CASE name = "none" -> none_compress(ssize, dsize)
      [] name = "gzip" -> gzip_compress(ssize, dsize)
      [] name = "lzma" -> lzma_compress(ssize, dsize)
      [] name = "lzo"  -> lzo_compress(ssize, dsize)
      [] name = "xz"   -> xz_compress(ssize, dsize)

-----------------------------------------------------------------------------
(***************************************************************************)
(* Uncompressing to a size that is known: what it was, something else of   *)
(* that size, an error, or a read through a NULL pointer.                  *)
(***************************************************************************)
\* none copies whatever is there.
Foreign(name) == IF name = "none" THEN {"wrong"} ELSE {"wrong", "fails"}

\* mkfs's functions, which unfs uses.
uncompress(name, right) == IF right THEN {"right"} ELSE Foreign(name)

\* The driver's: lzma's is a stub, and xz's gets the context of a compressor
\* that has no create function.
driver_uncompress(name, right) ==
    CASE name = "lzma" -> {"fails"}
      [] name = "xz" -> {"crashes"}
      [] OTHER -> IF right THEN {"right"} ELSE Foreign(name)
=============================================================================
