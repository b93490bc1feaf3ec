------------------------------ MODULE DeviceRead ------------------------------
(***************************************************************************)
(* smashfs_read of the driver (src/src/linux/super.c:348-456): a range of  *)
(* bytes of the block device, put together from its blocks in the kernel's *)
(* buffer cache.  Every byte of an image gets to its reader this way.      *)
(*                                                                         *)
(* The offsets in an image are unsigned and have 32 bits; the argument is  *)
(* an int, and what does not fit it becomes negative.                      *)
(***************************************************************************)
EXTENDS Integers, Sequences

CONSTANTS DevBlock,     \* devblksize, 1024 mostly
          Page,         \* PAGE_CACHE_SIZE
          IntEnd,       \* 2 ^ 31: the first number that an int does not hold
          MaxFailures   \* bound: allocations and device reads that fail

ASSUME DeviceReadAssumption ==
    /\ {DevBlock, Page, IntEnd} \subseteq Nat \ {0}
    /\ MaxFailures \in Nat

VARIABLES file,         \* the bytes of the device, or of the file behind it
          call,         \* the call of smashfs_read
          refs,         \* references to buffer heads that are held
          failures

NULL == 0
EIO == -1
ENOMEM == -2
Nothing == <<>>         \* a byte of the buffer that was not written

NoCall == [pc |-> "idle", offset |-> 0, length |-> 0, b |-> 0, i |-> 0,
           left |-> 0, in |-> 0, index |-> 0, page |-> 0, pageoff |-> 0,
           buffer |-> <<>>, rc |-> 0]

CallIs(pc) == call.pc = pc
Fail == failures < MaxFailures /\ failures' = failures + 1
Smaller(a, b) == IF a < b THEN a ELSE b

-----------------------------------------------------------------------------
(***************************************************************************)
(* What the call computes from its arguments                               *)
(***************************************************************************)
\* The conversion of an offset to int.
AsInt(offset) == ((offset + IntEnd) % (2 * IntEnd)) - IntEnd

Up(n, unit) == (n + unit - 1) \div unit
Pages == Up(call.length, Page)              \* the entries of data
Heads == Up(call.length, DevBlock) + 1      \* the entries of bh

\* mutant: the range starts at the first byte of its block
StartIndexNone(offset) == 0

\* The start of the range: a block, and a place in it.  (Of a negative number
\* too: >> rounds down, and & gives what is left.)
StartIndex(offset) == AsInt(offset) % DevBlock
StartBlock(offset) == AsInt(offset) \div DevBlock

\* A block that is there: the device ends with its last whole block.
OnDevice(block) == block \in 0..(Len(file) \div DevBlock - 1)

-----------------------------------------------------------------------------
(***************************************************************************)
(* The call                                                                *)
(***************************************************************************)
Call(offset, length) ==
    call' = [NoCall EXCEPT !.pc = "data", !.offset = offset, !.length = length,
                           !.buffer = [k \in 1..length |-> Nothing]]

\* Every way out but the last gives back what it took and returns an error.
ReturnError(rc) == call' = [call EXCEPT !.pc = "return", !.rc = rc]

\* kcalloc of data, then of bh.
AllocatePages ==
    /\ CallIs("data")
    /\ \/ call' = [call EXCEPT !.pc = "heads"] /\ UNCHANGED failures
       \/ Fail /\ ReturnError(ENOMEM)
    /\ UNCHANGED <<file, refs>>

AllocateHeads ==
    /\ CallIs("heads")
    /\ \/ call' = [call EXCEPT !.pc = "getblk"] /\ UNCHANGED failures
       \/ Fail /\ ReturnError(ENOMEM)
    /\ UNCHANGED <<file, refs>>

\* mutant: one more block than the range needs
MoreBlocksOne ==
    (call.b - 1) * DevBlock - StartIndex(call.offset) < call.length

\* while (bytes < length): bytes are those that the blocks got so far hold
\* from the start of the range on.
MoreBlocks == call.b * DevBlock - StartIndex(call.offset) < call.length

GetBlock ==
    /\ CallIs("getblk")
    /\ MoreBlocks
    /\ call' = [call EXCEPT !.b = @ + 1]
    /\ refs' = refs + 1
    /\ UNCHANGED <<file, failures>>

\* mutant: the heads so far are kept
GetBlockFailsKeeping ==
    /\ CallIs("getblk")
    /\ MoreBlocks
    /\ Fail \/ (~OnDevice(StartBlock(call.offset) + call.b) /\
                UNCHANGED failures)
    /\ ReturnError(EIO)
    /\ UNCHANGED <<file, refs>>

\* sb_getblk finds no memory; beyond the device newer kernels refuse.  The
\* heads so far are put.
GetBlockFails ==
    /\ CallIs("getblk")
    /\ MoreBlocks
    /\ Fail \/ (~OnDevice(StartBlock(call.offset) + call.b) /\
                UNCHANGED failures)
    /\ ReturnError(EIO)
    /\ refs' = refs - call.b
    /\ UNCHANGED file

\* ll_rw_block, of all heads.
ReadBlocks ==
    /\ CallIs("getblk")
    /\ ~MoreBlocks
    /\ call' = [call EXCEPT !.pc = "wait", !.i = 0]
    /\ UNCHANGED <<file, refs, failures>>

\* The bytes that the next head gives: what is left of the range, a block at
\* most.
Inner(left, index) == Smaller(left, DevBlock - index)

\* wait_on_buffer: one more head is up to date.
WaitBlock ==
    /\ CallIs("wait")
    /\ call.i < call.b
    /\ OnDevice(StartBlock(call.offset) + call.i)
    /\ call' = [call EXCEPT !.i = @ + 1]
    /\ UNCHANGED <<file, refs, failures>>

\* The device fails; beyond it older kernels read nothing.  All heads are put.
WaitBlockFails ==
    /\ CallIs("wait")
    /\ call.i < call.b
    /\ Fail \/ (~OnDevice(StartBlock(call.offset) + call.i) /\
                UNCHANGED failures)
    /\ ReturnError(EIO)
    /\ refs' = refs - call.b
    /\ UNCHANGED file

\* All heads are; the first is copied from the start of the range on.
StartCopying ==
    /\ CallIs("wait")
    /\ call.i = call.b
    /\ LET index == StartIndex(call.offset)
           in == Inner(call.length, index)
       IN  call' = [call EXCEPT !.pc = "copy", !.i = 0, !.index = index,
                                !.in = in, !.left = call.length - in]
    /\ UNCHANGED <<file, refs, failures>>

\* The page that a chunk goes to, and its place there.
NextPage == IF call.pageoff = Page
            THEN [page |-> call.page + 1, off |-> 0]
            ELSE [page |-> call.page, off |-> call.pageoff]

\* One memcpy: no further than the page, nor than the block.
CopyChunk ==
    /\ CallIs("copy")
    /\ call.in > 0
    /\ LET to == NextPage
           avail == Smaller(call.in, Page - to.off)
           first == to.page * Page + to.off
           from == (StartBlock(call.offset) + call.i) * DevBlock + call.index
       IN  call' = [call EXCEPT
              !.page = to.page, !.pageoff = to.off + avail,
              !.in = @ - avail, !.index = @ + avail,
              !.buffer = [k \in DOMAIN @ \cup (first + 1)..(first + avail) |->
                             IF k \in (first + 1)..(first + avail)
                             THEN file[from + k - first] ELSE @[k]]]
    /\ UNCHANGED <<file, refs, failures>>

\* A head is copied and put; the next one is copied from its first byte.
PutBlock ==
    /\ CallIs("copy")
    /\ call.in = 0 /\ call.i < call.b
    /\ LET in == Inner(call.left, 0)
       IN  call' = [call EXCEPT !.i = @ + 1, !.index = 0, !.in = in,
                                !.left = @ - in]
    /\ refs' = refs - 1
    /\ UNCHANGED <<file, failures>>

ReturnLength ==
    /\ CallIs("copy")
    /\ call.i = call.b
    /\ call' = [call EXCEPT !.pc = "return", !.rc = call.length]
    /\ UNCHANGED <<file, refs, failures>>

smashfs_read ==
    \/ AllocatePages
    \/ AllocateHeads
    \/ GetBlock
    \/ GetBlockFails
    \/ ReadBlocks
    \/ WaitBlock
    \/ WaitBlockFails
    \/ StartCopying
    \/ CopyChunk
    \/ PutBlock
    \/ ReturnLength

-----------------------------------------------------------------------------
(***************************************************************************)
(* Properties                                                              *)
(***************************************************************************)
\* A call that returns its length has filled the buffer with exactly the bytes
\* of the range that was asked for, however it lies over blocks and pages; an
\* offset of 32 bits that does not fit an int (super.c:348) is refused, and
\* nothing from elsewhere returned for it; and whichever way a call ends, the
\* reference to every head it took has been given back once
\* (super.c:396-450).
ReadExact ==
    CallIs("return") =>
        /\ refs = 0
        /\ call.rc = call.length /\ 0 < call.length
           /\ call.offset < 2 * IntEnd =>
              /\ call.offset < IntEnd
              /\ call.buffer = SubSeq(file, call.offset + 1,
                                      call.offset + call.length)

\* No array is left: bh has room for every head the range touches, data has a
\* page for every byte, and no byte is written beyond the length the caller
\* made room for (super.c:368-377, 382, 430-446).
ReadStaysInside ==
    /\ call.b =< Heads
    /\ call.in > 0 => NextPage.page < Pages
    /\ DOMAIN call.buffer = 1..call.length

=============================================================================
