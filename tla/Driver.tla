-------------------------------- MODULE Driver --------------------------------
(***************************************************************************)
(* The kernel driver's mounts, unmounts and reads of blocks                *)
(* (src/src/linux/super.c, compressor.c, compressor-gzip.c).               *)
(*                                                                         *)
(* Three things are one for the whole driver, however many images are      *)
(* mounted: the pointer smashfs_block_cachep to the cache that block       *)
(* buffers come from, the context pointer of the static gzip compressor,   *)
(* and the z_stream behind it.  None has a lock.  Mounts of several        *)
(* devices run at the same time, and so do reads.                          *)
(*                                                                         *)
(* Memory is modelled by what was taken where: a cache or a context is its *)
(* index in the sequence of those ever made, 0 being NULL, and a buffer is *)
(* the cache it came from.  Something that must not happen to memory is    *)
(* recorded in `fault`, after which the kernel may do anything and the     *)
(* model stops.                                                            *)
(***************************************************************************)
EXTENDS Integers, Sequences, FiniteSets

CONSTANTS Devices,      \* block devices an image may be mounted from
          Images,       \* what the devices hold: functions from devices
          Readers,      \* threads of the kernel that read pages
          MaxMounts,    \* bound: calls of mount
          MaxReads,     \* bound: calls of node_read
          MaxFailures   \* bound: allocations and device reads that fail

\* An image, or what a device holds that is none.
Image == [magic : BOOLEAN,
          compression : {"none", "gzip", "lzma", "lzo", "xz"},
          block_size : Nat, inodes_csize : Nat]

ASSUME DriverAssumption ==
    /\ MaxMounts \in Nat /\ MaxReads \in Nat /\ MaxFailures \in Nat
    /\ Images \subseteq [Devices -> Image]

VARIABLES
    image,       \* what the devices hold
    cachep,      \* smashfs_block_cachep
    caches,      \* all block caches made: their size, and whether they live
    context,     \* the context of the gzip compressor
    contexts,    \* all contexts made: whether they live, and their z_stream:
                 \* who set its input and its output, and whether it ended
    mount,       \* of each device: where fill_super is, and what it holds
    reader,      \* of each reader: where node_read is, and what it holds
    causes,      \* what has happened that the driver is not made for
    fault,       \* "none", or what has happened to memory
    mounts, reads, failures

memory == <<cachep, caches, context, contexts>>
counters == <<mounts, reads, failures>>
vars == <<image, memory, mount, reader, causes, fault, counters>>

NoOne == "no one"
ASSUME NoOneAssumption == NoOne \notin Devices \cup Readers
NoBlock == 0              \* blocks are numbered by the reads that want them
Stale == -1               \* what a new buffer holds
EIO == -2
NULL == 0

Unmounted == [pc |-> "unmounted", cbuffer |-> NULL, compressor |-> FALSE,
              cache |-> FALSE]
Idle == [pc |-> "idle", device |-> NoOne, block |-> NoBlock, ubuffer |-> NULL,
         cbuffer |-> NULL, context |-> NULL, data |-> Stale, result |-> NoBlock,
         shared |-> FALSE]

Init ==
    /\ image \in Images
    /\ cachep = NULL /\ caches = <<>>
    /\ context = NULL /\ contexts = <<>>
    /\ mount = [d \in Devices |-> Unmounted]
    /\ reader = [r \in Readers |-> Idle]
    /\ causes = {} /\ fault = "none"
    /\ mounts = 0 /\ reads = 0 /\ failures = 0

-----------------------------------------------------------------------------
(***************************************************************************)
(* What all share                                                          *)
(***************************************************************************)
MountIs(d, pc) == fault = "none" /\ mount[d].pc = pc
ReaderIs(r, pc) == fault = "none" /\ reader[r].pc = pc
MountAt(d, pc) == mount' = [mount EXCEPT ![d].pc = pc]
ReaderAt(r, pc) == reader' = [reader EXCEPT ![r].pc = pc]
Fail == failures < MaxFailures /\ failures' = failures + 1
Unless(ok, name) == fault' = IF ok THEN "none" ELSE name

Live(cache) == cache # NULL /\ caches[cache].live
Alive(c) == c # NULL /\ contexts[c].live

\* kmem_cache_free(smashfs_block_cachep, buffer) for those that are not NULL
CanFree(buffers) == \A b \in buffers \ {NULL} : b = cachep /\ Live(b)

\* Who has taken buffers from a cache and not given them back.
Holders(cache) ==
    {d \in Devices : mount[d].cbuffer = cache}
        \cup {r \in Readers : cache \in {reader[r].ubuffer, reader[r].cbuffer}}

\* destroy_blockcache.  The pointer stays, and so it may be destroyed again;
\* whoever has a buffer, if he did not give it back just before, is left with
\* freed memory.
Destroyed == [i \in DOMAIN caches |->
                 IF i = cachep THEN [caches[i] EXCEPT !.live = FALSE]
                 ELSE caches[i]]
DestroyFault(but) ==
    IF cachep = NULL THEN "none"
    ELSE IF ~Live(cachep) THEN "dead cache"
    ELSE IF Holders(cachep) \ {but} # {} THEN "busy cache"
    ELSE "none"

\* A new stream, and one that is used where no reader is: it has ended.
NewContext == [live |-> TRUE, in |-> NoOne, out |-> NoOne, ended |-> TRUE]
UsesContext(d) == image[d].compression = "gzip"
Streams(c, stream) ==
    [i \in DOMAIN contexts |-> IF i = c THEN stream ELSE contexts[i]]

\* mutant: the context is forgotten
ContextDestroyedNot(d) == contexts

\* compressor_destroy: gzip_destroy frees the context the static compressor
\* has by now.
ContextDestroyed(d) ==
    IF UsesContext(d) THEN Streams(context, [NewContext EXCEPT !.live = FALSE])
    ELSE contexts

CanDestroyContext(d) == UsesContext(d) /\ context # NULL => Alive(context)

-----------------------------------------------------------------------------
(***************************************************************************)
(* smashfs_fill_super                                                      *)
(***************************************************************************)
\* Another image is mounted, or being mounted or unmounted.
Mount(d) ==
    /\ MountIs(d, "unmounted")
    /\ mounts < MaxMounts
    /\ mounts' = mounts + 1
    /\ MountAt(d, "super")
    /\ causes' = IF \E e \in Devices \ {d} : mount[e].pc # "unmounted"
                 THEN causes \cup {"overlap"} ELSE causes
    /\ UNCHANGED <<image, memory, reader, fault, reads, failures>>

\* The super block is allocated and read, and its magic compared.
ReadSuper(d) ==
    /\ MountIs(d, "super")
    /\ MountAt(d, IF image[d].magic THEN "cache" ELSE "bail")
    /\ UNCHANGED <<image, memory, reader, causes, fault, counters>>

\* An allocation fails, or a read of the device; the root's inode too.
FillSuperFails(d) ==
    /\ \E pc \in {"super", "tables", "inodes", "root"} : MountIs(d, pc)
    /\ Fail
    /\ MountAt(d, "bail")
    /\ UNCHANGED <<image, memory, reader, causes, fault, mounts, reads>>

\* init_blockcache: the pointer is overwritten with what comes, whatever it
\* pointed to.  A second cache of the same name may be refused.
InitBlockCache(d) ==
    /\ MountIs(d, "cache")
    /\ \/ /\ caches' = Append(caches,
                              [size |-> image[d].block_size, live |-> TRUE])
          /\ cachep' = Len(caches')
          /\ mount' = [mount EXCEPT ![d] = [@ EXCEPT !.pc = "compressor",
                                                     !.cache = TRUE]]
          /\ UNCHANGED failures
       \/ /\ \/ Fail
             \/ (\E i \in DOMAIN caches : Live(i)) /\ UNCHANGED failures
          /\ cachep' = NULL
          /\ mount' = [mount EXCEPT ![d] = [@ EXCEPT !.pc = "bail",
                                                     !.cache = TRUE]]
          /\ UNCHANGED caches
    /\ UNCHANGED <<image, context, contexts, reader, causes, fault, mounts,
                   reads>>

\* compressor_create_type: what gzip_create returns, NULL when it fails,
\* replaces the context before.
CreateCompressor(d) ==
    /\ MountIs(d, "compressor")
    /\ IF UsesContext(d)
       THEN contexts' = Append(contexts, NewContext) /\ context' = Len(contexts')
       ELSE UNCHANGED <<contexts, context>>
    /\ mount' = [mount EXCEPT ![d] = [@ EXCEPT !.pc = "tables",
                                               !.compressor = TRUE]]
    /\ UNCHANGED <<image, cachep, caches, reader, causes, fault, counters>>

CreateCompressorFails(d) ==
    /\ MountIs(d, "compressor")
    /\ UsesContext(d)
    /\ Fail
    /\ context' = NULL
    /\ MountAt(d, "bail")
    /\ UNCHANGED <<image, cachep, caches, contexts, reader, causes, fault,
                   mounts, reads>>

\* The two tables are allocated, and a block buffer for the compressed one.
AllocateTables(d) ==
    /\ MountIs(d, "tables")
    /\ Unless(Live(cachep), "dead cache")
    /\ mount' = [mount EXCEPT ![d] = [@ EXCEPT !.pc = "inodes",
                                               !.cbuffer = cachep]]
    /\ UNCHANGED <<image, memory, reader, causes, counters>>

\* The inodes table is read into the block buffer, however long it is, and
\* uncompressed; a reader may be in the same stream.  lzma_uncompress always
\* refuses; xz_uncompress reads through its context, which is NULL since
\* compressors[] has no create for xz.
ReadInodes(d) ==
    /\ MountIs(d, "inodes")
    /\ fault' = IF caches[mount[d].cbuffer].size < image[d].inodes_csize
                THEN "overflow"
                ELSE IF UsesContext(d) /\ ~Alive(context) THEN "dead context"
                ELSE IF image[d].compression = "xz" THEN "null context"
                ELSE "none"
    /\ MountAt(d, IF image[d].compression = "lzma" THEN "bail" ELSE "free")
    /\ contexts' = IF UsesContext(d) THEN Streams(context, NewContext)
                   ELSE contexts
    /\ UNCHANGED <<image, cachep, caches, context, reader, causes, counters>>

\* cbuffer is freed and set to NULL; then the blocks table is read.
FreeBuffer(d) ==
    /\ MountIs(d, "free")
    /\ Unless(CanFree({mount[d].cbuffer}), "wrong cache")
    /\ mount' = [mount EXCEPT ![d] = [@ EXCEPT !.pc = "root", !.cbuffer = NULL]]
    /\ UNCHANGED <<image, memory, reader, causes, counters>>

\* The root's inode and its dentry.
MakeRoot(d) ==
    /\ MountIs(d, "root")
    /\ MountAt(d, "mounted")
    /\ UNCHANGED <<image, memory, reader, causes, fault, counters>>

\* new_inode returns NULL, which is no error pointer and is written through;
\* or d_make_root, which gives the inode up itself, fails and iput does so
\* again.  (d_alloc_root, before Linux 3.4, leaves it to the caller.)
MakeRootFails(d) ==
    /\ MountIs(d, "root")
    /\ Fail
    /\ fault' \in {"null inode", "double iput"}
    /\ UNCHANGED <<image, memory, mount, reader, causes, mounts, reads>>

\* bail: what was allocated is freed, and the block cache destroyed even when
\* this call had not made it yet.
FillSuperBails(d) ==
    /\ MountIs(d, "bail")
    /\ mount' = [mount EXCEPT ![d] = Unmounted]
    /\ contexts' = IF mount[d].compressor THEN ContextDestroyed(d) ELSE contexts
    /\ caches' = Destroyed
    /\ fault' = IF mount[d].compressor /\ ~CanDestroyContext(d)
                THEN "dead context"
                ELSE IF ~CanFree({mount[d].cbuffer}) THEN "wrong cache"
                ELSE DestroyFault(d)
    /\ causes' = IF mount[d].cache THEN causes ELSE causes \cup {"early bail"}
    /\ UNCHANGED <<image, cachep, context, reader, counters>>

\* smashfs_put_super, once no one reads from the image.
PutSuper(d) ==
    /\ MountIs(d, "mounted")
    /\ \A r \in Readers : reader[r].pc # "idle" => reader[r].device # d
    /\ mount' = [mount EXCEPT ![d] = Unmounted]
    /\ contexts' = ContextDestroyed(d)
    /\ caches' = Destroyed
    /\ fault' = IF CanDestroyContext(d) THEN DestroyFault(NoOne)
                ELSE "dead context"
    /\ UNCHANGED <<image, cachep, context, reader, causes, counters>>

-----------------------------------------------------------------------------
(***************************************************************************)
(* node_read of one block, and the uncompress functions                    *)
(***************************************************************************)
\* readpage, readdir or lookup on a mounted image asks for a block; the block
\* is one no other call asks for.
Read(r, d) ==
    /\ ReaderIs(r, "idle")
    /\ mount[d].pc = "mounted"
    /\ reads < MaxReads
    /\ reads' = reads + 1
    /\ reader' = [reader EXCEPT ![r] = [Idle EXCEPT !.pc = "ubuffer",
                      !.device = d, !.block = reads']]
    /\ UNCHANGED <<image, memory, mount, causes, fault, mounts, failures>>

AllocateUbuffer(r) ==
    /\ ReaderIs(r, "ubuffer")
    /\ Unless(Live(cachep), "dead cache")
    /\ reader' = [reader EXCEPT ![r] = [@ EXCEPT !.pc = "cbuffer",
                                                 !.ubuffer = cachep]]
    /\ UNCHANGED <<image, memory, mount, causes, counters>>

AllocateCbuffer(r) ==
    /\ ReaderIs(r, "cbuffer")
    /\ Unless(Live(cachep), "dead cache")
    /\ reader' = [reader EXCEPT ![r] = [@ EXCEPT !.pc = "fill",
                                                 !.cbuffer = cachep]]
    /\ UNCHANGED <<image, memory, mount, causes, counters>>

\* The second allocation fails, and ubuffer is freed there and at bail again.
AllocateCbufferFails(r) ==
    /\ ReaderIs(r, "cbuffer")
    /\ Fail
    /\ causes' = causes \cup {"second allocation"}
    /\ fault' = "double free"
    /\ UNCHANGED <<image, memory, mount, reader, mounts, reads>>

\* The first allocation, block_fill, smashfs_read or an uncompress fails.
NodeReadFails(r) ==
    /\ \E pc \in {"ubuffer", "fill"} : ReaderIs(r, pc)
    /\ Fail
    /\ ReaderAt(r, "bail")
    /\ UNCHANGED <<image, memory, mount, causes, fault, mounts, reads>>

\* block_fill and smashfs_read; none and lzo then uncompress at once, gzip
\* begins: zlib_inflateInit2.
FillBlock(r) ==
    /\ ReaderIs(r, "fill")
    /\ LET d == reader[r].device
           buffers == {reader[r].ubuffer, reader[r].cbuffer}
       IN  /\ Unless(\A b \in buffers : image[d].block_size =< caches[b].size,
                     "overflow")
           /\ IF UsesContext(d) THEN ReaderAt(r, "in")
              ELSE reader' = [reader EXCEPT ![r] =
                      [@ EXCEPT !.pc = "copy", !.data = reader[r].block]]
    /\ UNCHANGED <<image, memory, mount, causes, counters>>

\* Everyone in gzip_uncompress when another reader comes shares the stream.
Sharing(r) ==
    LET inside == {q \in Readers \ {r} : reader[q].pc \in {"out", "inflate"}}
    IN  [q \in Readers |->
            IF inside # {} /\ q \in inside \cup {r}
            THEN [reader[q] EXCEPT !.shared = TRUE] ELSE reader[q]]

\* mutant: the stream is not begun again
BegunNot(r, stream) == [stream EXCEPT !.in = r]

\* next_in = src, of a stream begun again.
Begun(r, stream) == [stream EXCEPT !.in = r, !.ended = FALSE]

\* gzip_uncompress is called with the context there is.
SetInput(r) ==
    /\ ReaderIs(r, "in")
    /\ Unless(Alive(context), "dead context")
    /\ contexts' = IF Alive(context)
                   THEN Streams(context, Begun(r, contexts[context]))
                   ELSE contexts
    /\ reader' = [Sharing(r) EXCEPT ![r] =
                      [@ EXCEPT !.pc = "out", !.context = context]]
    /\ UNCHANGED <<image, cachep, caches, context, mount, causes, counters>>

\* next_out = dst
SetOutput(r) ==
    /\ ReaderIs(r, "out")
    /\ Unless(Alive(reader[r].context), "dead context")
    /\ contexts' = [contexts EXCEPT ![reader[r].context].out = r]
    /\ ReaderAt(r, "inflate")
    /\ UNCHANGED <<image, cachep, caches, context, mount, causes, counters>>

\* zlib_inflate on what the stream points to by now: another's buffer, one
\* that was freed, or a table of fill_super's.  A stream that has ended writes
\* nothing more, and what it answers is not defined.
Inflate(r) ==
    LET stream == contexts[reader[r].context]
        written == stream.out # NoOne /\ reader[stream.out].ubuffer # NULL
    IN
    /\ ReaderIs(r, "inflate")
    /\ contexts' = [contexts EXCEPT ![reader[r].context].ended = TRUE]
    /\ \/ /\ stream.ended
          /\ \E pc \in {"copy", "bail"} : ReaderAt(r, pc)
          /\ Unless(stream.live, "dead context")
       \/ /\ ~stream.ended /\ written
          /\ reader' = [[reader EXCEPT
                            ![stream.out].data = reader[stream.in].block]
                           EXCEPT ![r].pc = "copy"]
          /\ Unless(stream.live, "dead context")
       \/ /\ ~stream.ended /\ ~written
          /\ fault' = IF stream.live THEN "freed buffer" ELSE "dead context"
          /\ UNCHANGED reader
    /\ UNCHANGED <<image, cachep, caches, context, mount, causes, counters>>

\* mutant: the buffer of the compressed block is kept
ReturnedKeeping(r, result) ==
    [Idle EXCEPT !.block = reader[r].block, !.result = result,
                 !.cbuffer = reader[r].cbuffer]

Returned(r, result) ==
    [Idle EXCEPT !.block = reader[r].block, !.result = result,
                 !.shared = reader[r].shared]

\* The buffers are freed, to the cache there is by now.
Return(r, result) ==
    /\ Unless(CanFree({reader[r].ubuffer, reader[r].cbuffer}), "wrong cache")
    /\ reader' = [reader EXCEPT ![r] = Returned(r, result)]
    /\ UNCHANGED <<image, memory, mount, causes, counters>>

\* The block is copied to the page; or -1 is returned.
CopyOut(r) == ReaderIs(r, "copy") /\ Return(r, reader[r].data)
NodeReadBails(r) == ReaderIs(r, "bail") /\ Return(r, EIO)

-----------------------------------------------------------------------------
Next ==
    \/ \E d \in Devices :
          \/ Mount(d)
          \/ ReadSuper(d)
          \/ FillSuperFails(d)
          \/ InitBlockCache(d)
          \/ CreateCompressor(d)
          \/ CreateCompressorFails(d)
          \/ AllocateTables(d)
          \/ ReadInodes(d)
          \/ FreeBuffer(d)
          \/ MakeRoot(d)
          \/ MakeRootFails(d)
          \/ FillSuperBails(d)
          \/ PutSuper(d)
    \/ \E r \in Readers :
          \/ \E d \in Devices : Read(r, d)
          \/ AllocateUbuffer(r)
          \/ AllocateCbuffer(r)
          \/ AllocateCbufferFails(r)
          \/ NodeReadFails(r)
          \/ FillBlock(r)
          \/ SetInput(r)
          \/ SetOutput(r)
          \/ Inflate(r)
          \/ CopyOut(r)
          \/ NodeReadBails(r)

Spec == Init /\ [][Next]_vars

-----------------------------------------------------------------------------
(***************************************************************************)
(* Properties                                                              *)
(***************************************************************************)
\* Nothing happens to memory that is free or another's except in these ways:
\* two mounts at a time share the cache's and the context's pointer, and two
\* readers of gzip blocks the stream; a call of
\* mount that gives up before it made its cache destroys the one before
\* (super.c:1289-1309, 116-121); the second buffer's failure frees the first
\* twice (super.c:486-489); an inodes table is longer than a block
\* (super.c:1232-1238); an xz image has no context (compressor.c:60); and the
\* root's inode has two error paths of its own (super.c:1261-1282).  Every
\* other order of failures, mounts, unmounts and reads is safe.
FaultsNeedCauses ==
    /\ fault = "double free" => "second allocation" \in causes
    /\ fault = "overflow" =>
          \/ "overlap" \in causes
          \/ \E d \in Devices : image[d].inodes_csize > image[d].block_size
    /\ fault = "dead cache" => causes \cap {"overlap", "early bail"} # {}
    /\ fault \in {"busy cache", "wrong cache", "dead context"} =>
          "overlap" \in causes
    /\ fault = "freed buffer" =>
          "overlap" \in causes \/ \E r \in Readers : reader[r].shared
    /\ fault = "null context" => \E d \in Devices : image[d].compression = "xz"
    /\ fault \in {"null inode", "double iput"} => failures > 0

\* However a mount ends, once nothing is mounted the driver holds nothing: as
\* long as no two mounts were there at once, every cache, context and buffer
\* has been given back.
NothingHeld ==
    fault = "none" /\ "overlap" \notin causes
    /\ (\A d \in Devices : mount[d].pc = "unmounted") =>
          /\ \A i \in DOMAIN caches : ~caches[i].live
          /\ \A i \in DOMAIN contexts : ~contexts[i].live
          /\ \A r \in Readers : reader[r].ubuffer = NULL /\
                                 reader[r].cbuffer = NULL

\* A read that succeeds returns the block that was asked for, after any reads,
\* errors and mounts before it, as long as no other reader was in
\* gzip_uncompress meanwhile (or another mount changed the context).
Succeeded(r) == reader[r].pc = "idle" /\ reader[r].result \notin {NoBlock, EIO}
ReadsRightAlone ==
    \A r \in Readers :
        Succeeded(r) /\ ~reader[r].shared /\ "overlap" \notin causes =>
            reader[r].result = reader[r].block

\* README.md:16-22 lists gzip among the compressions supported, of a file
\* system any number of processes read: a read that succeeds returns the block
\* asked for.  With gzip it need not: two readers set up the one z_stream in
\* turns (compressor-gzip.c:57-84).
ReadsRight ==
    \A r \in Readers : Succeeded(r) => reader[r].result = reader[r].block

=============================================================================
