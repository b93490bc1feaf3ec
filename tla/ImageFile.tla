------------------------------- MODULE ImageFile -------------------------------
(***************************************************************************)
(* The image as a file: how output_write (src/src/mkfs/mkfs.c:673-855)     *)
(* compresses the inode table, lays the parts out and writes them, what is *)
(* left when a write fails or the process is killed, and what unfs         *)
(* (src/src/mkfs/unfs.c) and the driver (src/src/linux/super.c) then read. *)
(* What is in the tables is module ImageTables'.                           *)
(*                                                                         *)
(* A byte of a part is known by the image it belongs to and its place      *)
(* there; the super block is one byte.  The output is a file, or a block   *)
(* device, which keeps what it held where nothing was written.             *)
(***************************************************************************)
EXTENDS DeviceRead, Compressors

CONSTANTS NewImages,    \* what mkfs may write: sizes and compression
          Targets,      \* what the output may be before
          Padding,      \* the image is padded to a multiple of it, 4096
          MaxWrite,     \* the most one write takes, 2 ^ 31 - 4096
          MaxKmalloc    \* the most kmalloc gives

ASSUME ImageFileAssumption ==
    /\ {Padding, MaxWrite, MaxKmalloc} \subseteq Nat \ {0}
    /\ MaxWrite < IntEnd
    /\ Padding % DevBlock = 0

VARIABLES image,        \* what mkfs writes
          device,       \* whether the output is a block device
          supers,       \* the super blocks: of mkfs, and of an earlier image
          mkfs,         \* the part that mkfs writes next, or how it ended
          driver        \* the mount, and what it has read

vars == <<file, call, refs, failures, image, device, supers, mkfs, driver>>
made == <<file, image, device, supers, mkfs>>

-----------------------------------------------------------------------------
(***************************************************************************)
(* The layout                                                              *)
(***************************************************************************)
Uint(n) == n % (2 * IntEnd)

\* mutant: the block table is not counted
SuperBlockOverlap(img, csize) ==
    [compression |-> img.compression,
     inodes_offset |-> 1, inodes_size |-> img.inodes, inodes_csize |-> csize,
     blocks_offset |-> Uint(1 + csize), blocks_size |-> img.blocks,
     entries_offset |-> Uint(1 + csize), entries_size |-> Uint(img.length),
     length |-> img.length, table |-> img.table]

\* "setting super block (4/4)"; the length of the contents before it is cut to
\* 32 bits, and the table of their blocks, are kept with it.
SuperBlock(img, csize) ==
    [compression |-> img.compression,
     inodes_offset |-> 1, inodes_size |-> img.inodes, inodes_csize |-> csize,
     blocks_offset |-> Uint(1 + csize), blocks_size |-> img.blocks,
     entries_offset |-> Uint(1 + csize + img.blocks),
     entries_size |-> Uint(img.length),
     length |-> img.length, table |-> img.table]

Parts == {"super", "inodes", "blocks", "entries", "padding"}
Ended == {"done", "failed", "killed", "overrun"}

\* Where a part begins, and how long it is.
Before(sb, part) ==
    CASE part = "super" -> 0
      [] part = "inodes" -> 1
      [] part = "blocks" -> 1 + sb.inodes_csize
      [] part = "entries" -> 1 + sb.inodes_csize + sb.blocks_size
      [] part = "padding" -> 1 + sb.inodes_csize + sb.blocks_size + sb.length

PartSize(sb, part) ==
    CASE part = "super" -> 1
      [] part = "inodes" -> sb.inodes_csize
      [] part = "blocks" -> sb.blocks_size
      [] part = "entries" -> sb.length

Bytes(owner, part, size) ==
    [k \in 1..size |-> [owner |-> owner, part |-> part, at |-> k]]

\* A whole image, without padding.
Whole(owner, sb) ==
    Bytes(owner, "super", 1) \o Bytes(owner, "inodes", sb.inodes_csize) \o
    Bytes(owner, "blocks", sb.blocks_size) \o Bytes(owner, "entries", sb.length)

\* What mkfs comes to write: each block of the table lies in the contents
\* (mkfs.c:569-591), and the image is one that offsets of 32 bits reach the end
\* of, which mkfs does not look at.
Block == [offset : Nat, size : Nat]
ImageOK(img) ==
    /\ img.compression \in Names /\ img.no_padding \in BOOLEAN
    /\ {img.inodes, img.blocks, img.length} \subseteq Nat
    /\ img.table \in Seq(Block)
    /\ \A i \in DOMAIN img.table :
          img.table[i].offset + img.table[i].size =< img.length
    /\ 1 + img.inodes + img.blocks + img.length < 2 * IntEnd

\* What an output may hold already: an image that mkfs wrote, the start of one,
\* or what is none; with anything behind it.
Magic(byte) == byte.part = "super"
Byte == [owner : {"new", "old"}, part : {"super", "inodes", "blocks", "entries"},
         at : Nat]
        \cup [owner : {"none"}, part : {"zero"}, at : Nat]
Honest(bytes, owner, sb) ==
    bytes # <<>> /\ Magic(bytes[1]) =>
        /\ bytes[1].owner = owner
        /\ \A k \in DOMAIN bytes \cap DOMAIN Whole(owner, sb) :
              bytes[k] = Whole(owner, sb)[k]
TargetOK(target) ==
    /\ target.bytes \in Seq(Byte) /\ target.device \in BOOLEAN
    /\ ImageOK(target.image) /\ target.csize \in 0..target.image.inodes
    /\ Honest(target.bytes, "old", SuperBlock(target.image, target.csize))

ASSUME ImagesAssumption ==
    /\ \A img \in NewImages : ImageOK(img)
    /\ \A target \in Targets : TargetOK(target)

\* mutant: --no_padding is taken the other way round
PaddingSizeInverted(total) ==
    IF ~image.no_padding \/ total % Padding = 0 THEN 0
    ELSE Padding - (total % Padding)

PaddingSize(total) ==
    IF image.no_padding \/ total % Padding = 0 THEN 0
    ELSE Padding - (total % Padding)

NoSuper == SuperBlock([compression |-> "none", inodes |-> 0, blocks |-> 0,
                       length |-> 0, table |-> <<>>], 0)

Init ==
    /\ image \in NewImages
    /\ \E target \in Targets :
          /\ file = target.bytes
          /\ device = target.device
          /\ supers = [new |-> NoSuper,
                       old |-> SuperBlock(target.image, target.csize)]
    /\ mkfs = "compress"
    /\ driver = [pc |-> "none", owner |-> "none", tables |-> "right",
                 block |-> 0, answer |-> "none"]
    /\ call = NoCall /\ refs = 0 /\ failures = 0

-----------------------------------------------------------------------------
(***************************************************************************)
(* mkfs                                                                    *)
(***************************************************************************)
MkfsIs(pc) == mkfs = pc
mkfsOnly == <<call, refs, failures, image, device, driver>>

\* The inode table is compressed into twice its size.
CompressInodes ==
    /\ MkfsIs("compress")
    /\ \E r \in compressor_compress(image.compression, image.inodes,
                                    2 * image.inodes) :
          \/ /\ r.written > 2 * image.inodes
             /\ mkfs' = "overrun" /\ UNCHANGED supers
          \/ /\ r.written =< 2 * image.inodes
             /\ r.rc < 0 \/ r.rc > image.inodes
             /\ mkfs' = "failed" /\ UNCHANGED supers
          \/ /\ r.written =< 2 * image.inodes
             /\ r.rc \in 0..image.inodes
             /\ mkfs' = "open"
             /\ supers' = [supers EXCEPT !.new = SuperBlock(image, r.rc)]
    /\ UNCHANGED <<file, mkfsOnly>>

\* mutant: open without O_TRUNC
OpenOutputKeeping ==
    /\ MkfsIs("open")
    /\ mkfs' = "super"
    /\ UNCHANGED <<file, supers, mkfsOnly>>

\* open with O_TRUNC, which a device does not mind.
OpenOutput ==
    /\ MkfsIs("open")
    /\ mkfs' = "super"
    /\ file' = IF device THEN file ELSE <<>>
    /\ UNCHANGED <<supers, mkfsOnly>>

\* A malloc, a buffer_add or the open fails; or the process is killed.
MkfsFails ==
    /\ mkfs \in {"compress", "open"}
    /\ mkfs' \in {"failed", "killed"}
    /\ UNCHANGED <<file, supers, mkfsOnly>>

\* The bytes that the write of a part is given, and the place they go to.
Total(part) == Before(supers.new, part)
Data(part) ==
    IF part = "padding" THEN Bytes("none", "zero", PaddingSize(Total(part)))
    ELSE Bytes("new", part, PartSize(supers.new, part))

\* The file with n of these bytes written at a place.
Written(at, bytes, n) ==
    [k \in 1..(IF at + n > Len(file) THEN at + n ELSE Len(file)) |->
        IF k \in (at + 1)..(at + n) THEN bytes[k - at] ELSE file[k]]

\* Room for n bytes from a place on: a device does not grow.
Room(at, n) == n =< MaxWrite /\ (device => at + n =< Len(file))

NextPart ==
    [super |-> "inodes", inodes |-> "blocks", blocks |-> "entries",
     entries |-> "padding", padding |-> "done"]

WritePart(part) ==
    /\ MkfsIs(part)
    /\ Room(Total(part), Len(Data(part)))
    /\ file' = Written(Total(part), Data(part), Len(Data(part)))
    /\ mkfs' = NextPart[part]
    /\ UNCHANGED <<supers, mkfsOnly>>

\* The write comes back short or with an error, which mkfs gives up on, or the
\* process is killed in it: what was written stays.
WriteShort(part) ==
    /\ MkfsIs(part)
    /\ \E n \in 0..(Len(Data(part)) - 1) :
          /\ Room(Total(part), n)
          /\ file' = Written(Total(part), Data(part), n)
    /\ mkfs' \in {"failed", "killed"}
    /\ UNCHANGED <<supers, mkfsOnly>>

-----------------------------------------------------------------------------
(***************************************************************************)
(* The driver: fill_super's reads, and node_read's of one block            *)
(***************************************************************************)
DriverIs(pc) == driver.pc = pc
Super == supers[driver.owner]
Refuse == driver' = [driver EXCEPT !.pc = "refused"] /\ call' = NoCall

\* Whether the call returned these bytes of a part.
Returned == CallIs("return") /\ call.rc = call.length
IsPart(part, from) ==
    call.buffer = [k \in 1..call.length |->
                      [owner |-> driver.owner, part |-> part, at |-> from + k]]

Mount ==
    /\ DriverIs("none")
    /\ mkfs \in Ended
    /\ driver' = [driver EXCEPT !.pc = "super"]
    /\ Call(0, 1)
    /\ UNCHANGED <<made, refs, failures>>

\* The super block has been read; the tables are allocated, and the inode
\* table is read.
ReadSuper ==
    /\ DriverIs("super")
    /\ CallIs("return")
    /\ IF Returned /\ Magic(call.buffer[1])
       THEN LET sb == supers[call.buffer[1].owner] IN
            IF sb.inodes_size > MaxKmalloc \/ sb.blocks_size > MaxKmalloc
            THEN Refuse
            ELSE /\ driver' = [driver EXCEPT !.pc = "inodes",
                                             !.owner = call.buffer[1].owner]
                 /\ Call(sb.inodes_offset, sb.inodes_csize)
       ELSE Refuse
    /\ UNCHANGED <<made, refs, failures>>

\* The inode table is uncompressed, and the block table read.
ReadInodes ==
    /\ DriverIs("inodes")
    /\ CallIs("return")
    /\ IF Returned
       THEN \E outcome \in driver_uncompress(Super.compression,
                                             IsPart("inodes", 0)) :
            CASE outcome = "fails" -> Refuse
              [] outcome = "crashes" ->
                    /\ driver' = [driver EXCEPT !.pc = "crashed"]
                    /\ call' = NoCall
              [] OTHER ->
                    /\ driver' = [driver EXCEPT !.pc = "blocks",
                                                !.tables = outcome]
                    /\ Call(Super.blocks_offset, Super.blocks_size)
       ELSE Refuse
    /\ UNCHANGED <<made, refs, failures>>

ReadBlocksTable ==
    /\ DriverIs("blocks")
    /\ CallIs("return")
    /\ IF Returned
       THEN /\ driver' = [driver EXCEPT !.pc = "mounted",
                  !.tables = IF IsPart("blocks", 0) THEN @ ELSE "wrong"]
            /\ call' = NoCall
       ELSE Refuse
    /\ UNCHANGED <<made, refs, failures>>

\* An allocation of fill_super's own fails.
MountFails ==
    /\ driver.pc \in {"super", "inodes"}
    /\ CallIs("return")
    /\ Fail
    /\ Refuse
    /\ UNCHANGED <<made, refs>>

\* node_read asks for a block: by the block table, whose offset is added to
\* the offset of the entries.  With tables that are wrong a read is wrong
\* already, and is left out.
BlockOffset(b) == Super.table[b].offset

ReadBlock ==
    /\ DriverIs("mounted")
    /\ driver.tables = "right"
    /\ \E b \in DOMAIN Super.table :
          /\ driver' = [driver EXCEPT !.pc = "block", !.block = b,
                                      !.answer = "none"]
          /\ Call(Super.entries_offset + BlockOffset(b), Super.table[b].size)
    /\ UNCHANGED <<made, refs, failures>>

BlockRead ==
    /\ DriverIs("block")
    /\ CallIs("return")
    /\ \E outcome \in IF Returned
                      THEN driver_uncompress(Super.compression,
                               IsPart("entries", BlockOffset(driver.block)))
                      ELSE {"fails"} :
          driver' = [driver EXCEPT !.pc = "mounted", !.answer = outcome]
    /\ call' = NoCall
    /\ UNCHANGED <<made, refs, failures>>

-----------------------------------------------------------------------------
Next ==
    \/ CompressInodes
    \/ OpenOutput
    \/ MkfsFails
    \/ \E part \in Parts : WritePart(part) \/ WriteShort(part)
    \/ Mount
    \/ ReadSuper
    \/ ReadInodes
    \/ ReadBlocksTable
    \/ MountFails
    \/ ReadBlock
    \/ BlockRead
    \/ smashfs_read /\ UNCHANGED <<image, device, supers, mkfs, driver>>

Spec == Init /\ [][Next]_vars

-----------------------------------------------------------------------------
(***************************************************************************)
(* unfs: opening an image, with no call that fails                         *)
(***************************************************************************)
\* read, until the size is there or the file ends.
CanRead(offset, size) == offset + size =< Len(file)
IsThere(owner, part, offset, size) ==
    SubSeq(file, offset + 1, offset + size) = Bytes(owner, part, size)

\* The super block and three tables, and the contents uncompressed: of what is
\* not the image's own, an error or something else.
UnfsOutcomes ==
    IF file = <<>> \/ ~Magic(Head(file)) THEN {"fails"}
    ELSE LET owner == Head(file).owner
             sb == supers[owner]
             all == {<<"inodes", sb.inodes_offset, sb.inodes_csize>>,
                     <<"blocks", sb.blocks_offset, sb.blocks_size>>,
                     <<"entries", sb.entries_offset, sb.entries_size>>}
         IN  IF \E p \in all : ~CanRead(p[2], p[3]) THEN {"fails"}
             ELSE uncompress(sb.compression,
                      \A p \in all : IsThere(owner, p[1], p[2], p[3]))

-----------------------------------------------------------------------------
(***************************************************************************)
(* Properties                                                              *)
(***************************************************************************)
\* From a file, whatever became of the mkfs that wrote it, nothing is read but
\* what that mkfs put there: a mount, a read and unfs give that or fail.  Only
\* a device, written over by an mkfs that failed or was killed
\* (mkfs.c:779-822), gives the new tables' idea of what was there before.
FileNeverLies ==
    driver.tables = "wrong" \/ driver.answer = "wrong" \/
    (mkfs \in Ended /\ "wrong" \in UnfsOutcomes) =>
        device /\ mkfs \in {"failed", "killed"}

\* When mkfs exits with 0 the whole image is there, and unfs reads it, with
\* any compression, with padding and without, and beyond 2 GiB.
SuccessIsWhole ==
    MkfsIs("done") =>
        /\ UnfsOutcomes = {"right"}
        /\ SubSeq(file, 1, Len(Whole("new", supers.new)))
              = Whole("new", supers.new)

\* A mount or a read of an image that mkfs has finished fails only for a
\* reason: the system's failure; a compression the driver has no working
\* function for (compressor-lzma.c:24-32, compressor.c:60); a part that starts
\* beyond what an int counts (super.c:348); a table larger than kmalloc gives;
\* or no padding, so that the end of the file is no whole block.
Beyond(offset) == offset >= IntEnd
FailuresExplained ==
    MkfsIs("done") /\ (driver.pc \in {"refused", "crashed"} \/
                       driver.answer \in {"fails", "crashes"}) =>
        LET sb == supers.new IN
        \/ failures > 0
        \/ sb.compression \in {"lzma", "xz"}
        \/ Beyond(sb.inodes_offset) \/ Beyond(sb.blocks_offset)
        \/ driver.block > 0 /\
           Beyond(sb.entries_offset + BlockOffset(driver.block))
        \/ sb.inodes_size > MaxKmalloc \/ sb.blocks_size > MaxKmalloc
        \/ image.no_padding /\ Len(file) % DevBlock # 0

\* Nothing is written beyond the buffer a table is compressed into but by
\* lzo_compress, which does not look at the buffer's size, for a table so
\* small that twice its size is not room enough (compressor-lzo.c:25-45).
OverrunOnlyLzo ==
    MkfsIs("overrun") => image.compression = "lzo" /\ image.inodes < LzoExtra
=============================================================================
