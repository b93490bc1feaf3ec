----------------------------- MODULE ImageTables -----------------------------
(***************************************************************************)
(* How output_write (src/src/mkfs/mkfs.c) turns the node table into the    *)
(* tables of the image, and how the driver (src/src/linux/super.c) and     *)
(* unfs.smashfs (src/src/mkfs/unfs.c) read nodes, blocks and contents back *)
(* out of them.  The passes of output_write are the actions; the readers   *)
(* are operators on the finished image.                                    *)
(*                                                                         *)
(* Content byte i of node n is the pair <<n, i>>.  What the compression    *)
(* jobs return is module CompressPool's; here a block's compressed form is *)
(* known by its place and length.                                          *)
(***************************************************************************)
EXTENDS BitBuffer, FiniteSets, SequencesExt, FiniteSetsExt

CONSTANTS NodeTables,   \* the node tables, each in the order of the numbers
          Disabled,     \* sets of inode fields that --no_ options disable
          BlockSizes,   \* the sizes --block_size may ask for
          CompressedSizes, \* what blocks may be compressed to, if that is
                        \* less than their own size
          MinBlockLog2, \* 12 and 20: a block size is at least 2 ^ 12 and at
          MaxBlockLog2  \* most 2 ^ 20, whatever was asked for

\* blog knows 64 widths; a word holds a byte, and the largest block size.
ASSUME BlockSizesAssumption ==
    /\ BlockSizes \subseteq Nat
    /\ CompressedSizes \subseteq Nat \ {0}
    /\ WordBits \in 8..64
    /\ MaxBlockLog2 \in Nat /\ MaxBlockLog2 < WordBits
    /\ MinBlockLog2 \in 0..MaxBlockLog2

\* The fields of an inode, in the order they are written and read.
FieldOrder == <<"type", "owner_mode", "group_mode", "other_mode", "uid", "gid",
                "ctime", "mtime", "size", "block", "index">>
Fields == ToSet(FieldOrder)
PlacedFields == {"size", "block", "index"}    \* known after the second pass
DirectoryFields == {"parent", "nentries", "number", "length", "entry_type"}

\* Those that a --no_ option is there for.
OptionalFields == {"group_mode", "other_mode", "uid", "gid", "ctime", "mtime"}

ASSUME DisabledAssumption == Disabled \subseteq SUBSET OptionalFields

Regular == 1          \* smashfs_inode_type_regular_file and so on
Directory == 2
SymbolicLink == 3

Word == 0..WordSize - 1

Nodes ==
    [number : Nat, type : {Regular, Directory, SymbolicLink}, ntype : 1..4,
     owner_mode : Word, group_mode : Word, other_mode : Word,
     uid : Word, gid : Word, ctime : Word, mtime : Word,
     length : Nat, parent : Nat,
     entries : Seq([number : Nat, length : Nat, type : Nat]),
     size : Word, block : Word, index : Word]

\* ntype is 1 for ELF files, 2 for other regular files, 3 for directories and
\* 4 for symbolic links.
ASSUME NodesAssumption ==
    \A table \in NodeTables :
        /\ table \in Seq(Nodes)
        /\ \A i \in DOMAIN table :
              /\ table[i].number = i - 1
              /\ table[i].type = Regular <=> table[i].ntype < 3
              /\ table[i].type = Directory <=> table[i].ntype = 3

VARIABLES phase,        \* where output_write is
          disabled,     \* the fields disabled by options
          nodes,        \* nodes_table, in the order HASH_ITER goes
          super,        \* the super block
          entry_buffer, \* the contents of all nodes
          blocks,       \* the blocks array
          bitbuffer,    \* the table that is being filled
          next,         \* the row of it that comes next
          block_buffer, \* the block table
          inode_buffer  \* the inode table

tables == <<bitbuffer, next, block_buffer, inode_buffer>>
vars == <<phase, disabled, nodes, super, entry_buffer, blocks, tables>>

NodeAt(n) == nodes[CHOOSE i \in DOMAIN nodes : nodes[i].number = n]

NoWidths == [f \in Fields |-> 0]

Larger(a, b) == IF a > b THEN a ELSE b
Smaller(a, b) == IF a < b THEN a ELSE b

\* The block size an option asks for, brought into range.
Clamped(size) == Larger(Smaller(size, Pow2[MaxBlockLog2]), Pow2[MinBlockLog2])

\* mutant: the logarithm is rounded down
slogFloor(block) == Max({i \in 0..MaxBlockLog2 : Pow2[i] =< block})

\* The logarithm of a power of two, and 0 for any other size.
slog(block) ==
    LET logs == {i \in MinBlockLog2..MaxBlockLog2 : block = Pow2[i]}
    IN  IF logs = {} THEN 0 ELSE Max(logs)

Init ==
    /\ phase = "widths 1"
    /\ disabled \in Disabled
    /\ nodes \in NodeTables
    /\ \E option \in BlockSizes :
       super = [block_size |-> Clamped(option),
                block_log2 |-> slog(Clamped(option)),
                blocks |-> 0, bits |-> NoWidths,
                dirbits |-> [f \in DirectoryFields |-> 0],
                blockbits |-> [offset |-> 0, compressed_size |-> 0, size |-> 0],
                ctime |-> 0,
                min |-> [ctime |-> 0, mtime |-> 0, compressed_size |-> 0]]
    /\ entry_buffer = <<>>
    /\ blocks = <<>>
    /\ bitbuffer = bitbuffer_init(0)
    /\ next = 1
    /\ block_buffer = <<>>
    /\ inode_buffer = <<>>

-----------------------------------------------------------------------------
(***************************************************************************)
(* Helpers of output_write.                                                *)
(***************************************************************************)
\* MAX over a set of numbers, from the -1 it starts at.
MaxOf(S) == Max(S \cup {-1})

\* The width of a field whose largest value is number; 0 if nothing is.
blog(number) ==
    IF number < 0 THEN 0
    ELSE CHOOSE i \in 1..64 : /\ i < 64 => number < Pow2[i]
                              /\ \A k \in 1..(i - 1) : number >= Pow2[k]

\* min_inode_ctime and min_inode_mtime as the first pass computes them: the
\* minimum of the running maxima.
RunningMin(f) ==
    LET pass[k \in 0..Len(nodes)] ==
            IF k = 0 THEN [max |-> -1, min |-> WordSize - 1]
            ELSE LET max == Larger(pass[k - 1].max, nodes[k][f])
                 IN  [max |-> max, min |-> Smaller(max, pass[k - 1].min)]
    IN  pass[Len(nodes)].min

Directories(table) == {i \in DOMAIN table : table[i].type = Directory}
Entries(table) == UNION {ToSet(table[i].entries) : i \in Directories(table)}

\* The largest value of an inode field, -1 where an option disables it.
LargestField(f) ==
    IF f \in disabled THEN -1 ELSE MaxOf({nodes[i][f] : i \in DOMAIN nodes})

\* The widths of a directory's fields.
DirectoryWidths(table) ==
    [f \in DirectoryFields |->
        blog(CASE f = "parent" ->
                     MaxOf({table[i].parent : i \in Directories(table)})
               [] f = "nentries" ->
                     MaxOf({Len(table[i].entries) : i \in Directories(table)})
               [] f = "number" -> MaxOf({e.number : e \in Entries(table)})
               [] f = "length" -> MaxOf({e.length : e \in Entries(table)})
               [] f = "entry_type" -> MaxOf({e.type : e \in Entries(table)}))]

\* The first pass over the nodes and "setting super block (1/4)".
Widths1 ==
    /\ phase = "widths 1"
    /\ phase' = "sort"
    /\ LET min == [ctime |-> RunningMin("ctime"), mtime |-> RunningMin("mtime")]
       IN  super' = [super EXCEPT
              !.bits = [f \in Fields |->
                           IF f \in PlacedFields THEN 0
                           ELSE IF f \in {"ctime", "mtime"}
                           THEN blog(LargestField(f) - min[f])
                           ELSE blog(LargestField(f))],
              !.dirbits = DirectoryWidths(nodes),
              !.min.ctime = min.ctime,
              !.min.mtime = min.mtime]
    /\ UNCHANGED <<disabled, nodes, entry_buffer, blocks, tables>>

\* mutant: the nodes are left in the order of their numbers
SortByTypeNot ==
    /\ phase = "sort"
    /\ phase' = "fill"
    /\ UNCHANGED <<disabled, nodes, super, entry_buffer, blocks, tables>>

\* HASH_SRT by nodes_sort_by_type: ELF files, other regular files,
\* directories, symbolic links.  Among regular files the order is by suffix
\* where both have one, which is not an order at all: any is allowed for.
SortByType ==
    /\ phase = "sort"
    /\ phase' = "fill"
    /\ \E order \in [DOMAIN nodes -> DOMAIN nodes] :
          /\ \A i, k \in DOMAIN nodes : i # k => order[i] # order[k]
          /\ \A i, k \in DOMAIN nodes :
                i < k => nodes[order[i]].ntype =< nodes[order[k]].ntype
          /\ nodes' = [i \in DOMAIN nodes |-> nodes[order[i]]]
    /\ UNCHANGED <<disabled, super, entry_buffer, blocks, tables>>

\* The bytes a directory takes, with fields of the widths d: its header and,
\* for each entry, a header and the name.
DirectorySize(d, node) ==
    LET entry(e) == Bytes(d.number + d.length + d.entry_type) + e.length
    IN  Bytes(d.parent + d.nentries)
        + Total([i \in DOMAIN node.entries |-> entry(node.entries[i])])

\* A symbolic link is stored with its NUL.
ContentSize(d, node) ==
    IF node.type = Regular THEN node.length
    ELSE IF node.type = Directory THEN DirectorySize(d, node)
    ELSE node.length + 1

\* The bytes of the contents of a table's nodes.
Contents(table) ==
    UNION {{table[i].number} \X (1..ContentSize(DirectoryWidths(table), table[i])) :
              i \in DOMAIN table}

\* The contents are less than 4 GiB: the format keeps every place and size in
\* an unsigned int (smashfs.h:61-112).  mkfs does not look at it, and of larger
\* contents the tables would hold the low bits.
ASSUME ContentsAssumption ==
    \A table \in NodeTables : Cardinality(Contents(table)) < WordSize

\* The node with the place of its content, which starts at offset.
Placed(node, offset) ==
    [node EXCEPT !.size = ContentSize(super.dirbits, node),
                 !.block = offset \div Pow2[super.block_log2],
                 !.index = offset % Pow2[super.block_log2]]

\* "filling entry blocks": the contents follow one another.
FillEntries ==
    /\ phase = "fill"
    /\ phase' = "widths 2"
    /\ LET sizes == [i \in DOMAIN nodes |-> ContentSize(super.dirbits, nodes[i])]
           ends == Sums(sizes)
           owner(p) == CHOOSE i \in DOMAIN nodes : ends[i - 1] < p /\ p =< ends[i]
       IN  /\ nodes' = [i \in DOMAIN nodes |-> Placed(nodes[i], ends[i - 1])]
           /\ entry_buffer' = [p \in 1..Total(sizes) |->
                 <<nodes[owner(p)].number, p - ends[owner(p) - 1]>>]
    /\ UNCHANGED <<disabled, super, blocks, tables>>

\* The second pass and "setting super block (2/4)".
Widths2 ==
    /\ phase = "widths 2"
    /\ phase' = "compress"
    /\ super' = [super EXCEPT
          !.bits = [f \in Fields |-> IF f \in PlacedFields
                                     THEN blog(LargestField(f)) ELSE @[f]],
          !.blocks = (Len(entry_buffer) + super.block_size - 1)
                     \div Pow2[super.block_log2]]
    /\ UNCHANGED <<disabled, nodes, entry_buffer, blocks, tables>>

\* What is left for block b of the contents, a block's size at most: less
\* than nothing for a block beyond them.
BlockBytes(b) ==
    Smaller(super.block_size, Len(entry_buffer) - super.block_size * (b - 1))

\* The blocks as the jobs and the gathering loop leave them: each one
\* compressed to any size that is not more than its own, one after the other.
Compress ==
    /\ phase = "compress"
    /\ \A b \in 1..super.blocks : BlockBytes(b) >= 0
    /\ phase' = "widths 3"
    /\ \E limit \in [1..super.blocks -> CompressedSizes] :
          LET csize == [b \in 1..super.blocks |->
                           Smaller(limit[b], BlockBytes(b))]
          IN  blocks' = [b \in 1..super.blocks |->
                     [offset |-> Sums(csize)[b - 1],
                      size |-> BlockBytes(b),
                      compressed_size |-> csize[b]]]
    /\ UNCHANGED <<disabled, nodes, super, entry_buffer, tables>>

\* A block beyond the contents asks malloc for more memory than there can be.
CompressRefused ==
    /\ phase = "compress"
    /\ \E b \in 1..super.blocks : BlockBytes(b) < 0
    /\ phase' = "failed"
    /\ UNCHANGED <<disabled, nodes, super, entry_buffer, blocks, tables>>

\* A row of a table is a sequence of widths and values, put in that order.
PutRow(bb, row) ==
    LET put[k \in 0..Len(row)] ==
            IF k = 0 THEN bb
            ELSE bitbuffer_putbits(put[k - 1], row[k].width, row[k].value)
    IN  put[Len(row)]

\* The third pass and "setting super block (3/4)": the widths of the block
\* table, and the bit buffer for it.
Widths3 ==
    /\ phase = "widths 3"
    /\ super.blocks > 0
    /\ phase' = "block table"
    /\ next' = 1
    /\ LET offsets == {blocks[b].offset : b \in DOMAIN blocks}
           csizes == {blocks[b].compressed_size : b \in DOMAIN blocks}
           bits == [offset |-> blog(Max(offsets)),
                    compressed_size |-> blog(Max(csizes) - Min(csizes)),
                    size |-> blog(blocks[super.blocks].size)]
       IN  /\ super' = [super EXCEPT !.blockbits = bits,
                                     !.min.compressed_size = Min(csizes)]
           /\ bitbuffer' = bitbuffer_init(Bytes(
                 super.blocks * (bits.offset + bits.compressed_size)
                 + bits.size))
    /\ UNCHANGED <<disabled, nodes, entry_buffer, blocks, block_buffer,
                   inode_buffer>>

\* The row of a block: its offset and, above their minimum, compressed size.
BlockRow ==
    /\ phase = "block table"
    /\ next =< super.blocks
    /\ next' = next + 1
    /\ LET bits == super.blockbits
           csize == blocks[next].compressed_size
       IN  bitbuffer' = PutRow(bitbuffer,
              <<[width |-> bits.offset, value |-> blocks[next].offset],
                [width |-> bits.compressed_size,
                 value |-> csize - super.min.compressed_size]>>)
    /\ UNCHANGED <<phase, disabled, nodes, super, entry_buffer, blocks,
                   block_buffer, inode_buffer>>

\* The size of the last block ends the block table.
LastBlockSize ==
    /\ phase = "block table"
    /\ next > super.blocks
    /\ phase' = "inodes"
    /\ block_buffer' = bitbuffer_putbits(bitbuffer, super.blockbits.size,
                                         blocks[super.blocks].size).buffer
    /\ UNCHANGED <<disabled, nodes, super, entry_buffer, blocks, bitbuffer,
                   next, inode_buffer>>

\* No content at all: blocks[b - 1] is read with b = 0.
NoBlocks ==
    /\ phase = "widths 3"
    /\ super.blocks = 0
    /\ phase' = "crashed"
    /\ UNCHANGED <<disabled, nodes, super, entry_buffer, blocks, tables>>

\* What is put for a field: the times are relative to their minimum.
Stored(node, f) ==
    IF f \in {"ctime", "mtime"} THEN node[f] - super.min[f] ELSE node[f]

InodeWidths == [k \in DOMAIN FieldOrder |-> super.bits[FieldOrder[k]]]

\* The bit buffer for a row of fields for each node.
NewInodeTable == bitbuffer_init(Bytes(Len(nodes) * Total(InodeWidths)))

\* mutant: the inode table is written in the order of the types
InodeTableUnsorted ==
    /\ phase = "inodes"
    /\ phase' = "inode table"
    /\ next' = 1
    /\ bitbuffer' = NewInodeTable
    /\ UNCHANGED <<disabled, nodes, super, entry_buffer, blocks, block_buffer,
                   inode_buffer>>

\* HASH_SRT by nodes_sort_by_number, and the bit buffer for the inode table.
InodeTable ==
    /\ phase = "inodes"
    /\ phase' = "inode table"
    /\ next' = 1
    /\ nodes' = [i \in DOMAIN nodes |-> NodeAt(i - 1)]
    /\ bitbuffer' = NewInodeTable
    /\ UNCHANGED <<disabled, super, entry_buffer, blocks, block_buffer,
                   inode_buffer>>

\* The fields of the next node are put.
InodeRow ==
    /\ phase = "inode table"
    /\ next =< Len(nodes)
    /\ next' = next + 1
    /\ bitbuffer' = PutRow(bitbuffer,
           [k \in DOMAIN FieldOrder |->
               [width |-> InodeWidths[k],
                value |-> Stored(nodes[next], FieldOrder[k])]])
    /\ UNCHANGED <<phase, disabled, nodes, super, entry_buffer, blocks,
                   block_buffer, inode_buffer>>

\* The tables are complete and are written with the super block.
Write ==
    /\ phase = "inode table"
    /\ next > Len(nodes)
    /\ phase' = "written"
    /\ inode_buffer' = bitbuffer.buffer
    /\ UNCHANGED <<disabled, nodes, super, entry_buffer, blocks, block_buffer,
                   bitbuffer, next>>

\* A malloc, a bitbuffer_init, a buffer_add, the compression of the inode table
\* or a write fails: goto bail.
Bail ==
    /\ phase \in {"fill", "compress", "widths 3", "block table", "inodes",
                  "inode table"}
    /\ phase' = "failed"
    /\ UNCHANGED <<disabled, nodes, super, entry_buffer, blocks, tables>>

Next ==
    \/ Widths1
    \/ SortByType
    \/ FillEntries
    \/ Widths2
    \/ Compress
    \/ CompressRefused
    \/ Widths3
    \/ BlockRow
    \/ LastBlockSize
    \/ NoBlocks
    \/ InodeTable
    \/ InodeRow
    \/ Write
    \/ Bail

Spec == Init /\ [][Next]_vars

-----------------------------------------------------------------------------
(***************************************************************************)
(* The readers.                                                            *)
(***************************************************************************)

\* node_fill: node number's row, with a default for each disabled field.
\* The driver adds the minima to the times; unfs does not use them.
node_fill(number) ==
    LET bits == super.bits
        at(k) == number * Total(InodeWidths) + Sums(InodeWidths)[k - 1]
        raw == [f \in Fields |->
                  LET k == CHOOSE k \in DOMAIN FieldOrder : FieldOrder[k] = f
                  IN  bitbuffer_getbits(
                         bitbuffer_setpos(
                            bitbuffer_init_from_buffer(inode_buffer), at(k)),
                         bits[f]).value]
        ctime == IF bits.ctime = 0 THEN super.ctime ELSE raw.ctime
        mtime == IF bits.mtime = 0 THEN ctime ELSE raw.mtime
        or_owner(f) == IF bits[f] = 0 THEN raw.owner_mode ELSE raw[f]
        or_zero(f) == IF bits[f] = 0 THEN 0 ELSE raw[f]
    IN  [raw EXCEPT !.group_mode = or_owner("group_mode"),
                    !.other_mode = or_owner("other_mode"),
                    !.uid = or_zero("uid"),
                    !.gid = or_zero("gid"),
                    !.ctime = ctime + super.min.ctime,
                    !.mtime = mtime + super.min.mtime]

\* block_fill: the row of block number, counted from 0; only the last block
\* has its size in the table.
block_fill(number) ==
    LET bits == super.blockbits
        at == number * (bits.offset + bits.compressed_size)
        get(pos, width) ==
            bitbuffer_getbits(bitbuffer_setpos(
                bitbuffer_init_from_buffer(block_buffer), pos), width).value
    IN  [offset |-> get(at, bits.offset),
         compressed_size |-> get(at + bits.offset, bits.compressed_size)
                             + super.min.compressed_size,
         size |-> IF number + 1 < super.blocks THEN super.block_size
                  ELSE get(at + bits.offset + bits.compressed_size, bits.size)]

\* What uncompressing size bytes from a place in the entries gives: a block's
\* content, if a block of that length is there; <<>> is an error.
Uncompressed(block) ==
    LET there == {b \in DOMAIN blocks :
                    /\ blocks[b].offset = block.offset
                    /\ blocks[b].compressed_size = block.compressed_size
                    /\ blocks[b].size = block.size}
    IN  IF there = {} THEN <<>>
        ELSE LET b == CHOOSE b \in there : TRUE
             IN  SubSeq(entry_buffer, super.block_size * (b - 1) + 1,
                        super.block_size * (b - 1) + block.size)

\* mutant: the offset in the first block is kept for the next ones
NodeReadStepKeepsIndex(s, size) ==
    IF s.failed \/ Len(s.bytes) >= size THEN s
    ELSE LET block == block_fill(s.b)
             content == Uncompressed(block)
             l == Smaller(size - Len(s.bytes), block.size - s.i)
         IN  IF content = <<>> \/ l < 1 THEN [s EXCEPT !.failed = TRUE]
             ELSE [s EXCEPT !.bytes = @ \o SubSeq(content, s.i + 1, s.i + l),
                            !.b = @ + 1]

\* One turn of node_read's loop: what is wanted of block s.b, from s.i on.
NodeReadStep(s, size) ==
    IF s.failed \/ Len(s.bytes) >= size THEN s
    ELSE LET block == block_fill(s.b)
             content == Uncompressed(block)
             l == Smaller(size - Len(s.bytes), block.size - s.i)
         IN  IF content = <<>> \/ l < 1 THEN [s EXCEPT !.failed = TRUE]
             ELSE [s EXCEPT !.bytes = @ \o SubSeq(content, s.i + 1, s.i + l),
                            !.b = @ + 1,
                            !.i = 0]

\* The loop from byte i of block b on, until size bytes are there.
NodeReadFrom(b, i, size) ==
    LET turn[k \in 0..(size + 1)] ==
            IF k = 0 THEN [bytes |-> <<>>, b |-> b, i |-> i, failed |-> FALSE]
            ELSE NodeReadStep(turn[k - 1], size)
    IN  turn[size + 1]

\* node_read of the driver: size bytes of a node's content from offset on.
node_read(node, offset, size) ==
    LET o == offset + node.index + node.block * super.block_size
    IN  NodeReadFrom(o \div Pow2[super.block_log2],
                     o % Pow2[super.block_log2], size)

\* node_read of unfs: the whole content, from the place in the inode table.
unfs_node_read(node) == NodeReadFrom(node.block, node.index, node.size)

-----------------------------------------------------------------------------
(***************************************************************************)
(* Properties                                                              *)
(***************************************************************************)
Written == phase = "written"

\* A reader finds in row n of the inode table what node n was: its type,
\* modes, owner and place; a disabled mode reads as the owner's, a disabled
\* owner as 0.  No field spills into the next, at any width.  The times that
\* are stored are right as long as no node is older than node 0, the root,
\* whose time the first pass takes for the smallest (mkfs.c:346-349).
FieldsReadBack ==
    Written => \A i \in DOMAIN nodes :
        LET node == nodes[i]
            read == node_fill(node.number)
        IN  /\ \A f \in {"type", "owner_mode"} \cup PlacedFields :
                  read[f] = node[f]
            /\ \A f \in {"group_mode", "other_mode"} :
                  read[f] = IF f \in disabled THEN node.owner_mode ELSE node[f]
            /\ \A f \in {"uid", "gid"} :
                  read[f] = IF f \in disabled THEN 0 ELSE node[f]
            /\ \A f \in {"ctime", "mtime"} \ disabled :
                  (\A k \in DOMAIN nodes : nodes[k][f] >= NodeAt(0)[f]) =>
                      read[f] = node[f]

\* The block size of an image is the power of two its block_log2 says, which
\* the driver shifts by, although main only brings the option into range
\* (mkfs.c:1267-1271): of any other size mkfs counts more blocks than there is
\* content for, and gives up on the first one beyond it.
BlockSizeIsShift ==
    Written => super.block_size = Pow2[super.block_log2]

\* Any part of any node's content, across however many blocks of whatever
\* compressed sizes, is read by the driver as the bytes that part holds, and no
\* others; unfs reads the whole content so.
ContentReadBack ==
    Written => \A i \in DOMAIN nodes :
        LET node == node_fill(nodes[i].number)
            bytes(offset, size) ==
                [k \in 1..size |-> <<nodes[i].number, offset + k>>]
            whole == unfs_node_read(node)
        IN
        /\ ~whole.failed /\ whole.bytes = bytes(0, node.size)
        /\ \A offset \in 0..node.size : \A size \in 0..(node.size - offset) :
            LET read == node_read(node, offset, size)
            IN  ~read.failed /\ read.bytes = bytes(offset, size)

\* The block a node starts in is one of the image's, even for an empty file
\* at the very end of the files: a directory comes after it.  (unfs looks the
\* block of every file up, an empty one's too.)
BlocksInRange ==
    Written /\ Directories(nodes) # {} =>
        \A i \in DOMAIN nodes : node_fill(nodes[i].number).block < super.blocks

\* The nodes table holds the information about the items (README.md): what is
\* not disabled, the times too, is what the source had.
TimesReadBack ==
    Written => \A f \in {"ctime", "mtime"} \ disabled :
        \A i \in DOMAIN nodes : node_fill(i - 1)[f] = NodeAt(i - 1)[f]
=============================================================================
