# smashfs: a verification project

smashfs is a read-only compressed file system for Linux. `mkfs.smashfs` scans a
source directory, lays its contents out in blocks, compresses the blocks with
several threads and writes an image; the kernel driver mounts such an image and
serves lookups, directory listings and reads; `unfs.smashfs` extracts an image.
This directory holds TLA+ models of these three programs, the configurations
that check them with TLC, and proofs that TLAPS checks. `PROJECT.json` maps each
definition to the lines it models and lists the runs, hazards and theorems.

Paths below are short: `mkfs.c`, `unfs.c`, `bitbuffer.c` and `buffer.c` are under
`src/src/mkfs/`, `super.c` under `src/src/linux/`; `compressor*.c` are in both.

## Inventory

### mkfs: source scan (`mkfs.c` 880-1194)

State: `nodes_table` (a hash table that keeps the order of insertion),
`nodes_id`, and one pointer per entry of the fts walk, `fts_pointer`.
Operations: `sources_scan` takes entries from `fts_read`; `node_new` makes a
node, looks for an earlier one of the same type and content, appends an entry
to the parent directory's node (found through `fts_parent->fts_pointer`).
Hard: duplicates free the node just made; failures leave pointers to freed
nodes, whose memory a later node may be given; a directory is reallocated for
every entry.
Correct when: numbers are dense, each directory lists exactly what was read in
it, nothing is stored twice, nothing stored changes.

### mkfs: `output_write` and its job pool (`mkfs.c` 205-240, 295-855)

State: the node table in two sort orders, the super block, `entry_buffer`,
`blocks`, the threads and `job_mutex`. Operations: passes that find field
widths, place contents, compress blocks in `job` threads, gather them, and fill
the block and inode tables. Hard: threads claim blocks under a mutex; every
malloc, `pthread_create` and compression may fail and each has its own way to
the bail label; widths, minima and two sort orders must agree between passes
and with the readers.
Correct when: each block is compressed once and gathered in order, no image
follows a lost block, the process ends, and what was put reads back.

### bit buffer (`bitbuffer.c` of mkfs and of the driver)

State: bytes and a bit index. Operations: put, get, skip, show, copy. Hard: the
way that reads whole bytes meets the one that reads bits.

### unfs (`unfs.c`)

State: the process's working directory, the file system. Operations: `traverse`
recurs over the image, and changes into a directory and back around each loop.
Hard: a dozen ways back, some with a `chdir("..")`; names relative to a
directory that changes; `chdir`, `open` and `chmod` follow links, those of the
image and those left in the output before; no return value.
Correct when: the working directory follows the recursion, what is lost is
reported, modes and owners are set, and only a link that was there before can
keep it from that.

### driver: directory reading (`super.c` 589-904)

State: the file position. Operations: `smashfs_readdir`, `smashfs_lookup`,
llseek. Hard: a listing is resumed from a position with whatever room the caller
has, and the position arithmetic spans a header and entries of odd sizes;
lookup stops early by the order mkfs stored.
Correct when: readdir is a cursor, and lookup finds what is listed.

### driver: mounts and block reads (`super.c` 458-544, 1042-1312, its `compressor.c`, `compressor-gzip.c`)

State, one for the whole driver: `smashfs_block_cachep`, the static gzip
compressor's `context` and its `z_stream`. Operations: fill_super, put_super,
node_read, gzip_uncompress. Hard: none of this has a lock, mounts and reads run
concurrently, and fill_super has a dozen failures that share one bail label.
Correct when: memory is used while it lives and given back, and a read returns
the block asked for.

### driver: inodes and pages (`super.c` 128-342, 886-971, 973-1026, 1261-1288, 1343-1347)

State: the kernel's inode hash and page cache, the slab the inodes come from,
the node each inode was filled from. Operations: `get_inode` and `read_inode`
for what lookup finds, the root of fill_super, `readpage`, `alloc_inode` and
`destroy_inode`, the module's exit. Hard: a node may be listed by several
directories, so threads meet in one new inode that then cannot be read; the
root's number is not the root's; inodes are freed by RCU callbacks after the
cache may be gone; kernels from 2.6.36 to 3.7 differ in each of these.
Correct when: lookup gives the node asked for, a page that counts as read is
whole, references add up, and every call returns.

### driver: device reads (`super.c` 348-456)

State: one call's buffer heads, pages and counters. Operation: `smashfs_read`, a
range of bytes out of device blocks. Hard: the range starts and ends inside
blocks, is copied into pages cut elsewhere, and has four ways out that must
each put the heads taken so far; the offset is an int.
Correct when: what it returns is the range, and no head is kept.

### image file (`mkfs.c` 673-855, `unfs.c` 575-700, `super.c` 1042-1312) and compressors

State: the output, a file or a block device, and what it held. Operations: the
inode table is compressed, the output opened, five parts written, the image
padded; then it is opened by unfs or mounted. Hard: the super block with its
magic is written first, and the process may end after it; a device keeps what
it held; the driver reads whole blocks; each compressor refuses other sizes and
the driver lacks two of them.
Correct when: a finished image is whole and readable, and an unfinished one is
never taken for something it is not.

### The rest

The growing buffer (`buffer.c`) is a byte array that the modules see as a
sequence and a call that may fail. The command lines choose options; those that
change what is computed (block size, `--no_duplicates`, `--no_padding`, the disabled
fields, the number of jobs) are constants or choices of the modules.

### Interactions

The scan builds the node table that `output_write` turns into tables with the
bit buffer; its block loop is handed to the job pool. The driver and unfs read
those tables with the same arithmetic (`node_fill`, `block_fill`, `node_read`).
Directory reading and `readpage` call `node_read`, which uses what mounts share
and gets its bytes from `smashfs_read`. Lookup's number goes to `get_inode`.

## Modules

| module | models | state corresponds to |
|---|---|---|
| `CompressPool` | `job()` and the pool part of `output_write` | `blocks[b].status`, `compressed_size`, `offset`; `job_mutex`; a program counter for main and each job |
| `CompressAll` | abstract: what the pool promises | the set of finished blocks and the answer |
| `CompressPoolProofs` | theorems about `CompressPool` | |
| `SourceScan` | `sources_scan`, `node_new` | `nodes_table`, `nodes_id`, `fts_pointer` |
| `SourceScanProofs` | theorems about `SourceScan` | |
| `BitBuffer` | every `bitbuffer_*` function, as an operator on [buffer, index] | `struct bitbuffer` |
| `BitStream` | filling a table and reading it with those operators | a writer, a reader and a copy |
| `ImageTables` | main's block size, the passes of `output_write`; `node_fill`, `block_fill`, both `node_read` as operators on the result | node table, super block, buffers |
| `TablesProofs` | theorems about `BitBuffer`, `BitStream` and `ImageTables` | |
| `Compressors` | each compress and uncompress function: what it refuses, returns and may write | none: operators |
| `DeviceRead` | `smashfs_read`, a step per allocation, block waited for and memcpy | the call's locals, the references to heads, the device's bytes |
| `ImageFile` | the writing of the image; fill_super and node_read as far as they read the device, on top of `DeviceRead`; unfs's opening as an operator | the output's bytes, the part mkfs is at, the mount |
| `ImageFileProofs` | theorems about `DeviceRead` and `ImageFile` | |
| `Unfs` | `main`'s output directory and `traverse` | the file system as a function from paths, the working directory, a stack of loops |
| `UnfsProofs` | theorems about `Unfs` | |
| `DirCursor` | abstract: a directory listing with a cursor | |
| `DirRead` | `smashfs_readdir`, `smashfs_lookup`, llseek | `f_pos`, the items the last call gave |
| `DirReadProofs` | theorems about `DirRead` | |
| `Inodes` | get_inode, read_inode, readpage, the root, the inode cache, the module's exit | inode objects with hash, references and page; a program counter for each thread |
| `InodesProofs` | theorems about `Inodes` | |
| `Driver` | fill_super, put_super, node_read of a block, gzip_uncompress | the shared pointers, the caches and contexts ever made, program counters for mounts and readers |
| `DriverProofs` | theorems about `Driver` | |

An action is a stretch of code between two points where something else can be
seen: another thread, a system call that may fail, or, in `ImageTables`, the end
of a pass. In `Unfs` and `DirRead`, which are sequential, an action is a call or
a whole handler. Where several orders are possible and the code does not choose
(the sort by type, which is no total order) the model allows all.

A parent that `node_new` freed is read all the same (`mkfs.c` 999-1067). A node
made later may have been given its memory, and which freed directories had the same is
left open: any of those that fts is still in may point to the new node from then
on (`Dangling`), and what is read in them goes to it, or is refused if it is a file
or a link (`ParentIsNoDirectory`). The directory that is just being made may get the
memory too, and is then its own parent (`OwnParent`). Else the memory is
nobody's, and what is read of its type is undefined (`FreedParent`): it does not pass
for a directory, and the entry is refused, or it does, and the model ends there,
since nothing is known of what the process does after writing to it.

A definition with "mutant:" above it is not part of a specification: it is a
changed version of the definition below, which the named property is known to
reject.

### What the models take from outside `src/`

- `fts_read` returns a directory before its entries, the entries of a directory
  together and in the order of `fts_compare`.
- pthreads, malloc and buffer_add work or fail; a compressor returns any size or
  a failure. A compression that fails or does not shrink a block is the job's error.
- `unlink`, `open`, `mkdir`, `symlink`, `lchown` take a name as it is; `chdir`, `open`
  and `chmod` follow links, wherever those point: absolute ones, ones with "..", and
  chains of them, up to a limit (`MaxParts`, as Linux's ELOOP). Each directory on the
  way must be one that can be searched; root may do all that modes forbid; chmod works
  on one's own files and lchown for root. Modes are the owner's three bits (a usual
  umask leaves them alone). Whoever runs unfs owns the directory it is started in.
- `kmem_cache_create` may refuse a second cache of the same name (kernels differ).
  A buffer given to the wrong cache, or used after its cache was destroyed, is
  a fault. zlib writes to the output pointer that is set when it runs, and
  what it answers when its stream has ended is not defined.
- The VFS calls `put_super` when no one reads, and `readdir` with the directory's
  mutex held.
- `iget_locked`, `iput`, `iget_failed`, eviction and RCU are the kernel's (`Inodes`). A
  slab object that is taken again keeps the fields the kernel does not set, the
  number among them where `new_inode` gives none. What differs between kernels is
  in four flags; `super.c` compiles for all of them.
- A write may be short or fail, a process may be killed in or between writes, a
  device does not grow and is not truncated. The buffer cache holds whole blocks:
  behind a loop device, the end of a file that fills no block is not there. Bytes
  that are no compressed form of anything uncompress to an error or to
  something else (`Compressors`); deflate needs room for its bound, LZO does not look
  at the room it has.

## Runs

| run | bounds | what it shows |
|---|---|---|
| `compress_pool` | 0 to 3 jobs, 3 blocks, the last one shorter; any failure anywhere | claims are exclusive; gathered bytes are the blocks in order; no image after a failure or without a job; buffers are freed under a job only when `pthread_create` failed; the pool implements `CompressAll`, which always comes to an answer |
| `source_scan` | trees of up to 5 entries with 1 failure, of up to 4 with 2; 2 contents; the memory of freed directories given to later nodes or not | dense numbers, faithful directories, no content twice, right parents, all reachable |
| `bit_stream` | up to 3 fields of 0, 3, 8 or 11 bits, each with a value that nearly fills it, one that does not fit and a negative one, words of 12 bits | fields read back; every reading function agrees with binary notation from every position, and so do copies |
| `image_tables` | 5 trees of up to 4 nodes, 2 times each, 4 sets of disabled fields, block sizes of 1, 4, 6 and 9 clamped to 4..8, blocks that compress to 1, 2, 3 or all of their bytes | the driver and unfs read back every field and range of content; a written image has a block size the readers can shift by |
| `unfs` | 4 images of up to 6 nodes, 7 earlier states of the output (nothing; files, directories and links in the way, chains of links, links at directories' names and above the output; an output that cannot be searched), lookups of up to 12 parts, root and user, 2 failing calls | where the working directory is after every failure; silent losses; what root can lose; modes; it ends |
| `dir_read` | up to 3 of 5 names, field widths of 1 or 2 bytes, room for 0 to 2 items, a seekdir, a failure, signed and unsigned char | readdir implements `DirCursor`; the end is reached; lookup finds what is listed |
| `driver` | 2 devices, 5 pairs of images, 3 mounts, 2 reads by 2 readers, 1 failure | memory faults have the known causes and no other; nothing is held after unmounting; reads alone in the stream are right |
| `image_file` | 11 images with the 5 compressions, 4 targets, device blocks of 2, pages and padding of 4, an int that ends at 8, 1 failure | a device read is exact, stays in its arrays and puts its heads; a file never gives anything but what its mkfs put there; exit 0 means a whole image; failures to mount or read one have one of the known reasons |
| `inodes` | 2 nodes, 3 objects, 2 threads, 2 mounts, 3 tables, 4 kinds of kernels, 1 failure | references add up; lookup gives the node or one of the known exceptions; pages are whole; memory faults have known causes; every call returns |
| `times_read_back` | as `image_tables` | violated: a node older than the root has another time |
| `gzip_readers` | one gzip image, 2 readers, no failure | violated: a successful read returns its block |
| `root_number` | as `inodes` | violated: an inode that was found is of the number asked for |

Why the bounds are enough: three jobs and blocks let one job fail, one hold the
mutex and one finish, with blocks before, at and after a failure; no job at all
leaves every block to the status loop. Five entries
hold a directory in a directory with a duplicate across the two and a failing
call between; two failures, in four of them, make two freed directories fts is in at
once, whose memory may be one. Words of 12 bits hold a field with a whole byte between two cut
ones. Blocks of four bytes and a file of five put contents inside, at the end of
and across blocks, and with four compressed sizes no two blocks need to be alike; six is
a block size between two powers of two. Two failures in
unfs take the working directory two levels up, out of the output. The links left
in the output lead to a file, a directory, another link, nothing, and the output and
what is above it, and stand where the images have files, links and directories; no
way along them takes twelve parts but one that has no end. Three mounts
make one device mount again after the other failed; two reads are enough to mix a
stream up. The names of `dir_read` include a prefix of another, equal first bytes,
and bytes over 127. In `image_file`, pages of two device blocks make a copy meet a
page's end inside and at the end of a block; a range of one byte, of less than a
block and of several blocks all occur, at even and odd offsets; with an int that
ends at 8 the contents of the larger images start at or lie across 8, as those of a
real image do at 2 GiB; the images include one whose block table fails kmalloc's
limit and one too small for LZO. In `inodes`, one thread fills an inode while the
other waits for it; three objects leave one for the root of a second mount
while a freed one waits for RCU, and no object free when a lookup needs one.

### What the violated runs say

- **Times** (`mkfs.c` 346-349): the minimum is taken of the running maximum, so
  it is the first node's time. Anything older gets a negative difference.
- **gzip** (the driver's `compressor-gzip.c` 57-84): one `z_stream` and no lock.
- **Root's number** (`super.c` 1261-1271): the root's inode is hashed under the
  number `new_inode` chose, or that a slab object still had, and not under
  `super.root`. The node of that number is then found to be the root directory.

Seen while modelling, and visible in the models without a run of their own:

- `--no_ctime` and `--no_mtime` (`mkfs.c` 378): the super block keeps the minimum,
  which is the first node's time, and every node reads as that.
- unfs sets the mode of an image's root on "./" after `chdir("..")`, which is the
  directory it was started in (`unfs.c` 348, 412); its `chmod` of a link follows it;
  an image of a single file is not extracted (`RefusedFile` at "./").
- A link that stood in the output at the name of a directory of the image
  is entered: `mkdir`'s EEXIST is passed over and `chdir` follows it (`unfs.c`
  285-290). The entries of that directory are made where the link leads, over those
  of the same names; `chdir("..")` leads to the directory above that one, where the rest
  is made; and the `chmod` that is meant for the directory follows the link too. No error
  is printed. The properties of `Unfs` speak of what happens until then (`strayed`),
  and `CwdFollowsLoops` says that without such a link, and without a file or
  link whose reading failed, it never happens.
- The `chmod` of a file that belongs to somebody else is refused and not
  looked at (`unfs.c` 412). If the mode of the image's root lacks "x", a user's last
  `chdir` fails and unfs exits with -1 with all extracted (`FinishFails`).
- A directory whose node was freed may leave its memory to a directory read in it,
  which then lists itself and is its own parent in the image (`mkfs.c` 999-1067, `OwnParent`).
- lzma images do not mount, as `lzma_uncompress` is a stub, and xz ones meet a
  context that was never made (`driver_uncompress`), although `README.md:16-22`
  lists both. gzip and none refuse, and LZO may overrun, a table that does not
  get smaller (`OverrunOnlyLzo`).
- An image written over a block device and not finished gives what was there
  before under new tables. `FileNeverLies` is about files and excepts this: nothing in the
  code prevents it.
- An image made with `--no_padding` may lack its last bytes when mounted
  (`FailuresExplained`).
- The faults of `Driver`: cache overwritten by a second mount, cache destroyed by a
  mount that fails early, double free of the first buffer, inodes table longer
  than a block. `FaultsNeedCauses` states that these are all.
- In `Inodes`: the root that cannot be read is never put, the cache is destroyed
  under pending RCU callbacks, and before 3.1 an error pointer goes to
  `d_splice_alias`. `FaultsExplained` states that these are all.
- In the source only: `mkfs.c` 595 reads `blocks[-1]` when there is no content;
  `buffer.c` 70 leaves a size too large after a failed realloc, which no caller uses;
  a negative `-j` passes the MIN of `mkfs.c` 1285 and is a huge number of jobs,
  for which `jobs` has 16 places.

### Deadlock

It is checked in `compress_pool` (with an action for the process that is gone),
`bit_stream` and `dir_read`. The other systems end.

### Fairness

- `CompressPool`: weak fairness of main and of every job: the kernel schedules
  runnable threads. A job takes the mutex a bounded number of times, so no strong
  fairness is needed for the waiting ones.
- `Unfs`: weak fairness of the one process.
- `DirRead`: the reader goes on calling with room for an item (with less,
  getdents returns an error). Errors and seeks are bounded: with
  errors for ever nothing is read.
- `Inodes`: weak fairness of the steps of each thread that is inside a call: the
  kernel schedules it. Whether it calls again, puts what it holds or is preempted
  by eviction is not assumed.
- The others have no liveness properties and no fairness.

## Proofs

`CompressPoolProofs` proves, for every number of jobs and blocks and every block
size, from the one assumption `PoolAssumption` (at least one block, the last one
not empty and not larger than the others; any number of jobs, none included):

| theorem | states |
|---|---|
| `TypeCorrect` | `Spec => []TypeOK` |
| `ClaimsExclusive` | no two jobs work on one block |
| `GatheredRight` | the gathered bytes are the compressed blocks in order |
| `FailureStops` | no image is written after a job gave up |
| `FreeAfterJoin` | buffers are freed under a running job only after a failed `pthread_create` |
| `SurvivorSuffices` | a job that ends its loop leaves no block unclaimed |
| `Refinement` | the pool implements the safety part of `CompressAll` |

All follow from the inductive invariant `IInv`. None of the properties is
inductive alone: that two jobs do not have one block needs to know that a job in
`check` holds the mutex and that one in `compress` has its block marked claimed
(`MutexInv`, `ClaimInv`); that nothing is lost needs that a job has passed only
claimed blocks (`IndexInv`) and that a job that gave up keeps its block claimed,
as long as there is a block table; that the gathered bytes are right needs that
sizes are final once they are published (`SizeInv`) and, per stage of
`output_write`, which jobs can still run (`StageInv`, `OutcomeInv`, `GatherInv`). The proof
has a lemma for each action, with a step for each part of the invariant the
action can disturb. The refinement maps the finished blocks to `done`: only
`JobPublish`, the successful `WriteTables` and `BailOut` are visible steps.

`InodesProofs` proves, for every set of nodes, inode objects and threads, every table and
kind of kernel and any number of mounts and failures, from `InodesAssumption` (node 0
exists, the threads are finitely many, and the two values that stand for no object
and no node are neither):

| theorem | states |
|---|---|
| `TypeCorrect` | `Spec => []TypeOK`, with every object's count of references |
| `LookupCorrect` | `LookupGivesNode`: lookup gives the node it was asked for |
| `PagesWhole` | `PageWhole`: a page is up to date only when it is whole |
| `FaultsHaveCauses` | `FaultsExplained`: memory comes to harm in three cases only |

Its `IInv` has a part for each reason why those hold. `RefsInv` says that the
references of an object are the threads that have it and the root: with it, eviction,
the last `iput` and `iget_failed` destroy only what no one has. `HoldInv` says that what
a thread has is in use, for the number it was asked for; `UseInv`, that an inode in use
is new, bad, the root or stands for its number; `FillInv`, that one thread alone has a
new inode and fills it, so that who finds it not new finds it complete; `PageInv`, that one
thread alone reads a locked page, of the node the inode stands for; `RootInv` and `FaultInv`
tie objects in use and objects that wait for a callback to what is mounted. There is a
lemma for each action, which says first what it changes and then keeps each part.

`SourceScanProofs` proves, for trees of every shape and size, all contents and any
number of failing allocations, from `ScanAssumption` and `ContentAssumption` (what
stands for no content is no content):

| theorem | states |
|---|---|
| `NumbersStayDense` | `DenseNumbers` |
| `DirectoriesListTheirEntries` | `DirectoryFaithful`, but for directories made in the memory of a freed one |
| `ContentIsStoredOnce` | `NoSharedContent` |
| `DirectoriesKnowTheirParent` | `ParentLinks`, with the same exception |
| `RootListsTheRest` | `RootReachesAll` |

In its `IInv`, `OrderInv` is fts's order: a directory comes before what is
in it. `PointerInv` says that each entry points at nothing, at freed memory, or at a
node of the table. Two may point at one,
when a node was made in memory that another had left; so what is said of a
directory's entries and its parent is said of nodes that one entry points at
(`ScannedDirectory`, `Shared`). What a step does to the pointers is `Points`, which
`AppendPoints` and `ReusePoints` show of a step that leaves freed memory alone and of
one that takes it. `ListInv` says that a directory's node lists what was added under
it, in order; `LinkInv` is the parent's number as a node keeps it, and `ReachInv` says
that each node was made of an entry, and listed if there was a node to list it in; a
directory that is its own parent (`OwnParentKeeps`) is one of two that point at its node. The
first twin that the hash finds is the least of a set of numbers, which is the one
place where this proof needs induction: `LeastNat`, that a set of natural numbers has a least one.

`DriverProofs` proves, for every set of devices and readers, all images and any number of
mounts, reads and failures, from `DriverAssumption` (an image for each device, as its super
block describes it) and `NoOneAssumption` (what stands for nobody is neither device nor reader):

| theorem | states |
|---|---|
| `OnlyTheKnownFaults` | `FaultsNeedCauses` |
| `AllIsGivenBack` | `NothingHeld` |
| `LoneReadsAreRight` | `ReadsRightAlone` |

The driver keeps its promises only as long as no two mounts overlapped and nothing
has come to harm before, so `IInv` says what is true then: at most one device is mounted or
being mounted (`AloneInv`); for each place in fill_super, which of the cache, the
context and the first buffer the mount has (`MountInv`); the one cache that lives is the
one `smashfs_block_cachep` points to, with the size of this image's blocks, and likewise the
context (`CacheInv`, `ContextInv`); what a reader has and of which cache (`ReaderInv`); and that
two readers inside gzip_uncompress know of each other, while one alone finds the stream
as it set it up (`StreamInv`). A step that ends this state has one of the causes
that `FaultsNeedCauses` lists.

`ImageFileProofs` proves, for every size of device blocks, pages, padding and writes, any end of int
and of kmalloc, all images and outputs, and any number of failures:

| theorem | states |
|---|---|
| `ReadsAreExact` | `ReadExact`: smashfs_read returns the range or an error, and puts its heads |
| `ReadsStayInside` | `ReadStaysInside`: no array of it is left |
| `FilesNeverLie` | `FileNeverLies`: what is read from a file is what one mkfs put there |
| `DoneIsWhole` | `SuccessIsWhole`: exit 0 means that the image is there and unfs reads it |
| `FailuresHaveReasons` | `FailuresExplained`: for what the driver refuses a finished image |
| `OnlyLzoOverruns` | `OverrunOnlyLzo` |

The assumptions: sizes are not 0, a write is shorter than an int's end and the padding is made of
whole device blocks (`DeviceReadAssumption`, `ImageFileAssumption`; 4096 is a multiple of every
block size that the kernel mounts with); each image is one that mkfs comes to (`ImagesAssumption`):
its blocks lie in its contents, as the gathering loop places them (`mkfs.c` 569-591), and its end
fits in 32 bits. mkfs does not look at the latter: past 4 GiB the offsets in the super block
wrap, and nothing is said of such images. An output holds an older image, the start of
one, or bytes that do not begin with the magic number.

`CallInv` follows the call: how many heads were got for the range so far and how
many references are left of them, where the copying is in the block, in the page and in
the range at once, that each byte so far is the file's, and which block was missing when it returned an
error. `FileInv` says what is in the file in each state of mkfs: a start of
the new image up to the part that comes next; after a failure, without a device, an older image or a start of
the new one; at the end all of it and, unless padding was declined, whole
device blocks behind it. `DriverInv` says that the mount goes by the super block the file begins with
and asks for ranges that lie in the part they are of; so what comes back exactly is that
part, where the file can be trusted. That the last byte's block is there, or is the
incomplete last one of an unpadded file, is `NoWholeBlock`.

`DirReadProofs` proves, for directories of any size with any names and numbers, bit fields of any
widths, both kinds of char, buffers of any room and any number of failures and seeks, from
`DirAssumption` (names are byte strings without 0 that are not empty; no table is of width 0):

| theorem | states |
|---|---|
| `LookupFinds` | `LookupAgrees`: lookup's early end misses no entry |
| `Listed` | `ImplementsCursor`: readdir is a cursor over the listing |

A call starts at the content's beginning every time and compares offsets, so that the proof has to
say where the entries are: `OffsetEquations` and `PositionsGrow`, that the position of
each item is after those of the items before it. The recursive functions of the model (the
offsets, and the loop over the entries) are shown to have the values their equations say by
`Iteration`, and the loop to read on from the item it is at by `StaysIn`. The invariant `Inv` is
that the directory is as stored, in order, and the position always an item's or the end's (`AtItem`): not
inside a call, where it is between ".." and the first entry, at a place that is not told to anyone. For
lookup, `FirstBytes` is what the order says of first bytes, and the sign of char can only
make an entry's byte smaller, so that the loop ends later and not earlier.

`UnfsProofs` proves, for any images, leftovers in the output, names, owners and number of
failures, from `UnfsAssumption` (the user is one of several owners, a lookup may take at least one
step, "./", "/" and ".." are no names), `LeftoversAssumption` (what was left is a tree of
files, directories and links of any targets, and the output a directory if it is there) and
`ImagesAssumption` (nodes are numbered from 0, and a directory
lists each name once, with the number of a node; it may list itself or a directory above it):

| theorem | states |
|---|---|
| `WorkingDirectory` | `CwdFollowsLoops`: until a link is taken for a directory or a file, the working directory is the innermost loop's, or as many above as files and links lost; and without a loss only a link that was there before can be so taken |
| `NothingLostInSilence` | `LossIsReported`: what is not there had an error printed for it or above it |
| `RootOnlyMeetsObstacles` | `RootLosesToObstacles`: root loses only what something of another type stands in the way of |
| `ExtractedModes` | `ModesSet`: permission bits and owner |

The last three speak of extractions in which no link was taken for something else
(`strayed`), and the second and fourth of ones that lost no way back (`lost`): through a
link left at a directory's name entries are overwritten without an error, and modes set where it
leads. `ModesSet` also excepts what a link that was extracted later leads to (`pointed`), which
is the last to set a mode there, and for a user what is somebody else's, of which chmod fails in
silence. That these exceptions are not the image's own doing is the second half of
`CwdFollowsLoops`; `LinkInv` is its invariant: as long as nothing was lost and no link was
there before, each link in the output is one of the image's, at a path that no longer waits
to be extracted, so that no name which is still to be used is one.

`WalkInv` ties the
three places that say where unfs is: each running loop stands behind the entry whose loop
is above it, the call that is due is for the entry the innermost loop is at, and the working
directory is the path of the loops. `WayInv` says that every directory from there up
can be searched, so that each `chdir("..")` works: what is extracted before
a loop ends is below it, and the mode that could forbid it is set when it has been left. Then every
path of the image either still waits (`Pending`: the
call due or a loop that is still open comes to it), or had an error for it or above it (`Blamed`), or has
its content (`LossInv`). For modes there is one more case, since a directory gets its mode
when its loop ends: it is `Open`. What a path has, it keeps (`ContentStays`,
`SettledStays`): what comes later is done to other paths, because a directory lists a name once
and the paths of two entries differ (`AlongStack`). chmod alone may reach elsewhere, along a link, and
changes nothing there but a mode (`Akin`). `LeadsDirect` shows that the system's lookup takes a
name that is no link to the path it stands for; `RootInv` is that an error names a path
that is dealt with and obstructed.
That the paths of the model, which are counted off by depth, are the paths that the loops walk is
`PathWalks`, by `Iteration` and `StaysIn`.

`TablesProofs` proves, for every list of fields of any widths and any values, for words of 8 bits or more
(`StreamAssumption`: a byte fits in a word, a field in a word):

| theorem | states |
|---|---|
| `StreamRoundTrip` | `RoundTrip`: a field reads back as the low bits of what was put |
| `StreamReadsBitwise` | `ReadsAreBitwise`: get, show, getbuffer and copy agree with binary notation from every position |

and, for all node tables, disabled fields, block sizes that are asked for, and sizes from 1 up to their own that blocks compress to:

| theorem | states |
|---|---|
| `TablesInvariance` | the inductive invariant, `TablesInv` |
| `BlockSizesShift` | `BlockSizeIsShift` |
| `NodesReadBack` | `FieldsReadBack`: node_fill finds each node in its row |
| `NodesInBlocks` | `BlocksInRange` |
| `ContentsReadBack` | `ContentReadBack`: the driver reads any range of a content, unfs all of it |

The assumptions of the latter: words have 8 to 64 bits and hold the largest block size (`BlockSizesAssumption`;
`blog` has a loop over 64 widths); only what an option is there for is disabled (`DisabledAssumption`); the nodes of
a table are numbered from 0 in order, with fields that are unsigned ints, and the type and ntype that `node_new`
gives (`NodesAssumption`; that the scan numbers them so is proved in `SourceScanProofs`); and the
contents are less than 4 GiB (`ContentsAssumption`). mkfs does not check the last one. The format has no more
than an unsigned int for a place or a size (`smashfs.h` 61-112), bitbuffer_putbits is given one,
and of larger contents an image keeps the low bits: nothing is said of such images.

The proof starts with a bit. `PutBit` and `PutBits`: to put a value sets its field to the low bits of the value,
leaves every other bit, and leaves what is behind it zero, which the `|=` of bitbuffer_putbit needs
(`Clear`). `FieldRead`: getbits of a field gives its worth in binary notation, in whichever steps of one and of eight bits it comes
to the end; `ReadSoFar` is that loop's invariant. So a buffer of which `Holds` says that a field has a
value gives that value until someone writes there. `StreamInv` says that all the fields put so far are
held, and that the copied bits are those that the reader went over. For a table, `RowPut` is that
a row of fields holds its values and no earlier row loses any; `BlockRows` and `InodeRows` say so of
the rows so far.

`TablesInv` says that the image failed, or that there is a table of which all is known that the phase
has settled (`Known`). From the first pass on, each field's largest value fits in its width, and the minima
of the times are the first node's (`FieldFits`, `MinimaOfRoot`: the running
maximum makes it so). The sorts lose no node (`Reordered`); directories come after files, so that no place is at the end
of the contents if there is one. From the filling on, the contents of the nodes lie one after
the other, each where block and index say (`Filled`). The second pass's widths fit those. The blocks
lie one behind the other, and all but the last one are as long as the super block says (`Compressed`, `BlocksFit`);
that they are as many as the contents need is where a block size that is no power of two drops out.
At the end the two tables hold a row per block and per node. There is one lemma for each action.

The content of a node is then read by a loop over blocks whose place and length come out of the block table
(`BlockFillFacts`); `NodeReading` is its state after each turn: the bytes so far are those of the contents from the
place on, and the place has moved to the start of the next block. No two
blocks are at one place, as none compresses to nothing, so that `Uncompressed` has one to choose.

All recursive functions (powers of two, sums, bits put and got, rows, the loop over blocks) are
shown to have the values of their equations by `Iteration`, which is proved from the well-ordering of the natural
numbers; what holds along them follows by `Upwards`.

Only model-checked: liveness (`Ends`, `ReachesEnd`, `CallsReturn`, the liveness part
of `ImplementsCompressAll`), which the provers cannot do. Every safety invariant of a run is
stated by a theorem; the three runs that end in a violation say what does not hold.

## Not modelled

- statfs and remount, which keep no state; module init; the bits of an inode's
  mode; pages of a file after the first, which `readpage` treats alike.
- Power loss: mkfs calls no fsync, so that after one the file may hold any of the
  writes; a mount while mkfs still writes; a failing close.
- The insides of the compression libraries; the growing buffer (a sequence that
  may fail to grow); option parsing and messages.
- `uthash.h` and `libmakefile`, which come from elsewhere.

## Plan

The order is by how much of the system depends on the part. Done: the job pool
and its proof, the scan, the bit buffer, the tables, extraction, directory
reading, mounts and reads, the image file with device reads, the inodes, and
proofs about each of them. Next:

1. A composition of `Driver`'s reads with `DirRead`, so that a listing goes on while
   another reader is in the stream.
