----------------------------- MODULE DriverProofs -----------------------------
(***************************************************************************)
(* Theorems about module Driver, for any number of devices, readers,       *)
(* mounts, reads and failures.  They follow from one inductive invariant,  *)
(* IInv: what the driver holds, as long as no two mounts overlap.          *)
(***************************************************************************)
EXTENDS Driver, SequenceTheorems, TLAPS

Cache == [size : Nat, live : BOOLEAN]
Stream == [live : BOOLEAN, in : Readers \cup {NoOne}, out : Readers \cup {NoOne},
           ended : BOOLEAN]
Context == {c \in Stream : c.ended \/ c.in \in Readers}
MountPcs == {"unmounted", "super", "cache", "compressor", "tables", "inodes",
             "free", "root", "mounted", "bail"}
ReaderPcs == {"idle", "ubuffer", "cbuffer", "fill", "in", "out", "inflate",
              "copy", "bail"}
Mounting == [pc : MountPcs, cbuffer : Nat, compressor : BOOLEAN, cache : BOOLEAN]
Reading == [pc : ReaderPcs, device : Devices \cup {NoOne}, block : Int,
            ubuffer : Nat, cbuffer : Nat, context : Nat, data : Int,
            result : Int, shared : BOOLEAN]

TypeInv ==
    /\ caches \in Seq(Cache) /\ cachep \in 0..Len(caches)
    /\ contexts \in Seq(Context) /\ context \in 0..Len(contexts)
    /\ mount \in [Devices -> Mounting]
    /\ reader \in [Readers -> Reading]

\* No two devices are mounted, or between being mounted and unmounted.
AloneInv ==
    \A d, e \in Devices :
        mount[d].pc # "unmounted" /\ mount[e].pc # "unmounted" => d = e

\* What fill_super has made by where it is.
MountOK(d) ==
    /\ mount[d].pc = "unmounted" => mount[d] = Unmounted
    /\ mount[d].pc \in {"super", "cache"} => ~mount[d].cache
    /\ mount[d].pc \in {"super", "cache", "compressor"}
          => ~mount[d].compressor
    /\ mount[d].pc \in {"compressor", "tables", "inodes", "free", "root",
                        "mounted"}
          => mount[d].cache /\ cachep # NULL
    /\ mount[d].pc \in {"tables", "inodes", "free", "root", "mounted"}
          => mount[d].compressor
    /\ mount[d].pc \in {"inodes", "free"} => mount[d].cbuffer = cachep
    /\ mount[d].cbuffer # NULL =>
          /\ mount[d].pc \in {"inodes", "free", "bail"}
          /\ mount[d].cbuffer = cachep /\ mount[d].cache

MountInv == \A d \in Devices : MountOK(d)

\* The one cache that lives is the one whoever made it finds in cachep.
CacheInv ==
    /\ \A i \in DOMAIN caches :
          caches[i].live => i = cachep /\ \E d \in Devices : mount[d].cache
    /\ \A d \in Devices : mount[d].cache /\ cachep # NULL =>
          /\ caches[cachep].live
          /\ caches[cachep].size = image[d].block_size

\* So with contexts.
ContextInv ==
    /\ \A i \in DOMAIN contexts : contexts[i].live =>
          /\ i = context
          /\ \E d \in Devices : mount[d].compressor /\ UsesContext(d)
    /\ \A d \in Devices : mount[d].compressor /\ UsesContext(d) =>
          context # NULL /\ contexts[context].live

\* What node_read holds by where it is.
ReaderOK(r) ==
    /\ reader[r].pc = "idle" => reader[r].ubuffer = NULL
                                /\ reader[r].cbuffer = NULL
    /\ reader[r].pc # "idle" =>
          reader[r].device \in Devices /\ mount[reader[r].device].pc = "mounted"
    /\ reader[r].ubuffer \in {NULL, cachep}
    /\ reader[r].cbuffer \in {NULL, cachep}
    /\ reader[r].pc \in {"cbuffer", "fill", "in", "out", "inflate", "copy"}
          => reader[r].ubuffer = cachep
    /\ reader[r].pc \in {"fill", "in", "out", "inflate", "copy"}
          => reader[r].cbuffer = cachep
    /\ reader[r].pc \in {"in", "out", "inflate"}
          => UsesContext(reader[r].device)
    /\ reader[r].pc \in {"out", "inflate"} => reader[r].context = context
    /\ reader[r].pc = "copy" /\ ~reader[r].shared
          => reader[r].data = reader[r].block

ReaderInv == \A r \in Readers : ReaderOK(r)

\* Two readers in gzip_uncompress know of each other.  One that is there alone
\* has set up the stream for itself, and no other will write to its buffer.
Inside(r) == reader[r].pc \in {"out", "inflate"}
StreamInv ==
    /\ \A q, r \in Readers : q # r /\ Inside(q) /\ Inside(r) => reader[r].shared
    /\ \A r \in Readers : Inside(r) /\ ~reader[r].shared =>
          contexts[context].in = r /\ ~contexts[context].ended
    /\ \A r \in Readers : reader[r].pc = "inflate" /\ ~reader[r].shared =>
          contexts[context].out = r
    /\ \A q, r \in Readers :
          /\ q # r /\ reader[q].pc = "inflate" /\ reader[r].pc = "copy"
          /\ contexts[context].out = r
          => reader[r].shared

Core ==
    /\ TypeInv
    /\ AloneInv
    /\ MountInv
    /\ CacheInv
    /\ ContextInv
    /\ ReaderInv
    /\ StreamInv

IInv ==
    /\ image \in [Devices -> Image] /\ failures \in Nat /\ reads \in Nat
    /\ FaultsNeedCauses
    /\ ReadsRightAlone
    /\ fault = "none" /\ "overlap" \notin causes => Core

-----------------------------------------------------------------------------
(***************************************************************************)
(* Steps while two mounts overlap, or did: only what needs another reason  *)
(* than that has to be looked at.                                          *)
(***************************************************************************)
DeviceStep(d) ==
    \/ Mount(d) \/ ReadSuper(d) \/ FillSuperFails(d) \/ InitBlockCache(d)
    \/ CreateCompressor(d) \/ CreateCompressorFails(d) \/ AllocateTables(d)
    \/ ReadInodes(d) \/ FreeBuffer(d) \/ MakeRoot(d) \/ MakeRootFails(d)
    \/ FillSuperBails(d) \/ PutSuper(d)

ReaderStep(r) ==
    \/ \E d \in Devices : Read(r, d)
    \/ AllocateUbuffer(r) \/ AllocateCbuffer(r) \/ AllocateCbufferFails(r)
    \/ NodeReadFails(r) \/ FillBlock(r) \/ SetInput(r) \/ SetOutput(r)
    \/ Inflate(r) \/ CopyOut(r) \/ NodeReadBails(r)

\* The faults that have a reason of their own.
OwnReasons ==
    /\ image' = image /\ failures' \in Nat /\ reads' \in Nat
    /\ causes \subseteq causes'
    /\ fault' = "double free" => "second allocation" \in causes'
    /\ fault' = "null context" => \E d \in Devices : image[d].compression = "xz"
    /\ fault' \in {"null inode", "double iput"} => failures' > 0

LEMMA DeviceReasons ==
    ASSUME failures \in Nat, reads \in Nat, NEW d \in Devices, DeviceStep(d)
    PROVE  OwnReasons
<1>. USE DEF OwnReasons, MountIs, MountAt, Fail, Unless, memory, counters
<1>1. CASE Mount(d)
  BY <1>1 DEF Mount
<1>2. CASE ReadSuper(d)
  BY <1>2 DEF ReadSuper
<1>3. CASE FillSuperFails(d)
  BY <1>3 DEF FillSuperFails
<1>4. CASE InitBlockCache(d)
  BY <1>4 DEF InitBlockCache
<1>5. CASE CreateCompressor(d)
  BY <1>5 DEF CreateCompressor
<1>6. CASE CreateCompressorFails(d)
  BY <1>6 DEF CreateCompressorFails
<1>7. CASE AllocateTables(d)
  BY <1>7 DEF AllocateTables
<1>8. CASE ReadInodes(d)
  BY <1>8 DEF ReadInodes
<1>9. CASE FreeBuffer(d)
  BY <1>9 DEF FreeBuffer
<1>10. CASE MakeRoot(d)
  BY <1>10 DEF MakeRoot
<1>11. CASE MakeRootFails(d)
  <2>1. /\ image' = image /\ causes' = causes /\ reads' = reads
        /\ fault' \in {"null inode", "double iput"}
    BY <1>11 DEF MakeRootFails
  <2>2. failures' \in Nat /\ failures' > 0
    <3>1. failures' = failures + 1
      BY <1>11 DEF MakeRootFails
    <3>. QED  BY <3>1
  <2>. QED  BY <2>1, <2>2
<1>12. CASE FillSuperBails(d)
  BY <1>12 DEF FillSuperBails, DestroyFault
<1>13. CASE PutSuper(d)
  BY <1>13 DEF PutSuper, DestroyFault
<1>. QED  BY <1>1, <1>2, <1>3, <1>4, <1>5, <1>6, <1>7, <1>8, <1>9, <1>10,
             <1>11, <1>12, <1>13 DEF DeviceStep

LEMMA ReaderReasons ==
    ASSUME failures \in Nat, reads \in Nat, NEW r \in Readers, ReaderStep(r)
    PROVE  OwnReasons
<1>. USE DEF OwnReasons, ReaderIs, ReaderAt, Fail, Unless, memory, counters
<1>1. CASE \E d \in Devices : Read(r, d)
  BY <1>1 DEF Read
<1>2. CASE AllocateUbuffer(r)
  BY <1>2 DEF AllocateUbuffer
<1>3. CASE AllocateCbuffer(r)
  BY <1>3 DEF AllocateCbuffer
<1>4. CASE AllocateCbufferFails(r)
  <2>1. /\ image' = image /\ causes' = causes \cup {"second allocation"}
        /\ fault' = "double free" /\ reads' = reads
    BY <1>4 DEF AllocateCbufferFails
  <2>2. failures' \in Nat
    <3>1. failures' = failures + 1
      BY <1>4 DEF AllocateCbufferFails
    <3>. QED  BY <3>1
  <2>. QED  BY <2>1, <2>2
<1>5. CASE NodeReadFails(r)
  BY <1>5 DEF NodeReadFails
<1>6. CASE FillBlock(r)
  BY <1>6 DEF FillBlock
<1>7. CASE SetInput(r)
  BY <1>7 DEF SetInput
<1>8. CASE SetOutput(r)
  BY <1>8 DEF SetOutput
<1>9. CASE Inflate(r)
  BY <1>9 DEF Inflate
<1>10. CASE CopyOut(r)
  BY <1>10 DEF CopyOut, Return
<1>11. CASE NodeReadBails(r)
  BY <1>11 DEF NodeReadBails, Return
<1>. QED  BY <1>1, <1>2, <1>3, <1>4, <1>5, <1>6, <1>7, <1>8, <1>9, <1>10,
             <1>11 DEF ReaderStep

LEMMA OverlapStep ==
    ASSUME IInv, OwnReasons, "overlap" \in causes'
    PROVE  IInv'
<1>1. FaultsNeedCauses'
  BY DEF OwnReasons, FaultsNeedCauses
<1>2. ReadsRightAlone'
  BY DEF ReadsRightAlone
<1>. QED  BY <1>1, <1>2 DEF IInv, OwnReasons

\* The others, when no mounts overlap.
LEMMA Reasons ==
    ASSUME OwnReasons,
           fault' \notin {"busy cache", "wrong cache", "dead context"},
           fault' = "overflow" =>
               \E d \in Devices : image[d].inodes_csize > image[d].block_size,
           fault' = "dead cache" => "early bail" \in causes',
           fault' = "freed buffer" => \E r \in Readers : reader'[r].shared
    PROVE  FaultsNeedCauses'
  BY DEF OwnReasons, FaultsNeedCauses

-----------------------------------------------------------------------------
(***************************************************************************)
(* Steps of mount and unmount                                              *)
(***************************************************************************)
\* While fill_super is at work no one reads.
LEMMA NoReaders ==
    ASSUME Core, NEW d \in Devices, mount[d].pc \notin {"unmounted", "mounted"}
    PROVE  /\ \A r \in Readers : reader[r].pc = "idle"
           /\ \A e \in Devices \ {d} : mount[e] = Unmounted
<1>1. ASSUME NEW r \in Readers, reader[r].pc # "idle"
      PROVE  FALSE
  <2>1. reader[r].device \in Devices /\ mount[reader[r].device].pc = "mounted"
    BY <1>1 DEF Core, ReaderInv, ReaderOK
  <2>2. reader[r].device = d
    BY <2>1 DEF Core, AloneInv
  <2>. QED  BY <2>1, <2>2
<1>2. ASSUME NEW e \in Devices \ {d}
      PROVE  mount[e] = Unmounted
  BY <1>2 DEF Core, AloneInv, MountInv, MountOK
<1>. QED  BY <1>1, <1>2

\* A step of one mount with everyone else at rest.
LEMMA MountStep ==
    ASSUME Core, NEW d \in Devices,
           image' = image, reader' = reader,
           \A e \in Devices \ {d} : mount[e] = Unmounted,
           \A r \in Readers : reader[r].pc = "idle",
           mount' \in [Devices -> Mounting],
           \A e \in Devices \ {d} : mount'[e] = mount[e],
           MountOK(d)',
           caches' \in Seq(Cache), cachep' \in 0..Len(caches'),
           contexts' \in Seq(Context), context' \in 0..Len(contexts'),
           \A i \in DOMAIN caches' :
               caches'[i].live => i = cachep' /\ mount'[d].cache,
           mount'[d].cache /\ cachep' # NULL =>
               caches'[cachep'].live /\ caches'[cachep'].size = image[d].block_size,
           \A i \in DOMAIN contexts' :
               contexts'[i].live =>
                   i = context' /\ mount'[d].compressor /\ UsesContext(d),
           mount'[d].compressor /\ UsesContext(d) =>
               context' # NULL /\ contexts'[context'].live
    PROVE  Core'
<1>1. \A e \in Devices \ {d} : mount'[e] = Unmounted
  OBVIOUS
<1>2. TypeInv'
  BY DEF Core, TypeInv
<1>3. AloneInv'
  BY <1>1 DEF AloneInv, Unmounted
<1>4. MountInv'
  <2>1. ASSUME NEW e \in Devices \ {d}
        PROVE  MountOK(e)'
    BY <1>1, <2>1 DEF MountOK, Unmounted, NULL
  <2>. QED  BY <2>1 DEF MountInv
<1>5. CacheInv'
  BY <1>1 DEF CacheInv, Unmounted
<1>6. ContextInv'
  BY <1>1 DEF ContextInv, UsesContext, Unmounted
<1>7. ReaderInv'
  <2>1. ASSUME NEW r \in Readers
        PROVE  ReaderOK(r)'
    BY <2>1 DEF Core, ReaderInv, ReaderOK
  <2>. QED  BY <2>1 DEF ReaderInv
<1>8. StreamInv'
  BY DEF StreamInv, Inside
<1>. QED  BY <1>2, <1>3, <1>4, <1>5, <1>6, <1>7, <1>8 DEF Core

LEMMA ReadsKept ==
    ASSUME ReadsRightAlone, reader' = reader, causes \subseteq causes'
    PROVE  ReadsRightAlone'
  BY DEF ReadsRightAlone, Succeeded

\* What is there while fill_super is at work, in the words of MountStep.
LEMMA MountFacts ==
    ASSUME Core, NEW d \in Devices,
           \A e \in Devices \ {d} : mount[e] = Unmounted
    PROVE  /\ mount \in [Devices -> Mounting] /\ mount[d] \in Mounting
           /\ MountOK(d)
           /\ caches \in Seq(Cache) /\ cachep \in 0..Len(caches)
           /\ DOMAIN caches = 1..Len(caches) /\ Len(caches) \in Nat
           /\ contexts \in Seq(Context) /\ context \in 0..Len(contexts)
           /\ DOMAIN contexts = 1..Len(contexts) /\ Len(contexts) \in Nat
           /\ \A i \in DOMAIN caches :
                 caches[i].live => i = cachep /\ mount[d].cache
           /\ mount[d].cache /\ cachep # NULL =>
                 /\ caches[cachep].live
                 /\ caches[cachep].size = image[d].block_size
           /\ \A i \in DOMAIN contexts :
                 contexts[i].live =>
                     i = context /\ mount[d].compressor /\ UsesContext(d)
           /\ mount[d].compressor /\ UsesContext(d) =>
                 context # NULL /\ contexts[context].live
<1>1. TypeInv /\ CacheInv /\ ContextInv /\ MountOK(d)
  BY DEF Core, MountInv
<1>2. \A e \in Devices :
         (mount[e].cache => e = d) /\ (mount[e].compressor => e = d)
  BY DEF Unmounted
<1>3. /\ \A i \in DOMAIN caches :
            caches[i].live => i = cachep /\ mount[d].cache
      /\ mount[d].cache /\ cachep # NULL =>
            /\ caches[cachep].live
            /\ caches[cachep].size = image[d].block_size
  BY <1>1, <1>2 DEF CacheInv
<1>4. /\ \A i \in DOMAIN contexts :
            contexts[i].live =>
                i = context /\ mount[d].compressor /\ UsesContext(d)
      /\ mount[d].compressor /\ UsesContext(d) =>
            context # NULL /\ contexts[context].live
  BY <1>1, <1>2 DEF ContextInv
<1>5. /\ mount \in [Devices -> Mounting] /\ mount[d] \in Mounting
      /\ caches \in Seq(Cache) /\ cachep \in 0..Len(caches)
      /\ contexts \in Seq(Context) /\ context \in 0..Len(contexts)
  BY <1>1 DEF TypeInv
<1>. QED  BY <1>1, <1>3, <1>4, <1>5

\* Steps that leave the memory as it is, and only go on.
LEMMA MovesOn ==
    ASSUME Core, NEW d \in Devices, image' = image, reader' = reader,
           \A e \in Devices \ {d} : mount[e] = Unmounted,
           \A r \in Readers : reader[r].pc = "idle",
           caches' = caches, cachep' = cachep, contexts' = contexts,
           context' = context,
           mount' \in [Devices -> Mounting],
           \A e \in Devices \ {d} : mount'[e] = mount[e],
           MountOK(d)',
           mount'[d].cache = mount[d].cache,
           mount'[d].compressor = mount[d].compressor
    PROVE  Core'
  BY MountFacts, MountStep

\* The steps of fill_super that take nothing and give nothing back.
LEMMA QuietSteps ==
    ASSUME Core, OwnReasons, "overlap" \notin causes', NEW d \in Devices,
           \/ Mount(d) \/ ReadSuper(d) \/ FillSuperFails(d) \/ MakeRoot(d)
    PROVE  FaultsNeedCauses' /\ Core'
<1>. DEFINE pc == mount'[d].pc
<1>1. /\ fault' = "none" /\ image' = image /\ reader' = reader
      /\ caches' = caches /\ cachep' = cachep /\ contexts' = contexts
      /\ context' = context
  BY DEF Mount, ReadSuper, FillSuperFails, MakeRoot, MountIs, memory
<1>2. /\ \A e \in Devices \ {d} : mount[e] = Unmounted
      /\ \A r \in Readers : reader[r].pc = "idle"
  <2>1. CASE Mount(d)
    <3>1. \A e \in Devices : mount[e].pc = "unmounted"
      BY <2>1 DEF Mount, MountIs
    <3>2. \A e \in Devices : mount[e] = Unmounted
      BY <3>1 DEF Core, MountInv, MountOK
    <3>3. \A r \in Readers : reader[r].pc = "idle"
      BY <3>1 DEF Core, ReaderInv, ReaderOK
    <3>. QED  BY <3>2, <3>3
  <2>2. CASE ReadSuper(d) \/ FillSuperFails(d) \/ MakeRoot(d)
    <3>1. mount[d].pc \notin {"unmounted", "mounted"}
      BY <2>2 DEF ReadSuper, FillSuperFails, MakeRoot, MountIs
    <3>. QED  BY <3>1, NoReaders
  <2>. QED  BY <2>1, <2>2
<1>3. /\ mount' = [mount EXCEPT ![d].pc = pc]
      /\ \/ mount[d].pc = "unmounted" /\ pc = "super"
         \/ mount[d].pc = "super" /\ pc \in {"cache", "bail"}
         \/ mount[d].pc \in {"tables", "inodes", "root"} /\ pc = "bail"
         \/ mount[d].pc = "root" /\ pc = "mounted"
  <2>1. mount \in [Devices -> Mounting]
    BY <1>2, MountFacts
  <2>. QED  BY <2>1 DEF Mount, ReadSuper, FillSuperFails, MakeRoot, MountIs,
                        MountAt, Mounting
<1>. HIDE DEF pc
<1>4. /\ mount \in [Devices -> Mounting] /\ mount[d] \in Mounting /\ MountOK(d)
  BY <1>2, MountFacts
<1>5. pc \in MountPcs
  BY <1>3 DEF MountPcs
<1>6. /\ mount' \in [Devices -> Mounting]
      /\ \A e \in Devices \ {d} : mount'[e] = mount[e]
      /\ mount'[d].pc = pc /\ mount'[d].cbuffer = mount[d].cbuffer
      /\ mount'[d].cache = mount[d].cache
      /\ mount'[d].compressor = mount[d].compressor
  BY <1>3, <1>4, <1>5 DEF Mounting
<1>7. MountOK(d)'
  BY <1>1, <1>3, <1>4, <1>6 DEF MountOK, Unmounted
<1>8. Core'
  BY <1>1, <1>2, <1>6, <1>7, MovesOn
<1>9. FaultsNeedCauses'
  BY <1>1, Reasons
<1>. QED  BY <1>8, <1>9

LEMMA InitBlockCacheKeeps ==
    ASSUME Core, OwnReasons, NEW d \in Devices, InitBlockCache(d),
           image \in [Devices -> Image]
    PROVE  FaultsNeedCauses' /\ Core'
<1>1. /\ mount[d].pc = "cache" /\ fault' = "none" /\ image' = image
      /\ reader' = reader /\ contexts' = contexts /\ context' = context
  BY DEF InitBlockCache, MountIs
<1>2. /\ \A e \in Devices \ {d} : mount[e] = Unmounted
      /\ \A r \in Readers : reader[r].pc = "idle"
  BY <1>1, NoReaders
<1>3. /\ mount \in [Devices -> Mounting] /\ mount[d] \in Mounting
      /\ MountOK(d)
      /\ caches \in Seq(Cache) /\ cachep \in 0..Len(caches)
      /\ DOMAIN caches = 1..Len(caches) /\ Len(caches) \in Nat
      /\ \A i \in DOMAIN caches : ~caches[i].live
      /\ contexts \in Seq(Context) /\ context \in 0..Len(contexts)
      /\ \A i \in DOMAIN contexts : ~contexts[i].live
      /\ ~mount[d].compressor /\ mount[d].cbuffer = NULL
  BY <1>1, <1>2, MountFacts DEF MountOK
<1>4. FaultsNeedCauses'
  BY <1>1, Reasons
<1>5. CASE caches' = Append(caches, [size |-> image[d].block_size,
                                     live |-> TRUE])
           /\ cachep' = Len(caches')
           /\ mount' = [mount EXCEPT ![d] = [@ EXCEPT !.pc = "compressor",
                                                      !.cache = TRUE]]
  <2>1. [size |-> image[d].block_size, live |-> TRUE] \in Cache
    <3>1. image[d] \in Image
      OBVIOUS
    <3>2. image[d].block_size \in Nat
      BY <3>1 DEF Image
    <3>. QED  BY <3>2 DEF Cache
  <2>2. /\ caches' \in Seq(Cache) /\ Len(caches') = Len(caches) + 1
        /\ \A i \in 1..Len(caches) : caches'[i] = caches[i]
        /\ caches'[Len(caches) + 1].size = image[d].block_size
        /\ caches'[Len(caches) + 1].live
    BY <1>3, <1>5, <2>1, AppendProperties
  <2>3. /\ cachep' = Len(caches) + 1 /\ cachep' \in 0..Len(caches')
        /\ cachep' # NULL /\ DOMAIN caches' = 1..(Len(caches) + 1)
    BY <1>3, <1>5, <2>2 DEF NULL
  <2>4. /\ mount' \in [Devices -> Mounting]
        /\ \A e \in Devices \ {d} : mount'[e] = mount[e]
        /\ mount'[d].pc = "compressor" /\ mount'[d].cache
        /\ mount'[d].compressor = mount[d].compressor
        /\ mount'[d].cbuffer = mount[d].cbuffer
    BY <1>3, <1>5 DEF Mounting, MountPcs
  <2>5. MountOK(d)'
    BY <1>3, <2>3, <2>4 DEF MountOK
  <2>6. \A i \in DOMAIN caches' :
            caches'[i].live => i = cachep' /\ mount'[d].cache
    BY <1>3, <2>2, <2>3, <2>4
  <2>7. caches'[cachep'].live /\ caches'[cachep'].size = image[d].block_size
    BY <2>2, <2>3
  <2>8. Core'
    BY <1>1, <1>2, <1>3, <2>2, <2>3, <2>4, <2>5, <2>6, <2>7, MountStep
  <2>. QED  BY <1>4, <2>8
<1>6. CASE caches' = caches /\ cachep' = NULL
           /\ mount' = [mount EXCEPT ![d] = [@ EXCEPT !.pc = "bail",
                                                      !.cache = TRUE]]
  <2>1. /\ mount' \in [Devices -> Mounting]
        /\ \A e \in Devices \ {d} : mount'[e] = mount[e]
        /\ mount'[d].pc = "bail" /\ mount'[d].cache
        /\ mount'[d].compressor = mount[d].compressor
        /\ mount'[d].cbuffer = mount[d].cbuffer
    BY <1>3, <1>6 DEF Mounting, MountPcs
  <2>2. MountOK(d)'
    BY <1>3, <2>1 DEF MountOK
  <2>3. cachep' \in 0..Len(caches')
    BY <1>3, <1>6 DEF NULL
  <2>4. Core'
    BY <1>1, <1>2, <1>3, <1>6, <2>1, <2>2, <2>3, MountStep
  <2>. QED  BY <1>4, <2>4
<1>. QED  BY <1>5, <1>6 DEF InitBlockCache

LEMMA CreateCompressorKeeps ==
    ASSUME Core, OwnReasons, NEW d \in Devices,
           CreateCompressor(d) \/ CreateCompressorFails(d)
    PROVE  FaultsNeedCauses' /\ Core'
<1>1. /\ mount[d].pc = "compressor" /\ fault' = "none" /\ image' = image
      /\ reader' = reader /\ caches' = caches /\ cachep' = cachep
  BY DEF CreateCompressor, CreateCompressorFails, MountIs
<1>2. /\ \A e \in Devices \ {d} : mount[e] = Unmounted
      /\ \A r \in Readers : reader[r].pc = "idle"
  BY <1>1, NoReaders
<1>3. /\ mount \in [Devices -> Mounting] /\ mount[d] \in Mounting
      /\ MountOK(d)
      /\ caches \in Seq(Cache) /\ cachep \in 0..Len(caches)
      /\ \A i \in DOMAIN caches :
            caches[i].live => i = cachep /\ mount[d].cache
      /\ caches[cachep].live
      /\ caches[cachep].size = image[d].block_size
      /\ contexts \in Seq(Context) /\ context \in 0..Len(contexts)
      /\ DOMAIN contexts = 1..Len(contexts) /\ Len(contexts) \in Nat
      /\ \A i \in DOMAIN contexts : ~contexts[i].live
      /\ mount[d].cache /\ cachep # NULL
      /\ ~mount[d].compressor /\ mount[d].cbuffer = NULL
  BY <1>1, <1>2, MountFacts DEF MountOK
<1>4. FaultsNeedCauses'
  BY <1>1, Reasons
<1>5. CASE CreateCompressorFails(d)
  <2>1. /\ contexts' = contexts /\ context' = NULL
        /\ mount' = [mount EXCEPT ![d].pc = "bail"]
    BY <1>5 DEF CreateCompressorFails, MountAt
  <2>2. /\ mount' \in [Devices -> Mounting]
        /\ \A e \in Devices \ {d} : mount'[e] = mount[e]
        /\ mount'[d].pc = "bail" /\ mount'[d].cache = mount[d].cache
        /\ mount'[d].compressor = mount[d].compressor
        /\ mount'[d].cbuffer = mount[d].cbuffer
    BY <1>3, <2>1 DEF Mounting, MountPcs
  <2>3. MountOK(d)'
    BY <1>1, <1>3, <2>2 DEF MountOK
  <2>4. context' \in 0..Len(contexts')
    BY <1>3, <2>1 DEF NULL
  <2>5. Core'
    BY <1>1, <1>2, <1>3, <2>1, <2>2, <2>3, <2>4, MountStep
  <2>. QED  BY <1>4, <2>5
<1>6. CASE CreateCompressor(d)
  <2>1. /\ mount' \in [Devices -> Mounting]
        /\ \A e \in Devices \ {d} : mount'[e] = mount[e]
        /\ mount'[d].pc = "tables" /\ mount'[d].cache = mount[d].cache
        /\ mount'[d].compressor
        /\ mount'[d].cbuffer = mount[d].cbuffer
    BY <1>3, <1>6 DEF CreateCompressor, Mounting, MountPcs
  <2>2. MountOK(d)'
    BY <1>1, <1>3, <2>1 DEF MountOK
  <2>3. CASE ~UsesContext(d)
    <3>1. contexts' = contexts /\ context' = context
      BY <1>6, <2>3 DEF CreateCompressor
    <3>2. Core'
      BY <1>1, <1>2, <1>3, <2>1, <2>2, <2>3, <3>1, MountStep
    <3>. QED  BY <1>4, <3>2
  <2>4. CASE UsesContext(d)
    <3>1. contexts' = Append(contexts, NewContext) /\ context' = Len(contexts')
      BY <1>6, <2>4 DEF CreateCompressor
    <3>2. NewContext \in Context /\ NewContext.live
      BY DEF NewContext, Context, Stream
    <3>3. /\ contexts' \in Seq(Context) /\ Len(contexts') = Len(contexts) + 1
          /\ \A i \in 1..Len(contexts) : contexts'[i] = contexts[i]
          /\ contexts'[Len(contexts) + 1].live
      BY <1>3, <3>1, <3>2, AppendProperties
    <3>4. /\ context' = Len(contexts) + 1 /\ context' \in 0..Len(contexts')
          /\ context' # NULL /\ DOMAIN contexts' = 1..(Len(contexts) + 1)
      BY <1>3, <3>1, <3>3 DEF NULL
    <3>5. \A i \in DOMAIN contexts' : contexts'[i].live => i = context'
      BY <1>3, <3>3, <3>4
    <3>6. Core'
      BY <1>1, <1>2, <1>3, <2>1, <2>2, <2>4, <3>3, <3>4, <3>5, MountStep
    <3>. QED  BY <1>4, <3>6
  <2>. QED  BY <2>3, <2>4
<1>. QED  BY <1>5, <1>6

LEMMA BufferSteps ==
    ASSUME Core, OwnReasons, NEW d \in Devices,
           AllocateTables(d) \/ FreeBuffer(d)
    PROVE  FaultsNeedCauses' /\ Core'
<1>1. /\ mount[d].pc \in {"tables", "free"} /\ image' = image
      /\ reader' = reader /\ caches' = caches /\ cachep' = cachep
      /\ contexts' = contexts /\ context' = context
  BY DEF AllocateTables, FreeBuffer, MountIs, memory
<1>2. /\ \A e \in Devices \ {d} : mount[e] = Unmounted
      /\ \A r \in Readers : reader[r].pc = "idle"
  BY <1>1, NoReaders
<1>3. /\ mount \in [Devices -> Mounting] /\ mount[d] \in Mounting
      /\ MountOK(d) /\ cachep \in Nat /\ Live(cachep)
  <2>1. /\ mount[d].cache /\ cachep # NULL
    BY <1>1, <1>2, MountFacts DEF MountOK
  <2>. QED  BY <1>2, <2>1, MountFacts DEF Live
<1>4. CASE AllocateTables(d)
  <2>1. /\ mount' \in [Devices -> Mounting]
        /\ \A e \in Devices \ {d} : mount'[e] = mount[e]
        /\ mount'[d].pc = "inodes" /\ mount'[d].cache = mount[d].cache
        /\ mount'[d].compressor = mount[d].compressor
        /\ mount'[d].cbuffer = cachep
    BY <1>3, <1>4 DEF AllocateTables, Mounting, MountPcs
  <2>2. MountOK(d)'
    BY <1>1, <1>3, <1>4, <2>1 DEF MountOK, AllocateTables, MountIs
  <2>3. Core'
    BY <1>1, <1>2, <2>1, <2>2, MovesOn
  <2>4. fault' = "none"
    BY <1>3, <1>4 DEF AllocateTables, Unless
  <2>5. FaultsNeedCauses'
    BY <2>4, Reasons
  <2>. QED  BY <2>3, <2>5
<1>5. CASE FreeBuffer(d)
  <2>1. /\ mount' \in [Devices -> Mounting]
        /\ \A e \in Devices \ {d} : mount'[e] = mount[e]
        /\ mount'[d].pc = "root" /\ mount'[d].cache = mount[d].cache
        /\ mount'[d].compressor = mount[d].compressor
        /\ mount'[d].cbuffer = NULL
    BY <1>3, <1>5 DEF FreeBuffer, Mounting, MountPcs, NULL
  <2>2. MountOK(d)'
    BY <1>1, <1>3, <1>5, <2>1 DEF MountOK, FreeBuffer, MountIs
  <2>3. Core'
    BY <1>1, <1>2, <2>1, <2>2, MovesOn
  <2>4. mount[d].cbuffer = cachep
    BY <1>3, <1>5 DEF MountOK, FreeBuffer, MountIs
  <2>5. fault' = "none"
    BY <1>3, <1>5, <2>4 DEF FreeBuffer, Unless, CanFree
  <2>6. FaultsNeedCauses'
    BY <2>5, Reasons
  <2>. QED  BY <2>3, <2>6
<1>. QED  BY <1>4, <1>5

\* The contexts with another stream in the place of one.
LEMMA StreamsFacts ==
    ASSUME contexts \in Seq(Context), NEW c, NEW stream \in Context
    PROVE  /\ Streams(c, stream) \in Seq(Context)
           /\ Len(Streams(c, stream)) = Len(contexts)
           /\ DOMAIN Streams(c, stream) = 1..Len(contexts)
           /\ \A i \in 1..Len(contexts) :
                 Streams(c, stream)[i] = IF i = c THEN stream ELSE contexts[i]
<1>1. Len(contexts) \in Nat /\ DOMAIN contexts = 1..Len(contexts)
  OBVIOUS
<1>2. \A i \in 1..Len(contexts) : contexts[i] \in Context
  OBVIOUS
<1>3. Streams(c, stream) = [i \in 1..Len(contexts) |->
                               IF i = c THEN stream ELSE contexts[i]]
  BY <1>1 DEF Streams
<1>4. Streams(c, stream) \in [1..Len(contexts) -> Context]
  BY <1>2, <1>3
<1>5. Streams(c, stream) \in Seq(Context)
  BY <1>1, <1>4, SeqDef
<1>. QED  BY <1>1, <1>3, <1>5

LEMMA ReadInodesKeeps ==
    ASSUME Core, OwnReasons, NEW d \in Devices, ReadInodes(d),
           image \in [Devices -> Image]
    PROVE  FaultsNeedCauses' /\ (fault' = "none" => Core')
<1>1. /\ mount[d].pc = "inodes" /\ image' = image
      /\ reader' = reader /\ caches' = caches /\ cachep' = cachep
      /\ context' = context
  BY DEF ReadInodes, MountIs
<1>2. /\ \A e \in Devices \ {d} : mount[e] = Unmounted
      /\ \A r \in Readers : reader[r].pc = "idle"
  BY <1>1, NoReaders
<1>3. /\ mount \in [Devices -> Mounting] /\ mount[d] \in Mounting
      /\ MountOK(d)
      /\ caches \in Seq(Cache) /\ cachep \in 0..Len(caches)
      /\ \A i \in DOMAIN caches :
            caches[i].live => i = cachep /\ mount[d].cache
      /\ mount[d].cache /\ cachep # NULL
      /\ caches[cachep].live
      /\ caches[cachep].size = image[d].block_size
      /\ mount[d].cbuffer = cachep
      /\ mount[d].compressor
      /\ contexts \in Seq(Context) /\ context \in 0..Len(contexts)
      /\ DOMAIN contexts = 1..Len(contexts)
      /\ \A i \in DOMAIN contexts :
            contexts[i].live => i = context /\ UsesContext(d)
      /\ UsesContext(d) => context # NULL /\ contexts[context].live
  BY <1>1, <1>2, MountFacts DEF MountOK
<1>4. UsesContext(d) => Alive(context)
  BY <1>3 DEF Alive
<1>5. fault' = IF image[d].block_size < image[d].inodes_csize THEN "overflow"
               ELSE IF image[d].compression = "xz" THEN "null context"
               ELSE "none"
  BY <1>3, <1>4 DEF ReadInodes
<1>6. FaultsNeedCauses'
  <2>1. image[d] \in Image
    OBVIOUS
  <2>2. image[d].block_size \in Nat /\ image[d].inodes_csize \in Nat
    BY <2>1 DEF Image
  <2>3. fault' = "overflow" => image[d].inodes_csize > image[d].block_size
    BY <1>5, <2>2
  <2>4. fault' \in {"overflow", "null context", "none"}
    BY <1>5
  <2>. QED  BY <2>3, <2>4, Reasons
<1>7. /\ mount' \in [Devices -> Mounting]
      /\ \A e \in Devices \ {d} : mount'[e] = mount[e]
      /\ mount'[d].pc \in {"bail", "free"} /\ mount'[d].cache
      /\ mount'[d].compressor
      /\ mount'[d].cbuffer = cachep
  BY <1>3 DEF ReadInodes, MountAt, Mounting, MountPcs
<1>8. MountOK(d)'
  BY <1>1, <1>3, <1>7 DEF MountOK
<1>9. CASE ~UsesContext(d)
  <2>1. contexts' = contexts
    BY <1>9 DEF ReadInodes
  <2>2. Core'
    BY <1>1, <1>2, <1>3, <1>7, <1>8, <1>9, <2>1, MountStep
  <2>. QED  BY <1>6, <2>2
<1>10. CASE UsesContext(d)
  <2>1. contexts' = Streams(context, NewContext)
    BY <1>10 DEF ReadInodes
  <2>2. NewContext \in Context /\ NewContext.live
    BY DEF NewContext, Context, Stream
  <2>3. /\ contexts' \in Seq(Context) /\ Len(contexts') = Len(contexts)
        /\ DOMAIN contexts' = 1..Len(contexts)
        /\ \A i \in 1..Len(contexts) :
              contexts'[i] = IF i = context THEN NewContext ELSE contexts[i]
    BY <1>3, <2>1, <2>2, StreamsFacts
  <2>4. context \in 1..Len(contexts)
    BY <1>3, <1>10 DEF NULL
  <2>5. /\ contexts'[context].live
        /\ \A i \in DOMAIN contexts' : contexts'[i].live => i = context
    BY <1>3, <2>2, <2>3, <2>4
  <2>6. Core'
    BY <1>1, <1>2, <1>3, <1>7, <1>8, <1>10, <2>3, <2>5, MountStep
  <2>. QED  BY <1>6, <2>6
<1>. QED  BY <1>9, <1>10

LEMMA MakeRootFailsKeeps ==
    ASSUME OwnReasons, NEW d \in Devices, MakeRootFails(d)
    PROVE  FaultsNeedCauses' /\ fault' # "none"
<1>1. fault' \in {"null inode", "double iput"}
  BY DEF MakeRootFails
<1>. QED  BY <1>1, Reasons

\* destroy_blockcache leaves no cache that lives, if only that one did.
LEMMA DestroyedFacts ==
    ASSUME caches \in Seq(Cache),
           \A i \in DOMAIN caches : caches[i].live => i = cachep
    PROVE  /\ Destroyed \in Seq(Cache) /\ Len(Destroyed) = Len(caches)
           /\ \A i \in DOMAIN Destroyed : ~Destroyed[i].live
<1>1. Len(caches) \in Nat /\ DOMAIN caches = 1..Len(caches)
  OBVIOUS
<1>2. Destroyed = [i \in 1..Len(caches) |->
                      IF i = cachep THEN [caches[i] EXCEPT !.live = FALSE]
                      ELSE caches[i]]
  BY <1>1 DEF Destroyed
<1>3. ASSUME NEW i \in 1..Len(caches)
      PROVE  Destroyed[i] \in Cache /\ ~Destroyed[i].live
  <2>1. caches[i] \in Cache
    OBVIOUS
  <2>2. CASE i = cachep
    <3>1. Destroyed[i] = [caches[i] EXCEPT !.live = FALSE]
      BY <1>2, <2>2
    <3>. QED  BY <2>1, <3>1 DEF Cache
  <2>3. CASE i # cachep
    <3>1. Destroyed[i] = caches[i]
      BY <1>2, <2>3
    <3>2. caches[i].live = FALSE
      BY <1>1, <2>1, <2>3 DEF Cache
    <3>. QED  BY <2>1, <3>1, <3>2
  <2>. QED  BY <2>2, <2>3
<1>4. DOMAIN Destroyed = 1..Len(caches)
  BY <1>2
<1>5. Destroyed \in [1..Len(caches) -> Cache]
  BY <1>2, <1>3, <1>4
<1>6. Destroyed \in Seq(Cache)
  BY <1>1, <1>5, SeqDef
<1>. QED  BY <1>1, <1>3, <1>4, <1>6

\* So with the contexts, and compressor_destroy.
LEMMA ContextGone ==
    ASSUME contexts \in Seq(Context), NEW d \in Devices,
           \A i \in DOMAIN contexts :
               contexts[i].live => i = context /\ UsesContext(d)
    PROVE  /\ ContextDestroyed(d) \in Seq(Context)
           /\ Len(ContextDestroyed(d)) = Len(contexts)
           /\ \A i \in DOMAIN ContextDestroyed(d) :
                 ~ContextDestroyed(d)[i].live
<1>1. DOMAIN contexts = 1..Len(contexts)
  OBVIOUS
<1>2. CASE ~UsesContext(d)
  BY <1>1, <1>2 DEF ContextDestroyed
<1>3. CASE UsesContext(d)
  <2>1. PICK dead : dead = [NewContext EXCEPT !.live = FALSE]
    OBVIOUS
  <2>2. dead \in Context /\ ~dead.live
    BY <2>1 DEF NewContext, Context, Stream
  <2>3. ContextDestroyed(d) = Streams(context, dead)
    BY <1>3, <2>1 DEF ContextDestroyed
  <2>4. /\ Streams(context, dead) \in Seq(Context)
        /\ Len(Streams(context, dead)) = Len(contexts)
        /\ DOMAIN Streams(context, dead) = 1..Len(contexts)
        /\ \A i \in 1..Len(contexts) :
              Streams(context, dead)[i] = IF i = context THEN dead ELSE contexts[i]
    BY <2>2, StreamsFacts
  <2>. QED  BY <1>1, <2>2, <2>3, <2>4
<1>. QED  BY <1>2, <1>3

\* Everything is given back when the only mount ends.
LEMMA Given ==
    ASSUME Core, NEW d \in Devices, image' = image, reader' = reader,
           \A e \in Devices \ {d} : mount[e] = Unmounted,
           \A r \in Readers : reader[r].pc = "idle",
           mount' = [mount EXCEPT ![d] = Unmounted],
           caches' = Destroyed, cachep' = cachep, context' = context,
           contexts' = IF mount[d].compressor THEN ContextDestroyed(d)
                       ELSE contexts
    PROVE  Core'
<1>1. /\ mount \in [Devices -> Mounting]
      /\ caches \in Seq(Cache) /\ cachep \in 0..Len(caches)
      /\ \A i \in DOMAIN caches :
            caches[i].live => i = cachep /\ mount[d].cache
      /\ contexts \in Seq(Context) /\ context \in 0..Len(contexts)
      /\ \A i \in DOMAIN contexts :
            contexts[i].live =>
                i = context /\ mount[d].compressor /\ UsesContext(d)
  BY MountFacts
<1>2. /\ caches' \in Seq(Cache) /\ Len(caches') = Len(caches)
      /\ \A i \in DOMAIN caches' : ~caches'[i].live
  BY <1>1, DestroyedFacts
<1>3. /\ contexts' \in Seq(Context) /\ Len(contexts') = Len(contexts)
      /\ \A i \in DOMAIN contexts' : ~contexts'[i].live
  BY <1>1, ContextGone
<1>4. Unmounted \in Mounting /\ ~Unmounted.cache /\ ~Unmounted.compressor
  BY DEF Unmounted, Mounting, MountPcs, NULL
<1>5. /\ mount' \in [Devices -> Mounting] /\ mount'[d] = Unmounted
      /\ \A e \in Devices \ {d} : mount'[e] = mount[e]
  BY <1>1, <1>4
<1>6. MountOK(d)'
  BY <1>5 DEF MountOK, Unmounted
<1>. QED  BY <1>1, <1>2, <1>3, <1>4, <1>5, <1>6, MountStep

\* No one but d has a buffer.
LEMMA NoHolders ==
    ASSUME Core, NEW d \in Devices, cachep # NULL,
           \A e \in Devices \ {d} : mount[e] = Unmounted,
           \A r \in Readers : reader[r].pc = "idle"
    PROVE  Holders(cachep) \subseteq {d}
<1>1. \A r \in Readers : cachep \notin {reader[r].ubuffer, reader[r].cbuffer}
  BY DEF Core, ReaderInv, ReaderOK
<1>2. \A e \in Devices : mount[e].cbuffer = cachep => e = d
  BY DEF Unmounted
<1>. QED  BY <1>1, <1>2 DEF Holders

LEMMA FillSuperBailsKeeps ==
    ASSUME Core, OwnReasons, NEW d \in Devices, FillSuperBails(d)
    PROVE  FaultsNeedCauses' /\ Core'
<1>1. /\ mount[d].pc = "bail" /\ image' = image /\ reader' = reader
      /\ caches' = Destroyed /\ cachep' = cachep /\ context' = context
      /\ contexts' = IF mount[d].compressor THEN ContextDestroyed(d)
                     ELSE contexts
      /\ mount' = [mount EXCEPT ![d] = Unmounted]
  BY DEF FillSuperBails, MountIs
<1>2. /\ \A e \in Devices \ {d} : mount[e] = Unmounted
      /\ \A r \in Readers : reader[r].pc = "idle"
  BY <1>1, NoReaders
<1>3. Core'
  BY <1>1, <1>2, Given
<1>4. /\ mount[d].cache /\ cachep # NULL => Live(cachep)
      /\ mount[d].compressor => CanDestroyContext(d)
      /\ mount[d].cbuffer # NULL => mount[d].cbuffer = cachep /\ mount[d].cache
  <2>1. /\ MountOK(d)
        /\ mount[d].cache /\ cachep # NULL => caches[cachep].live
        /\ mount[d].compressor /\ UsesContext(d) =>
              context # NULL /\ contexts[context].live
    BY <1>2, MountFacts
  <2>. QED  BY <2>1 DEF MountOK, Live, Alive, CanDestroyContext
<1>5. CanFree({mount[d].cbuffer})
  BY <1>4 DEF CanFree
<1>6. fault' = DestroyFault(d)
  BY <1>4, <1>5 DEF FillSuperBails
<1>7. DestroyFault(d) \in {"none", "dead cache"}
  BY <1>2, NoHolders DEF DestroyFault
<1>8. DestroyFault(d) = "dead cache" => ~mount[d].cache
  BY <1>4 DEF DestroyFault
<1>9. fault' = "dead cache" => "early bail" \in causes'
  BY <1>6, <1>8 DEF FillSuperBails
<1>10. FaultsNeedCauses'
  BY <1>6, <1>7, <1>9, Reasons
<1>. QED  BY <1>3, <1>10

LEMMA PutSuperKeeps ==
    ASSUME Core, OwnReasons, NEW d \in Devices, PutSuper(d)
    PROVE  FaultsNeedCauses' /\ Core'
<1>1. /\ mount[d].pc = "mounted" /\ image' = image /\ reader' = reader
      /\ caches' = Destroyed /\ cachep' = cachep /\ context' = context
      /\ contexts' = ContextDestroyed(d)
      /\ mount' = [mount EXCEPT ![d] = Unmounted]
      /\ \A r \in Readers : reader[r].pc # "idle" => reader[r].device # d
  BY DEF PutSuper, MountIs
<1>2. \A e \in Devices \ {d} : mount[e] = Unmounted
  BY <1>1 DEF Core, AloneInv, MountInv, MountOK
<1>3. ASSUME NEW r \in Readers, reader[r].pc # "idle"
      PROVE  FALSE
  <2>1. /\ reader[r].device \in Devices
        /\ mount[reader[r].device].pc = "mounted"
    BY <1>3 DEF Core, ReaderInv, ReaderOK
  <2>2. reader[r].device = d
    BY <1>1, <2>1 DEF Core, AloneInv
  <2>. QED  BY <1>1, <1>3, <2>2
<1>4. \A r \in Readers : reader[r].pc = "idle"
  BY <1>3
<1>5. /\ mount[d].compressor /\ mount[d].cbuffer = NULL
      /\ cachep # NULL => Live(cachep)
      /\ CanDestroyContext(d)
  <2>1. /\ MountOK(d)
        /\ mount[d].cache /\ cachep # NULL => caches[cachep].live
        /\ mount[d].compressor /\ UsesContext(d) =>
              context # NULL /\ contexts[context].live
    BY <1>2, MountFacts
  <2>. QED  BY <1>1, <2>1 DEF MountOK, Live, Alive, CanDestroyContext
<1>6. Core'
  BY <1>1, <1>2, <1>4, <1>5, Given
<1>7. cachep # NULL => Holders(cachep) = {}
  <2>1. cachep # NULL =>
            \A r \in Readers : cachep \notin {reader[r].ubuffer, reader[r].cbuffer}
    BY <1>4 DEF Core, ReaderInv, ReaderOK
  <2>2. cachep # NULL => \A e \in Devices : mount[e].cbuffer # cachep
    BY <1>2, <1>5 DEF Unmounted
  <2>. QED  BY <2>1, <2>2 DEF Holders
<1>8. fault' = "none"
  BY <1>5, <1>7 DEF PutSuper, DestroyFault
<1>9. FaultsNeedCauses'
  BY <1>8, Reasons
<1>. QED  BY <1>6, <1>9

LEMMA DeviceKeeps ==
    ASSUME IInv, fault = "none", NEW d \in Devices, DeviceStep(d)
    PROVE  IInv'
<1>1. OwnReasons
  BY DeviceReasons DEF IInv
<1>2. CASE "overlap" \in causes'
  BY <1>1, <1>2, OverlapStep
<1>3. CASE "overlap" \notin causes'
  <2>1. Core /\ image \in [Devices -> Image]
    BY <1>1, <1>3 DEF IInv, OwnReasons
  <2>2. FaultsNeedCauses' /\ (fault' = "none" => Core')
    <3>1. CASE \/ Mount(d) \/ ReadSuper(d) \/ FillSuperFails(d) \/ MakeRoot(d)
      BY <1>1, <1>3, <2>1, <3>1, QuietSteps
    <3>2. CASE InitBlockCache(d)
      BY <1>1, <2>1, <3>2, InitBlockCacheKeeps
    <3>3. CASE CreateCompressor(d) \/ CreateCompressorFails(d)
      BY <1>1, <2>1, <3>3, CreateCompressorKeeps
    <3>4. CASE AllocateTables(d) \/ FreeBuffer(d)
      BY <1>1, <2>1, <3>4, BufferSteps
    <3>5. CASE ReadInodes(d)
      BY <1>1, <2>1, <3>5, ReadInodesKeeps
    <3>6. CASE MakeRootFails(d)
      BY <1>1, <3>6, MakeRootFailsKeeps
    <3>7. CASE FillSuperBails(d)
      BY <1>1, <2>1, <3>7, FillSuperBailsKeeps
    <3>8. CASE PutSuper(d)
      BY <1>1, <2>1, <3>8, PutSuperKeeps
    <3>. QED  BY <3>1, <3>2, <3>3, <3>4, <3>5, <3>6, <3>7, <3>8
                 DEF DeviceStep
  <2>3. reader' = reader
    BY DEF DeviceStep, Mount, ReadSuper, FillSuperFails, InitBlockCache,
           CreateCompressor, CreateCompressorFails, AllocateTables,
           ReadInodes, FreeBuffer, MakeRoot, MakeRootFails, FillSuperBails,
           PutSuper
  <2>4. ReadsRightAlone'
    BY <1>1, <2>3, ReadsKept DEF IInv, OwnReasons
  <2>. QED  BY <1>1, <2>1, <2>2, <2>4 DEF IInv, OwnReasons
<1>. QED  BY <1>2, <1>3

-----------------------------------------------------------------------------
(***************************************************************************)
(* Steps of readers                                                        *)
(***************************************************************************)
\* What a reader that is in node_read finds.
LEMMA ActiveReader ==
    ASSUME Core, NEW r \in Readers, reader[r].pc # "idle"
    PROVE  /\ reader[r].device \in Devices
           /\ cachep # NULL /\ Live(cachep)
           /\ caches[cachep].size = image[reader[r].device].block_size
           /\ UsesContext(reader[r].device) =>
                 Alive(context) /\ context \in 1..Len(contexts)
           /\ \A q \in Readers :
                 reader[q].pc # "idle" => reader[q].device = reader[r].device
<1>. DEFINE d == reader[r].device
<1>1. d \in Devices /\ mount[d].pc = "mounted"
  BY DEF Core, ReaderInv, ReaderOK
<1>2. mount[d].cache /\ cachep # NULL /\ mount[d].compressor
  BY <1>1 DEF Core, MountInv, MountOK
<1>3. caches[cachep].live /\ caches[cachep].size = image[d].block_size
  BY <1>1, <1>2 DEF Core, CacheInv
<1>4. UsesContext(d) => context # NULL /\ contexts[context].live
  BY <1>1, <1>2 DEF Core, ContextInv
<1>5. context \in 0..Len(contexts) /\ Len(contexts) \in Nat
  BY DEF Core, TypeInv
<1>6. context # NULL => context \in 1..Len(contexts)
  BY <1>5 DEF NULL
<1>7. ASSUME NEW q \in Readers, reader[q].pc # "idle"
      PROVE  reader[q].device = d
  <2>1. reader[q].device \in Devices /\ mount[reader[q].device].pc = "mounted"
    BY <1>7 DEF Core, ReaderInv, ReaderOK
  <2>. QED  BY <1>1, <2>1 DEF Core, AloneInv
<1>. QED  BY <1>1, <1>2, <1>3, <1>4, <1>6, <1>7 DEF Live, Alive

\* A step that leaves the mounts, and which caches and contexts live.
LEMMA CoreKept ==
    ASSUME Core, image' = image, mount' = mount, cachep' = cachep,
           caches' = caches, context' = context,
           contexts' \in Seq(Context), Len(contexts') = Len(contexts),
           \A i \in 1..Len(contexts) : contexts'[i].live = contexts[i].live,
           reader' \in [Readers -> Reading], ReaderInv', StreamInv'
    PROVE  Core'
<1>1. TypeInv'
  BY DEF Core, TypeInv
<1>2. AloneInv' /\ MountInv' /\ CacheInv'
  BY DEF Core, AloneInv, MountInv, MountOK, CacheInv
<1>3. /\ DOMAIN contexts = 1..Len(contexts)
      /\ DOMAIN contexts' = 1..Len(contexts)
      /\ context \in 0..Len(contexts)
      /\ Len(contexts) \in Nat
  BY DEF Core, TypeInv
<1>4. context # NULL => context \in 1..Len(contexts)
  BY <1>3 DEF NULL
<1>5. ContextInv'
  BY <1>3, <1>4 DEF Core, ContextInv, UsesContext
<1>. QED  BY <1>1, <1>2, <1>5 DEF Core

\* A step of one reader outside of gzip_uncompress.
LEMMA OneReader ==
    ASSUME Core, NEW r \in Readers,
           image' = image, mount' = mount, cachep' = cachep,
           caches' = caches, context' = context, contexts' = contexts,
           NEW reading \in Reading, reader' = [reader EXCEPT ![r] = reading],
           reading.pc \notin {"out", "inflate"},
           reading.pc = "copy" => \A q \in Readers : reader[q].pc # "inflate",
           ReaderOK(r)'
    PROVE  Core'
<1>1. /\ reader \in [Readers -> Reading] /\ contexts \in Seq(Context)
  BY DEF Core, TypeInv
<1>2. /\ reader' \in [Readers -> Reading] /\ reader'[r] = reading
      /\ \A q \in Readers \ {r} : reader'[q] = reader[q]
  BY <1>1
<1>3. ReaderInv'
  <2>1. ASSUME NEW q \in Readers \ {r}
        PROVE  ReaderOK(q)'
    BY <1>2, <2>1 DEF Core, ReaderInv, ReaderOK, UsesContext
  <2>. QED  BY <2>1 DEF ReaderInv
<1>4. StreamInv'
  BY <1>2 DEF Core, StreamInv, Inside
<1>. QED  BY <1>1, <1>2, <1>3, <1>4, CoreKept

LEMMA ReadsOthers ==
    ASSUME ReadsRightAlone, NEW r \in Readers, causes \subseteq causes',
           \A q \in Readers \ {r} :
              /\ reader'[q].pc = reader[q].pc
              /\ reader'[q].result = reader[q].result
              /\ reader'[q].block = reader[q].block
              /\ reader[q].shared => reader'[q].shared,
           reader'[r].pc # "idle"
    PROVE  ReadsRightAlone'
  BY DEF ReadsRightAlone, Succeeded

LEMMA ReadKeeps ==
    ASSUME IInv, Core, OwnReasons, NEW r \in Readers, NEW d \in Devices,
           Read(r, d)
    PROVE  FaultsNeedCauses' /\ ReadsRightAlone' /\ Core'
<1>1. /\ image' = image /\ mount' = mount /\ cachep' = cachep
      /\ caches' = caches /\ context' = context /\ contexts' = contexts
      /\ fault' = "none" /\ causes' = causes
      /\ mount[d].pc = "mounted"
  BY DEF Read, ReaderIs, memory
<1>2. PICK reading : reading = [Idle EXCEPT !.pc = "ubuffer", !.device = d,
                                            !.block = reads']
  OBVIOUS
<1>3. /\ reading \in Reading /\ reading.pc = "ubuffer" /\ reading.device = d
      /\ reading.ubuffer = NULL /\ reading.cbuffer = NULL
  <2>1. reading = [pc |-> "ubuffer", device |-> d, block |-> reads',
                   ubuffer |-> 0, cbuffer |-> 0, context |-> 0, data |-> -1,
                   result |-> 0, shared |-> FALSE]
    BY <1>2 DEF Idle, NULL, Stale, NoBlock
  <2>2. reads' \in Int
    <3>1. reads' \in Nat
      BY DEF OwnReasons
    <3>. QED  BY <3>1
  <2>. QED  BY <2>1, <2>2 DEF Reading, ReaderPcs, NULL
<1>4. reader' = [reader EXCEPT ![r] = reading]
  BY <1>2 DEF Read
<1>5. reader \in [Readers -> Reading]
  BY DEF Core, TypeInv
<1>6. reader'[r] = reading /\ \A q \in Readers \ {r} : reader'[q] = reader[q]
  BY <1>4, <1>5
<1>7. ReaderOK(r)'
  BY <1>1, <1>3, <1>6 DEF ReaderOK
<1>8. Core'
  BY <1>1, <1>3, <1>4, <1>7, OneReader
<1>9. ReadsRightAlone'
  BY <1>1, <1>3, <1>6, ReadsOthers DEF IInv
<1>10. FaultsNeedCauses'
  BY <1>1, Reasons
<1>. QED  BY <1>8, <1>9, <1>10

\* The two buffers are taken, or node_read gives up.
LEMMA AllocateKeeps ==
    ASSUME IInv, Core, OwnReasons, NEW r \in Readers,
           AllocateUbuffer(r) \/ AllocateCbuffer(r) \/ NodeReadFails(r)
    PROVE  FaultsNeedCauses' /\ ReadsRightAlone' /\ Core'
<1>1. /\ image' = image /\ mount' = mount /\ cachep' = cachep
      /\ caches' = caches /\ context' = context /\ contexts' = contexts
      /\ causes' = causes /\ reader[r].pc \in {"ubuffer", "cbuffer", "fill"}
  BY DEF AllocateUbuffer, AllocateCbuffer, NodeReadFails, ReaderIs, memory
<1>2. cachep # NULL /\ Live(cachep) /\ cachep \in Nat
  BY <1>1, ActiveReader DEF Core, TypeInv
<1>3. fault' = "none"
  BY <1>2 DEF AllocateUbuffer, AllocateCbuffer, NodeReadFails, ReaderIs, Unless
<1>4. reader \in [Readers -> Reading] /\ reader[r] \in Reading /\ ReaderOK(r)
  BY DEF Core, TypeInv, ReaderInv
<1>5. PICK reading : reader' = [reader EXCEPT ![r] = reading]
                     /\ \/ /\ reading = [reader[r] EXCEPT !.pc = "cbuffer",
                                                          !.ubuffer = cachep]
                           /\ reader[r].pc = "ubuffer"
                        \/ /\ reading = [reader[r] EXCEPT !.pc = "fill",
                                                          !.cbuffer = cachep]
                           /\ reader[r].pc = "cbuffer"
                        \/ reading = [reader[r] EXCEPT !.pc = "bail"]
  <2>1. CASE AllocateUbuffer(r)
    BY <2>1 DEF AllocateUbuffer, ReaderIs
  <2>2. CASE AllocateCbuffer(r)
    BY <2>2 DEF AllocateCbuffer, ReaderIs
  <2>3. CASE NodeReadFails(r)
    BY <2>3 DEF NodeReadFails, ReaderAt
  <2>. QED  BY <2>1, <2>2, <2>3
<1>6. /\ reading \in Reading /\ reading.pc \in {"cbuffer", "fill", "bail"}
      /\ reading.device = reader[r].device
      /\ reading.ubuffer \in {reader[r].ubuffer, cachep}
      /\ reading.cbuffer \in {reader[r].cbuffer, cachep}
      /\ reading.pc \in {"cbuffer", "fill"} => reading.ubuffer = cachep
      /\ reading.pc = "fill" => reading.cbuffer = cachep
  <2>1. reader[r].pc = "cbuffer" => reader[r].ubuffer = cachep
    BY <1>4 DEF ReaderOK
  <2>. QED  BY <1>2, <1>4, <1>5, <2>1 DEF Reading, ReaderPcs
<1>7. reader'[r] = reading /\ \A q \in Readers \ {r} : reader'[q] = reader[q]
  BY <1>4, <1>5
<1>8. ReaderOK(r)'
  BY <1>1, <1>4, <1>6, <1>7 DEF ReaderOK
<1>9. Core'
  BY <1>1, <1>5, <1>6, <1>8, OneReader
<1>10. ReadsRightAlone'
  BY <1>1, <1>6, <1>7, ReadsOthers DEF IInv
<1>11. FaultsNeedCauses'
  BY <1>3, Reasons
<1>. QED  BY <1>9, <1>10, <1>11

LEMMA AllocateCbufferFailsKeeps ==
    ASSUME IInv, OwnReasons, NEW r \in Readers, AllocateCbufferFails(r)
    PROVE  FaultsNeedCauses' /\ ReadsRightAlone' /\ fault' # "none"
<1>1. /\ fault' = "double free" /\ reader' = reader
  BY DEF AllocateCbufferFails
<1>2. ReadsRightAlone'
  BY <1>1, ReadsKept DEF IInv, OwnReasons
<1>3. FaultsNeedCauses'
  BY <1>1, Reasons
<1>. QED  BY <1>1, <1>2, <1>3

LEMMA FillBlockKeeps ==
    ASSUME IInv, Core, OwnReasons, NEW r \in Readers, FillBlock(r)
    PROVE  FaultsNeedCauses' /\ ReadsRightAlone' /\ Core'
<1>. DEFINE d == reader[r].device
<1>1. /\ image' = image /\ mount' = mount /\ cachep' = cachep
      /\ caches' = caches /\ context' = context /\ contexts' = contexts
      /\ causes' = causes /\ reader[r].pc = "fill"
  BY DEF FillBlock, ReaderIs, memory
<1>2. /\ d \in Devices /\ caches[cachep].size = image[d].block_size
      /\ \A q \in Readers : reader[q].pc # "idle" => reader[q].device = d
  BY <1>1, ActiveReader
<1>3. reader \in [Readers -> Reading] /\ reader[r] \in Reading /\ ReaderOK(r)
  BY DEF Core, TypeInv, ReaderInv
<1>4. reader[r].ubuffer = cachep /\ reader[r].cbuffer = cachep
  BY <1>1, <1>3 DEF ReaderOK
<1>5. fault' = "none"
  <2>1. image[d] \in Image
    BY <1>2 DEF IInv
  <2>2. image[d].block_size \in Nat
    BY <2>1 DEF Image
  <2>3. image[d].block_size =< caches[cachep].size
    BY <1>2, <2>2
  <2>. QED  BY <1>4, <2>3 DEF FillBlock, Unless
<1>6. PICK reading : reader' = [reader EXCEPT ![r] = reading]
                     /\ \/ /\ reading = [reader[r] EXCEPT !.pc = "in"]
                           /\ UsesContext(d)
                        \/ /\ reading = [reader[r] EXCEPT
                                            !.pc = "copy",
                                            !.data = reader[r].block]
                           /\ ~UsesContext(d)
  <2>1. CASE UsesContext(d)
    BY <2>1 DEF FillBlock, ReaderAt
  <2>2. CASE ~UsesContext(d)
    BY <2>2 DEF FillBlock
  <2>. QED  BY <2>1, <2>2
<1>7. /\ reading \in Reading /\ reading.pc \in {"in", "copy"}
      /\ reading.device = reader[r].device
      /\ reading.ubuffer = cachep /\ reading.cbuffer = cachep
      /\ reading.pc = "in" => UsesContext(d)
      /\ reading.pc = "copy" => reading.data = reading.block /\ ~UsesContext(d)
  <2>1. CASE reading = [reader[r] EXCEPT !.pc = "in"] /\ UsesContext(d)
    BY <1>3, <1>4, <2>1 DEF Reading, ReaderPcs
  <2>2. CASE reading = [reader[r] EXCEPT !.pc = "copy",
                                         !.data = reader[r].block]
             /\ ~UsesContext(d)
    <3>1. reader[r].block \in Int
      BY <1>3 DEF Reading
    <3>. QED  BY <1>3, <1>4, <2>2, <3>1 DEF Reading, ReaderPcs
  <2>. QED  BY <1>6, <2>1, <2>2
<1>8. reader'[r] = reading /\ \A q \in Readers \ {r} : reader'[q] = reader[q]
  BY <1>3, <1>6
<1>9. ReaderOK(r)'
  BY <1>1, <1>3, <1>7, <1>8 DEF ReaderOK, UsesContext
<1>10. ASSUME NEW q \in Readers, reading.pc = "copy"
       PROVE  reader[q].pc # "inflate"
  BY <1>2, <1>7, <1>10 DEF Core, ReaderInv, ReaderOK
<1>11. Core'
  BY <1>1, <1>6, <1>7, <1>9, <1>10, OneReader
<1>12. ReadsRightAlone'
  BY <1>1, <1>7, <1>8, ReadsOthers DEF IInv
<1>13. FaultsNeedCauses'
  BY <1>5, Reasons
<1>. QED  BY <1>11, <1>12, <1>13

LEMMA ReturnKeeps ==
    ASSUME IInv, Core, OwnReasons, NEW r \in Readers,
           CopyOut(r) \/ NodeReadBails(r)
    PROVE  FaultsNeedCauses' /\ ReadsRightAlone' /\ Core'
<1>1. PICK result : /\ Return(r, result)
                    /\ \/ reader[r].pc = "copy" /\ result = reader[r].data
                       \/ reader[r].pc = "bail" /\ result = EIO
  BY DEF CopyOut, NodeReadBails, ReaderIs
<1>2. /\ image' = image /\ mount' = mount /\ cachep' = cachep
      /\ caches' = caches /\ context' = context /\ contexts' = contexts
      /\ causes' = causes
  BY <1>1 DEF Return, memory
<1>3. reader \in [Readers -> Reading] /\ reader[r] \in Reading /\ ReaderOK(r)
  BY DEF Core, TypeInv, ReaderInv
<1>4. cachep # NULL /\ Live(cachep)
  BY <1>1, ActiveReader
<1>5. CanFree({reader[r].ubuffer, reader[r].cbuffer})
  BY <1>3, <1>4 DEF ReaderOK, CanFree
<1>6. fault' = "none"
  BY <1>1, <1>5 DEF Return, Unless
<1>7. PICK reading : reading = Returned(r, result)
  OBVIOUS
<1>8. /\ reading \in Reading /\ reading.pc = "idle"
      /\ reading.ubuffer = NULL /\ reading.cbuffer = NULL
      /\ reading.result = result /\ reading.block = reader[r].block
      /\ reading.shared = reader[r].shared
  <2>1. result \in Int
    BY <1>1, <1>3 DEF Reading, EIO
  <2>2. reading = [pc |-> "idle", device |-> NoOne, block |-> reader[r].block,
                   ubuffer |-> 0, cbuffer |-> 0, context |-> 0, data |-> -1,
                   result |-> result, shared |-> reader[r].shared]
    BY <1>7 DEF Returned, Idle, NULL, Stale, NoBlock
  <2>3. reader[r].block \in Int /\ reader[r].shared \in BOOLEAN
    BY <1>3 DEF Reading
  <2>. QED  BY <2>1, <2>2, <2>3 DEF Reading, ReaderPcs, NULL
<1>9. reader' = [reader EXCEPT ![r] = reading]
  BY <1>1, <1>7 DEF Return
<1>10. reader'[r] = reading /\ \A q \in Readers \ {r} : reader'[q] = reader[q]
  BY <1>3, <1>9
<1>11. ReaderOK(r)'
  BY <1>8, <1>10 DEF ReaderOK
<1>12. Core'
  BY <1>2, <1>8, <1>9, <1>11, OneReader
<1>13. ReadsRightAlone'
  <2>1. ASSUME NEW q \in Readers, Succeeded(q)', ~reader'[q].shared,
               "overlap" \notin causes
        PROVE  reader'[q].result = reader'[q].block
    <3>1. CASE q = r
      <4>1. result # EIO
        BY <1>8, <1>10, <2>1, <3>1 DEF Succeeded
      <4>2. reader[r].pc = "copy" /\ result = reader[r].data
        BY <1>1, <4>1
      <4>3. ~reader[r].shared
        BY <1>8, <1>10, <2>1, <3>1
      <4>4. reader[r].data = reader[r].block
        BY <1>3, <4>2, <4>3 DEF ReaderOK
      <4>. QED  BY <1>8, <1>10, <3>1, <4>2, <4>4
    <3>2. CASE q # r
      <4>1. reader'[q] = reader[q]
        BY <1>10, <3>2
      <4>. QED  BY <2>1, <4>1 DEF IInv, ReadsRightAlone, Succeeded
    <3>. QED  BY <3>1, <3>2
  <2>. QED  BY <1>2, <2>1 DEF ReadsRightAlone
<1>14. FaultsNeedCauses'
  BY <1>6, Reasons
<1>. QED  BY <1>12, <1>13, <1>14

LEMMA SetInputKeeps ==
    ASSUME IInv, Core, OwnReasons, NEW r \in Readers, SetInput(r)
    PROVE  FaultsNeedCauses' /\ ReadsRightAlone' /\ Core'
<1>1. /\ image' = image /\ mount' = mount /\ cachep' = cachep
      /\ caches' = caches /\ context' = context /\ causes' = causes
      /\ reader[r].pc = "in"
  BY DEF SetInput, ReaderIs
<1>2. /\ reader \in [Readers -> Reading] /\ contexts \in Seq(Context)
      /\ reader[r] \in Reading /\ ReaderOK(r)
  BY DEF Core, TypeInv, ReaderInv
<1>3. /\ Alive(context) /\ context \in 1..Len(contexts)
      /\ contexts[context] \in Context
  BY <1>1, <1>2, ActiveReader DEF ReaderOK
<1>4. fault' = "none"
  BY <1>3 DEF SetInput, Unless
<1>5. PICK stream : stream = Begun(r, contexts[context])
  OBVIOUS
<1>6. /\ stream \in Context /\ stream.live = contexts[context].live
      /\ stream.in = r /\ ~stream.ended /\ stream.out = contexts[context].out
  BY <1>3, <1>5 DEF Begun, Context, Stream
<1>7. contexts' = Streams(context, stream)
  BY <1>3, <1>5 DEF SetInput
<1>8. /\ contexts' \in Seq(Context) /\ Len(contexts') = Len(contexts)
      /\ \A i \in 1..Len(contexts) : contexts'[i].live = contexts[i].live
      /\ contexts'[context] = stream
  BY <1>2, <1>3, <1>6, <1>7, StreamsFacts
<1>9. reader' = [Sharing(r) EXCEPT ![r] = [@ EXCEPT !.pc = "out",
                                                    !.context = context]]
  BY DEF SetInput
<1>10. PICK inside : inside = {q \in Readers \ {r} : Inside(q)}
  OBVIOUS
<1>11. Sharing(r) = [q \in Readers |->
                       IF inside # {} /\ q \in inside \cup {r}
                       THEN [reader[q] EXCEPT !.shared = TRUE] ELSE reader[q]]
  BY <1>10 DEF Sharing, Inside
<1>12. ASSUME NEW q \in Readers
       PROVE  /\ Sharing(r)[q] \in Reading
              /\ Sharing(r)[q].pc = reader[q].pc
              /\ Sharing(r)[q].device = reader[q].device
              /\ Sharing(r)[q].block = reader[q].block
              /\ Sharing(r)[q].ubuffer = reader[q].ubuffer
              /\ Sharing(r)[q].cbuffer = reader[q].cbuffer
              /\ Sharing(r)[q].context = reader[q].context
              /\ Sharing(r)[q].data = reader[q].data
              /\ Sharing(r)[q].result = reader[q].result
              /\ reader[q].shared => Sharing(r)[q].shared
              /\ inside # {} /\ q \in inside \cup {r} => Sharing(r)[q].shared
  <2>1. reader[q] \in Reading
    BY <1>2
  <2>2. CASE inside # {} /\ q \in inside \cup {r}
    <3>1. Sharing(r)[q] = [reader[q] EXCEPT !.shared = TRUE]
      BY <1>11, <2>2
    <3>. QED  BY <2>1, <3>1 DEF Reading
  <2>3. CASE ~(inside # {} /\ q \in inside \cup {r})
    <3>1. Sharing(r)[q] = reader[q]
      BY <1>11, <2>3
    <3>. QED  BY <2>1, <2>3, <3>1
  <2>. QED  BY <2>2, <2>3
<1>13. Sharing(r) \in [Readers -> Reading]
  BY <1>11, <1>12
<1>14. /\ reader' \in [Readers -> Reading]
       /\ \A q \in Readers \ {r} : reader'[q] = Sharing(r)[q]
       /\ reader'[r] = [Sharing(r)[r] EXCEPT !.pc = "out", !.context = context]
  <2>1. context \in Nat
    BY <1>3 DEF Core, TypeInv
  <2>2. Sharing(r)[r] \in Reading
    BY <1>13
  <2>3. [Sharing(r)[r] EXCEPT !.pc = "out", !.context = context] \in Reading
    BY <2>1, <2>2 DEF Reading, ReaderPcs
  <2>. QED  BY <1>9, <1>13, <2>3
<1>15. /\ reader'[r].pc = "out" /\ reader'[r].context = context
       /\ reader'[r].device = reader[r].device
       /\ reader'[r].ubuffer = reader[r].ubuffer
       /\ reader'[r].cbuffer = reader[r].cbuffer
       /\ inside # {} => reader'[r].shared
  <2>1. Sharing(r)[r] \in Reading
    BY <1>13
  <2>. QED  BY <1>12, <1>14, <2>1 DEF Reading
<1>16. ReaderInv'
  <2>1. ReaderOK(r)'
    BY <1>1, <1>2, <1>15 DEF ReaderOK, UsesContext
  <2>2. ASSUME NEW q \in Readers \ {r}
        PROVE  ReaderOK(q)'
    <3>1. ReaderOK(q)
      BY DEF Core, ReaderInv
    <3>. QED  BY <1>1, <1>12, <1>14, <3>1 DEF ReaderOK, UsesContext
  <2>. QED  BY <2>1, <2>2 DEF ReaderInv
<1>17. \A q \in Readers \ {r} :
          /\ reader'[q].pc = reader[q].pc
          /\ reader'[q].result = reader[q].result
          /\ reader'[q].block = reader[q].block
          /\ reader[q].shared => reader'[q].shared
          /\ Inside(q) => reader'[q].shared /\ reader'[r].shared
  <2>1. ASSUME NEW q \in Readers \ {r}, Inside(q)
        PROVE  q \in inside
    BY <1>10, <2>1
  <2>. QED  BY <1>12, <1>14, <1>15, <2>1
<1>18. StreamInv'
  BY <1>1, <1>6, <1>8, <1>15, <1>17 DEF Core, StreamInv, Inside
<1>19. Core'
  BY <1>1, <1>8, <1>14, <1>16, <1>18, CoreKept
<1>20. ReadsRightAlone'
  BY <1>1, <1>15, <1>17, ReadsOthers DEF IInv
<1>21. FaultsNeedCauses'
  BY <1>4, Reasons
<1>. QED  BY <1>19, <1>20, <1>21

\* One context's stream changed in place.
LEMMA StreamPut ==
    ASSUME contexts \in Seq(Context), NEW c \in 1..Len(contexts),
           NEW stream \in Context, stream.live = contexts[c].live,
           contexts' = [contexts EXCEPT ![c] = stream]
    PROVE  /\ contexts' \in Seq(Context) /\ Len(contexts') = Len(contexts)
           /\ \A i \in 1..Len(contexts) : contexts'[i].live = contexts[i].live
           /\ contexts'[c] = stream
<1>1. /\ contexts' \in Seq(Context) /\ Len(contexts') = Len(contexts)
      /\ \A i \in 1..Len(contexts) :
            contexts'[i] = IF i = c THEN stream ELSE contexts[i]
  BY ExceptSeq
<1>. QED  BY <1>1

LEMMA SetOutputKeeps ==
    ASSUME IInv, Core, OwnReasons, NEW r \in Readers, SetOutput(r)
    PROVE  FaultsNeedCauses' /\ ReadsRightAlone' /\ Core'
<1>1. /\ image' = image /\ mount' = mount /\ cachep' = cachep
      /\ caches' = caches /\ context' = context /\ causes' = causes
      /\ reader[r].pc = "out"
  BY DEF SetOutput, ReaderIs
<1>2. /\ reader \in [Readers -> Reading] /\ contexts \in Seq(Context)
      /\ reader[r] \in Reading /\ ReaderOK(r)
      /\ reader[r].context = context
  BY <1>1 DEF Core, TypeInv, ReaderInv, ReaderOK
<1>3. /\ Alive(context) /\ context \in 1..Len(contexts)
      /\ contexts[context] \in Context
  BY <1>1, <1>2, ActiveReader DEF ReaderOK
<1>4. fault' = "none"
  BY <1>2, <1>3 DEF SetOutput, Unless
<1>5. PICK stream : stream = [contexts[context] EXCEPT !.out = r]
  OBVIOUS
<1>6. /\ stream \in Context /\ stream.live = contexts[context].live
      /\ stream.in = contexts[context].in
      /\ stream.ended = contexts[context].ended /\ stream.out = r
  BY <1>3, <1>5 DEF Context, Stream
<1>7. contexts' = [contexts EXCEPT ![context] = stream]
  BY <1>2, <1>5 DEF SetOutput
<1>8. /\ contexts' \in Seq(Context) /\ Len(contexts') = Len(contexts)
      /\ \A i \in 1..Len(contexts) : contexts'[i].live = contexts[i].live
      /\ contexts'[context] = stream
  BY <1>2, <1>3, <1>6, <1>7, StreamPut
<1>9. reader' = [reader EXCEPT ![r].pc = "inflate"]
  BY DEF SetOutput, ReaderAt
<1>10. /\ reader' \in [Readers -> Reading]
       /\ \A q \in Readers \ {r} : reader'[q] = reader[q]
       /\ reader'[r].pc = "inflate" /\ reader'[r].context = context
       /\ reader'[r].device = reader[r].device
       /\ reader'[r].ubuffer = reader[r].ubuffer
       /\ reader'[r].cbuffer = reader[r].cbuffer
       /\ reader'[r].shared = reader[r].shared
  BY <1>2, <1>9 DEF Reading, ReaderPcs
<1>11. ReaderInv'
  <2>1. ReaderOK(r)'
    BY <1>1, <1>2, <1>10 DEF ReaderOK, UsesContext
  <2>2. ASSUME NEW q \in Readers \ {r}
        PROVE  ReaderOK(q)'
    <3>1. ReaderOK(q)
      BY DEF Core, ReaderInv
    <3>. QED  BY <1>1, <1>10, <3>1 DEF ReaderOK, UsesContext
  <2>. QED  BY <2>1, <2>2 DEF ReaderInv
<1>12. StreamInv'
  BY <1>1, <1>6, <1>8, <1>10 DEF Core, StreamInv, Inside
<1>13. Core'
  BY <1>1, <1>8, <1>10, <1>11, <1>12, CoreKept
<1>14. ReadsRightAlone'
  BY <1>1, <1>10, ReadsOthers DEF IInv
<1>15. FaultsNeedCauses'
  BY <1>4, Reasons
<1>. QED  BY <1>13, <1>14, <1>15

\* What is written into the buffer that the stream's output is.
SameButData(base) ==
    \A q \in Readers :
       /\ base[q].pc = reader[q].pc
       /\ base[q].device = reader[q].device
       /\ base[q].block = reader[q].block
       /\ base[q].ubuffer = reader[q].ubuffer
       /\ base[q].cbuffer = reader[q].cbuffer
       /\ base[q].context = reader[q].context
       /\ base[q].result = reader[q].result
       /\ base[q].shared = reader[q].shared
       /\ q = contexts[context].out \/ base[q].data = reader[q].data

\* What zlib_inflate writes goes to a reader that knows it is not alone, or to
\* the one that is.
LEMMA InflateWrites ==
    ASSUME Core, NEW r \in Readers, reader[r].pc = "inflate",
           reader[r].context = context, context \in 1..Len(contexts),
           NEW base \in [Readers -> Reading],
           SameButData(base),
           ~reader[r].shared => base[r].data = base[r].block,
           NEW pc \in {"copy", "bail"},
           reader' = [base EXCEPT ![r].pc = pc],
           contexts' = [contexts EXCEPT ![context].ended = TRUE],
           image' = image, mount' = mount, cachep' = cachep,
           caches' = caches, context' = context
    PROVE  Core'
<1>1. contexts \in Seq(Context) /\ contexts[context] \in Context
  BY DEF Core, TypeInv
<1>2. PICK stream : stream = [contexts[context] EXCEPT !.ended = TRUE]
  OBVIOUS
<1>3. /\ stream \in Context /\ stream.live = contexts[context].live
      /\ stream.in = contexts[context].in
      /\ stream.out = contexts[context].out /\ stream.ended
  BY <1>1, <1>2 DEF Context, Stream
<1>4. contexts' = [contexts EXCEPT ![context] = stream]
  BY <1>1, <1>2
<1>5. /\ contexts' \in Seq(Context) /\ Len(contexts') = Len(contexts)
      /\ \A i \in 1..Len(contexts) : contexts'[i].live = contexts[i].live
      /\ contexts'[context] = stream
  BY <1>1, <1>3, <1>4, StreamPut
<1>6. /\ reader' \in [Readers -> Reading]
      /\ \A q \in Readers \ {r} : reader'[q] = base[q]
      /\ reader'[r].pc = pc
      /\ reader'[r].device = reader[r].device
      /\ reader'[r].ubuffer = reader[r].ubuffer
      /\ reader'[r].cbuffer = reader[r].cbuffer
      /\ reader'[r].block = base[r].block
      /\ reader'[r].data = base[r].data
      /\ reader'[r].shared = reader[r].shared
  <2>1. base[r] \in Reading
    OBVIOUS
  <2>. QED  BY <2>1 DEF SameButData, Reading, ReaderPcs
<1>7. ReaderInv'
  <2>1. ReaderOK(r)'
    <3>1. ReaderOK(r)
      BY DEF Core, ReaderInv
    <3>. QED  BY <1>6, <3>1 DEF ReaderOK, UsesContext, SameButData
  <2>2. ASSUME NEW q \in Readers \ {r}
        PROVE  ReaderOK(q)'
    <3>1. ReaderOK(q)
      BY DEF Core, ReaderInv
    <3>2. reader[q].pc = "copy" /\ ~reader[q].shared
             => base[q].data = base[q].block
      <4>1. reader[q].pc = "copy" /\ ~reader[q].shared
               => q # contexts[context].out
        BY DEF Core, StreamInv
      <4>. QED  BY <3>1, <4>1 DEF ReaderOK, SameButData
    <3>. QED  BY <1>6, <3>1, <3>2 DEF ReaderOK, UsesContext, SameButData
  <2>. QED  BY <2>1, <2>2 DEF ReaderInv
<1>8. \A q \in Readers \ {r} :
         /\ reader'[q].pc = reader[q].pc
         /\ reader'[q].shared = reader[q].shared
         /\ Inside(q) => reader'[q].shared /\ reader'[r].shared
  BY <1>6 DEF Core, StreamInv, Inside, SameButData
<1>9. StreamInv'
  <2>1. /\ reader'[r].pc \in {"copy", "bail"}
        /\ contexts'[context].out = contexts[context].out
    BY <1>3, <1>5, <1>6
  <2>2. \A q \in Readers : Inside(q)' => reader'[q].shared
    BY <1>8, <2>1 DEF Inside
  <2>3. ASSUME NEW p \in Readers, NEW q \in Readers, p # q,
               reader'[p].pc = "inflate", reader'[q].pc = "copy",
               contexts'[context].out = q
        PROVE  reader'[q].shared
    <3>1. p # r /\ Inside(p)
      BY <1>8, <2>1, <2>3 DEF Inside
    <3>2. CASE q = r
      BY <1>8, <3>1, <3>2
    <3>3. CASE q # r
      BY <1>8, <2>1, <2>3, <3>1, <3>3 DEF Core, StreamInv
    <3>. QED  BY <3>2, <3>3
  <2>. QED  BY <2>2, <2>3 DEF StreamInv, Inside
<1>. QED  BY <1>5, <1>6, <1>7, <1>9, CoreKept

LEMMA InflateKeeps ==
    ASSUME IInv, Core, OwnReasons, NEW r \in Readers, Inflate(r)
    PROVE  FaultsNeedCauses' /\ ReadsRightAlone' /\ (fault' = "none" => Core')
<1>1. /\ image' = image /\ mount' = mount /\ cachep' = cachep
      /\ caches' = caches /\ context' = context /\ causes' = causes
      /\ reader[r].pc = "inflate"
  BY DEF Inflate, ReaderIs
<1>2. /\ reader \in [Readers -> Reading] /\ contexts \in Seq(Context)
      /\ reader[r] \in Reading /\ ReaderOK(r)
      /\ reader[r].context = context
  BY <1>1 DEF Core, TypeInv, ReaderInv, ReaderOK
<1>3. /\ Alive(context) /\ context \in 1..Len(contexts)
      /\ contexts[context] \in Context
  BY <1>1, <1>2, ActiveReader DEF ReaderOK
<1>4. PICK stream : stream = contexts[context]
  OBVIOUS
<1>5. /\ stream.live
      /\ stream.in \in Readers \cup {NoOne} /\ stream.out \in Readers \cup {NoOne}
      /\ ~stream.ended => stream.in \in Readers
      /\ ~reader[r].shared => stream.in = r /\ stream.out = r /\ ~stream.ended
  <2>1. stream.live
    BY <1>3, <1>4 DEF Alive
  <2>2. /\ stream.in \in Readers \cup {NoOne}
        /\ stream.out \in Readers \cup {NoOne}
        /\ ~stream.ended => stream.in \in Readers
    BY <1>3, <1>4 DEF Context, Stream
  <2>3. ~reader[r].shared => stream.in = r /\ stream.out = r /\ ~stream.ended
    BY <1>1, <1>4 DEF Core, StreamInv, Inside
  <2>. QED  BY <2>1, <2>2, <2>3
<1>6. contexts' = [contexts EXCEPT ![context].ended = TRUE]
  BY <1>2 DEF Inflate
<1>7. reader[r].ubuffer = cachep /\ cachep # NULL
  BY <1>1, <1>2, ActiveReader DEF ReaderOK
<1>8. CASE stream.ended
  <2>1. PICK pc \in {"copy", "bail"} : reader' = [reader EXCEPT ![r].pc = pc]
    BY <1>2, <1>4, <1>8 DEF Inflate, ReaderAt
  <2>2. fault' = "none"
    BY <1>2, <1>4, <1>5, <1>8 DEF Inflate, Unless
  <2>3. reader[r].shared
    BY <1>5, <1>8
  <2>4. SameButData(reader)
    BY DEF SameButData
  <2>5. Core'
    BY <1>1, <1>2, <1>3, <1>6, <2>1, <2>3, <2>4, InflateWrites
  <2>6. /\ reader'[r].pc # "idle"
        /\ \A q \in Readers \ {r} : reader'[q] = reader[q]
    BY <1>2, <2>1 DEF Reading
  <2>7. ReadsRightAlone'
    BY <1>1, <2>6, ReadsOthers DEF IInv
  <2>8. FaultsNeedCauses'
    BY <2>2, Reasons
  <2>. QED  BY <2>5, <2>7, <2>8
<1>9. CASE /\ ~stream.ended
           /\ stream.out # NoOne /\ reader[stream.out].ubuffer # NULL
  <2>1. PICK base : base = [reader EXCEPT
                               ![stream.out].data = reader[stream.in].block]
    OBVIOUS
  <2>2. /\ reader' = [base EXCEPT ![r].pc = "copy"]
        /\ fault' = "none"
    BY <1>2, <1>4, <1>5, <1>9, <2>1 DEF Inflate, Unless
  <2>3. PICK o \in Readers, i \in Readers : o = stream.out /\ i = stream.in
    BY <1>5, <1>9
  <2>4. /\ base \in [Readers -> Reading]
        /\ \A q \in Readers \ {o} : base[q] = reader[q]
        /\ base[o] = [reader[o] EXCEPT !.data = reader[i].block]
    <3>1. reader[i] \in Reading /\ reader[o] \in Reading
      BY <1>2
    <3>2. reader[i].block \in Int
      BY <3>1 DEF Reading
    <3>3. [reader[o] EXCEPT !.data = reader[i].block] \in Reading
      BY <3>1, <3>2 DEF Reading
    <3>. QED  BY <1>2, <2>1, <2>3, <3>3
  <2>5. /\ base[o].pc = reader[o].pc
        /\ base[o].device = reader[o].device
        /\ base[o].block = reader[o].block
        /\ base[o].ubuffer = reader[o].ubuffer
        /\ base[o].cbuffer = reader[o].cbuffer
        /\ base[o].context = reader[o].context
        /\ base[o].result = reader[o].result
        /\ base[o].shared = reader[o].shared
        /\ base[o].data = reader[i].block
    <3>1. reader[o] \in Reading
      BY <1>2
    <3>. QED  BY <2>4, <3>1 DEF Reading
  <2>6. ASSUME NEW q \in Readers
        PROVE  /\ base[q].pc = reader[q].pc
               /\ base[q].device = reader[q].device
               /\ base[q].block = reader[q].block
               /\ base[q].ubuffer = reader[q].ubuffer
               /\ base[q].cbuffer = reader[q].cbuffer
               /\ base[q].context = reader[q].context
               /\ base[q].result = reader[q].result
               /\ base[q].shared = reader[q].shared
               /\ q = contexts[context].out \/ base[q].data = reader[q].data
    <3>1. CASE q = o
      BY <1>4, <2>3, <2>5, <3>1
    <3>2. CASE q # o
      <4>1. base[q] = reader[q]
        BY <2>4, <3>2
      <4>. QED  BY <4>1
    <3>. QED  BY <3>1, <3>2
  <2>7. ~reader[r].shared => base[r].data = base[r].block
    <3>1. ~reader[r].shared => o = r /\ i = r
      BY <1>5, <2>3
    <3>. QED  BY <2>5, <3>1
  <2>8. SameButData(base)
    BY <2>6 DEF SameButData
  <2>9. Core'
    BY <1>1, <1>2, <1>3, <1>6, <2>2, <2>4, <2>7, <2>8, InflateWrites
  <2>10. /\ reader'[r].pc = "copy"
        /\ \A q \in Readers \ {r} : reader'[q] = base[q]
    <3>1. base[r] \in Reading
      BY <2>4
    <3>. QED  BY <2>2, <2>4, <3>1 DEF Reading
  <2>11. ReadsRightAlone'
    BY <1>1, <2>6, <2>10, ReadsOthers DEF IInv
  <2>12. FaultsNeedCauses'
    BY <2>2, Reasons
  <2>. QED  BY <2>9, <2>11, <2>12
<1>10. CASE /\ ~stream.ended
            /\ ~(stream.out # NoOne /\ reader[stream.out].ubuffer # NULL)
  <2>1. fault' = "freed buffer" /\ reader' = reader
    BY <1>2, <1>4, <1>5, <1>10 DEF Inflate
  <2>2. reader[r].shared
    <3>1. r # NoOne
      BY NoOneAssumption
    <3>. QED  BY <1>5, <1>7, <1>10, <3>1
  <2>3. FaultsNeedCauses'
    BY <2>1, <2>2, Reasons
  <2>4. ReadsRightAlone'
    BY <1>1, <2>1, ReadsKept DEF IInv
  <2>. QED  BY <2>1, <2>3, <2>4
<1>. QED  BY <1>8, <1>9, <1>10

LEMMA ReaderKeeps ==
    ASSUME IInv, fault = "none", NEW r \in Readers, ReaderStep(r)
    PROVE  IInv'
<1>1. OwnReasons
  BY ReaderReasons DEF IInv
<1>2. CASE "overlap" \in causes'
  BY <1>1, <1>2, OverlapStep
<1>3. CASE "overlap" \notin causes'
  <2>1. Core
    BY <1>1, <1>3 DEF IInv, OwnReasons
  <2>2. FaultsNeedCauses' /\ ReadsRightAlone' /\ (fault' = "none" => Core')
    <3>1. CASE \E d \in Devices : Read(r, d)
      BY <1>1, <2>1, <3>1, ReadKeeps
    <3>2. CASE AllocateUbuffer(r) \/ AllocateCbuffer(r) \/ NodeReadFails(r)
      BY <1>1, <2>1, <3>2, AllocateKeeps
    <3>3. CASE AllocateCbufferFails(r)
      BY <1>1, <3>3, AllocateCbufferFailsKeeps
    <3>4. CASE FillBlock(r)
      BY <1>1, <2>1, <3>4, FillBlockKeeps
    <3>5. CASE SetInput(r)
      BY <1>1, <2>1, <3>5, SetInputKeeps
    <3>6. CASE SetOutput(r)
      BY <1>1, <2>1, <3>6, SetOutputKeeps
    <3>7. CASE Inflate(r)
      BY <1>1, <2>1, <3>7, InflateKeeps
    <3>8. CASE CopyOut(r) \/ NodeReadBails(r)
      BY <1>1, <2>1, <3>8, ReturnKeeps
    <3>. QED  BY <3>1, <3>2, <3>3, <3>4, <3>5, <3>6, <3>7, <3>8
                 DEF ReaderStep
  <2>. QED  BY <1>1, <2>2 DEF IInv, OwnReasons
<1>. QED  BY <1>2, <1>3

-----------------------------------------------------------------------------
(***************************************************************************)
(* The theorems                                                            *)
(***************************************************************************)
LEMMA InitInv == Init => IInv
<1>. SUFFICES ASSUME Init
              PROVE  IInv
  OBVIOUS
<1>1. /\ image \in Images /\ cachep = 0 /\ caches = <<>>
      /\ context = 0 /\ contexts = <<>>
      /\ mount = [d \in Devices |-> Unmounted]
      /\ reader = [r \in Readers |-> Idle]
      /\ fault = "none" /\ reads = 0 /\ failures = 0
  BY DEF Init, NULL
<1>2. image \in [Devices -> Image]
  BY <1>1, DriverAssumption
<1>3. TypeInv
  <2>1. caches \in Seq(Cache) /\ cachep \in 0..Len(caches)
    BY <1>1
  <2>2. contexts \in Seq(Context) /\ context \in 0..Len(contexts)
    BY <1>1
  <2>3. Unmounted \in Mounting
    BY DEF Unmounted, Mounting, MountPcs, NULL
  <2>4. Idle \in Reading
    <3>1. Idle = [pc |-> "idle", device |-> NoOne, block |-> 0,
                  ubuffer |-> 0, cbuffer |-> 0, context |-> 0, data |-> -1,
                  result |-> 0, shared |-> FALSE]
      BY DEF Idle, NULL, Stale, NoBlock
    <3>. QED  BY <3>1 DEF Reading, ReaderPcs
  <2>. QED  BY <1>1, <2>1, <2>2, <2>3, <2>4 DEF TypeInv
<1>4. AloneInv /\ MountInv
  BY <1>1 DEF AloneInv, MountInv, MountOK, Unmounted
<1>5. CacheInv /\ ContextInv
  BY <1>1 DEF CacheInv, ContextInv, Unmounted
<1>6. ReaderInv /\ StreamInv
  BY <1>1 DEF ReaderInv, ReaderOK, StreamInv, Inside, Idle
<1>7. FaultsNeedCauses
  BY <1>1 DEF FaultsNeedCauses
<1>8. ReadsRightAlone
  BY <1>1 DEF ReadsRightAlone, Succeeded, Idle
<1>. QED  BY <1>1, <1>2, <1>3, <1>4, <1>5, <1>6, <1>7, <1>8 DEF IInv, Core

\* Whatever happened to memory, no step follows.
LEMMA NoStepAfterFault == Next => fault = "none"
BY DEF Next, MountIs, ReaderIs, Mount, ReadSuper, FillSuperFails,
       InitBlockCache, CreateCompressor, CreateCompressorFails, AllocateTables,
       ReadInodes, FreeBuffer, MakeRoot, MakeRootFails, FillSuperBails,
       PutSuper, Read, AllocateUbuffer, AllocateCbuffer, AllocateCbufferFails,
       NodeReadFails, FillBlock, SetInput, SetOutput, Inflate, CopyOut,
       NodeReadBails

LEMMA UnchangedKeeps ==
    ASSUME IInv, UNCHANGED vars
    PROVE  IInv'
<1>1. /\ image' = image /\ cachep' = cachep /\ caches' = caches
      /\ context' = context /\ contexts' = contexts /\ mount' = mount
      /\ reader' = reader /\ causes' = causes /\ fault' = fault
      /\ mounts' = mounts /\ reads' = reads /\ failures' = failures
  BY DEF vars, memory, counters
<1>2. FaultsNeedCauses' /\ ReadsRightAlone'
  BY <1>1 DEF IInv, FaultsNeedCauses, ReadsRightAlone, Succeeded
<1>3. Core => TypeInv' /\ AloneInv' /\ MountInv' /\ CacheInv'
  BY <1>1 DEF Core, TypeInv, AloneInv, MountInv, MountOK, CacheInv
<1>4. Core => ContextInv'
  BY <1>1 DEF Core, ContextInv, UsesContext
<1>5. Core => ReaderInv'
  BY <1>1 DEF Core, ReaderInv, ReaderOK, UsesContext
<1>6. Core => StreamInv'
  BY <1>1 DEF Core, StreamInv, Inside
<1>. QED  BY <1>1, <1>2, <1>3, <1>4, <1>5, <1>6 DEF IInv, Core

LEMMA StepInv == IInv /\ [Next]_vars => IInv'
<1>. SUFFICES ASSUME IInv, [Next]_vars
              PROVE  IInv'
  OBVIOUS
<1>1. CASE Next
  <2>1. fault = "none"
    BY <1>1, NoStepAfterFault
  <2>2. ASSUME NEW d \in Devices, DeviceStep(d)
        PROVE  IInv'
    BY <2>1, <2>2, DeviceKeeps
  <2>3. ASSUME NEW r \in Readers, ReaderStep(r)
        PROVE  IInv'
    BY <2>1, <2>3, ReaderKeeps
  <2>. QED  BY <1>1, <2>2, <2>3 DEF Next, DeviceStep, ReaderStep
<1>2. CASE UNCHANGED vars
  BY <1>2, UnchangedKeeps
<1>. QED  BY <1>1, <1>2

\* What the driver holds is as IInv says after any calls, as long as no two
\* mounts overlap; what goes wrong has one of the causes the driver is not
\* made for; and a read that shared the stream with no one is right.
THEOREM Invariance == Spec => []IInv
<1>1. Init => IInv
  BY InitInv
<1>2. IInv /\ [Next]_vars => IInv'
  BY StepInv
<1>. QED  BY <1>1, <1>2, PTL DEF Spec

\* Nothing happens to memory that is free or another's but in the ways named,
\* however many devices, readers and failures there are.
THEOREM OnlyTheKnownFaults == Spec => []FaultsNeedCauses
<1>1. IInv => FaultsNeedCauses
  BY DEF IInv
<1>. QED  BY <1>1, Invariance, PTL

\* Once nothing is mounted every cache, context and buffer has been given back,
\* whichever of fill_super's errors ended the mounts.
THEOREM AllIsGivenBack == Spec => []NothingHeld
<1>1. ASSUME IInv, fault = "none", "overlap" \notin causes,
             \A d \in Devices : mount[d].pc = "unmounted"
      PROVE  /\ \A i \in DOMAIN caches : ~caches[i].live
             /\ \A i \in DOMAIN contexts : ~contexts[i].live
             /\ \A r \in Readers : reader[r].ubuffer = NULL /\
                                    reader[r].cbuffer = NULL
  <2>1. Core
    BY <1>1 DEF IInv
  <2>2. \A d \in Devices : ~mount[d].cache /\ ~mount[d].compressor
    BY <1>1, <2>1 DEF Core, MountInv, MountOK, Unmounted
  <2>3. \A i \in DOMAIN caches : ~caches[i].live
    BY <2>1, <2>2 DEF Core, CacheInv
  <2>4. \A i \in DOMAIN contexts : ~contexts[i].live
    BY <2>1, <2>2 DEF Core, ContextInv
  <2>5. \A r \in Readers : reader[r].ubuffer = NULL /\ reader[r].cbuffer = NULL
    BY <1>1, <2>1 DEF Core, ReaderInv, ReaderOK
  <2>. QED  BY <2>3, <2>4, <2>5
<1>2. IInv => NothingHeld
  BY <1>1 DEF NothingHeld
<1>. QED  BY <1>2, Invariance, PTL

\* A read that succeeds returns its block, unless another reader was in
\* gzip_uncompress with it or mounts overlapped.
THEOREM LoneReadsAreRight == Spec => []ReadsRightAlone
<1>1. IInv => ReadsRightAlone
  BY DEF IInv
<1>. QED  BY <1>1, Invariance, PTL

=============================================================================
