----------------------------- MODULE InodesProofs -----------------------------
(***************************************************************************)
(* Theorems about module Inodes, for every number of threads, inode        *)
(* objects, nodes and mounts, and every kind of kernel and table.  They    *)
(* follow from one inductive invariant, IInv.                              *)
(***************************************************************************)
EXTENDS Inodes, FiniteSetTheorems, TLAPS

Nodes == Numbers \cup {NoNode}

Page == [state : {"none", "locked", "error", "uptodate"}, node : Nodes,
         bytes : {"none", "part", "whole"}]

Inode == [use : {"free", "used", "leaked", "rcu"}, ino : Numbers,
          new : BOOLEAN, hashed : BOOLEAN, bad : BOOLEAN, refs : Int,
          node : Nodes, page : Page]

Thread == [pc : {"idle", "iget", "wait", "fill", "unlock", "failed", "error",
                 "held", "page", "rest"},
           number : Nodes, object : Objects \cup {NoObject}]

TypeInv ==
    /\ kernel \in Kernels /\ table \in Tables
    /\ module \in {"loaded", "removed"}
    /\ root \in Objects \cup {NoObject}
    /\ inode \in [Objects -> Inode]
    /\ thread \in [Threads -> Thread]
    /\ mounts \in 0..MaxMounts /\ failures \in 0..MaxFailures

\* The threads that hold a reference to an object, and how many they are.
Holders(o) == {t \in Threads : thread[t].object = o}
RefsInv ==
    \A o \in Objects :
        inode[o].refs = Cardinality(Holders(o)) + (IF root = o THEN 1 ELSE 0)

\* Where a thread is says whether it has an object; what it has is in use, for
\* the number it was asked for, and something is mounted.
With == {"wait", "fill", "unlock", "failed", "held", "page", "rest"}
HoldInv ==
    \A t \in Threads :
        /\ thread[t].pc \in With <=> thread[t].object # NoObject
        /\ thread[t].pc # "idle" => thread[t].number \in Numbers
        /\ thread[t].pc # "idle" => root # NoObject
        /\ thread[t].pc = "idle" => thread[t] = Idle
        /\ thread[t].object # NoObject =>
              /\ inode[thread[t].object].use = "used"
              /\ inode[thread[t].object].ino = thread[t].number

\* What is not mounted is not in use, and the root is ready at once.
RootInv ==
    /\ root # NoObject => /\ inode[root].use = "used"
                          /\ ~inode[root].new /\ ~inode[root].bad
    /\ root = NoObject => \A o \in Objects : inode[o].use # "used"
    /\ module = "removed" => root = NoObject

\* An inode in use is new, and then has no page; or bad, and then could not be
\* read; or it stands for its number, unless it is the root.
UseInv ==
    \A o \in Objects :
        /\ inode[o].hashed => inode[o].use = "used"
        /\ inode[o].use = "used" =>
              /\ inode[o].new => inode[o].page = NoPage
              /\ inode[o].bad => ~inode[o].new /\ ~Readable(inode[o].ino)
              /\ inode[o].new \/ inode[o].bad \/ o = root
                 \/ inode[o].node = inode[o].ino

\* One thread has a new inode and fills it; one that is done with it has one
\* that is not new.
Filling(t) == thread[t].pc \in {"fill", "unlock", "failed"}
FillInv ==
    /\ \A t \in Threads :
          /\ Filling(t) => /\ inode[thread[t].object].new
                           /\ ~inode[thread[t].object].bad
          /\ thread[t].pc = "unlock" =>
                inode[thread[t].object].node = thread[t].number
          /\ thread[t].pc = "failed" => ~Readable(thread[t].number)
          /\ Holding(t) => ~inode[thread[t].object].new
    /\ \A t, u \in Threads :
          Filling(t) /\ Filling(u) /\ thread[t].object = thread[u].object => t = u

\* One thread has a page locked, and knows the node it is reading.
Reading(t) == thread[t].pc \in {"page", "rest"}
PageInv ==
    /\ PageWhole
    /\ \A t \in Threads :
          /\ Reading(t) => PageOf(t).state = "locked"
          /\ thread[t].pc = "rest" =>
                PageOf(t).node = inode[thread[t].object].node
    /\ \A t, u \in Threads :
          Reading(t) /\ Reading(u) /\ thread[t].object = thread[u].object => t = u

\* Only some kernels defer, and those that wait leave nothing behind.
FaultInv ==
    /\ FaultsExplained
    /\ \A o \in Objects :
          inode[o].use = "rcu" =>
              kernel.defers /\ (root = NoObject => ~kernel.waits)

IInv ==
    /\ TypeInv
    /\ RefsInv
    /\ HoldInv
    /\ RootInv
    /\ UseInv
    /\ FillInv
    /\ PageInv
    /\ FaultInv

-----------------------------------------------------------------------------
\* What an assumption says of the constants.
LEMMA Constants ==
    /\ Root \in Numbers /\ NoNode \notin Numbers
    /\ NoObject \notin Objects
    /\ IsFiniteSet(Threads)
    /\ \A k \in Kernels : k \in [defers : BOOLEAN, waits : BOOLEAN,
                                 splices : BOOLEAN, counts : BOOLEAN]
    /\ MaxMounts \in Nat /\ MaxFailures \in Nat
  BY InodesAssumption

\* There are finitely many holders.
LEMMA HoldersCount ==
    ASSUME NEW o
    PROVE  IsFiniteSet(Holders(o)) /\ Cardinality(Holders(o)) \in Nat
<1>1. Holders(o) \in SUBSET Threads
  BY DEF Holders
<1>. QED  BY <1>1, Constants, FS_Subset, FS_CardinalityType

\* An object that has no references is nobody's.
LEMMA Unheld ==
    ASSUME TypeInv, RefsInv, NEW o \in Objects, inode[o].refs = 0
    PROVE  root # o /\ \A t \in Threads : thread[t].object # o
<1>1. Cardinality(Holders(o)) = 0 /\ root # o
  BY HoldersCount DEF RefsInv
<1>2. Holders(o) = {}
  BY <1>1, HoldersCount, FS_EmptySet
<1>. QED  BY <1>1, <1>2 DEF Holders

\* An object with one reference is nobody else's than the thread's that has it.
LEMMA LastHeld ==
    ASSUME TypeInv, RefsInv, NEW t \in Threads, thread[t].object \in Objects,
           inode[thread[t].object].refs = 1
    PROVE  /\ root # thread[t].object
           /\ \A u \in Threads \ {t} : thread[u].object # thread[t].object
<1>. DEFINE o == thread[t].object
            rest == Holders(o) \ {t}
<1>1. t \in Holders(o)
  BY DEF Holders
<1>2. Cardinality(Holders(o)) # 0
  BY <1>1, HoldersCount, FS_EmptySet
<1>3. Cardinality(Holders(o)) = 1 /\ root # o
  BY <1>2, HoldersCount DEF RefsInv
<1>4. IsFiniteSet(rest) /\ Cardinality(rest) = 0
  BY <1>1, <1>3, HoldersCount, FS_RemoveElement
<1>5. rest = {}
  BY <1>4, FS_EmptySet
<1>. QED  BY <1>3, <1>5 DEF Holders

\* A free object is nobody's, and has no references.
LEMMA FreeUnheld ==
    ASSUME TypeInv, RefsInv, HoldInv, RootInv, NEW o \in Objects,
           inode[o].use # "used"
    PROVE  /\ root # o /\ \A t \in Threads : thread[t].object # o
           /\ Cardinality(Holders(o)) = 0 /\ inode[o].refs = 0
<1>1. root # o /\ \A t \in Threads : thread[t].object # o
  BY Constants DEF HoldInv, RootInv
<1>2. Holders(o) = {}
  BY <1>1 DEF Holders
<1>. QED  BY <1>1, <1>2, FS_EmptySet DEF RefsInv

\* How the holders of an object change when one thread's object does.
LEMMA HoldersSame ==
    ASSUME \A u \in Threads : thread'[u].object = thread[u].object
    PROVE  \A o : Holders(o)' = Holders(o)
  BY DEF Holders

LEMMA HoldersTaken ==
    ASSUME TypeInv, NEW t \in Threads, NEW o, thread[t].object # o,
           thread'[t].object = o,
           \A u \in Threads \ {t} : thread'[u].object = thread[u].object
    PROVE  Cardinality(Holders(o)') = Cardinality(Holders(o)) + 1
<1>1. Holders(o)' = Holders(o) \cup {t} /\ t \notin Holders(o)
  BY DEF Holders
<1>2. Cardinality(Holders(o) \cup {t}) = Cardinality(Holders(o)) + 1
  BY <1>1, HoldersCount, FS_AddElement
<1>. QED  BY <1>1, <1>2

LEMMA HoldersLeft ==
    ASSUME TypeInv, NEW t \in Threads, NEW o, thread[t].object = o,
           thread'[t].object # o,
           \A u \in Threads \ {t} : thread'[u].object = thread[u].object
    PROVE  Cardinality(Holders(o)') = Cardinality(Holders(o)) - 1
<1>1. Holders(o)' = Holders(o) \ {t} /\ t \in Holders(o)
  BY DEF Holders
<1>2. Cardinality(Holders(o) \ {t}) = Cardinality(Holders(o)) - 1
  BY <1>1, HoldersCount, FS_RemoveElement
<1>. QED  BY <1>1, <1>2

LEMMA HoldersOther ==
    ASSUME TypeInv, NEW t \in Threads, NEW o, thread[t].object # o,
           thread'[t].object # o,
           \A u \in Threads \ {t} : thread'[u].object = thread[u].object
    PROVE  Holders(o)' = Holders(o)
  BY DEF Holders

\* A step that moves no object and no reference keeps them in balance.
LEMMA RefsKept ==
    ASSUME TypeInv, RefsInv, root' = root,
           \A u \in Threads : thread'[u].object = thread[u].object,
           \A o \in Objects : inode'[o].refs = inode[o].refs
    PROVE  RefsInv'
  BY HoldersSame DEF RefsInv

\* What a step of one thread leaves alone.
LEMMA ThreadMoved ==
    ASSUME TypeInv, NEW t \in Threads, NEW pc, ThreadAt(t, pc),
           pc \in {"wait", "unlock", "failed", "error", "held", "page", "rest"}
    PROVE  /\ thread' \in [Threads -> Thread]
           /\ thread'[t].pc = pc
           /\ thread'[t].object = thread[t].object
           /\ thread'[t].number = thread[t].number
           /\ \A u \in Threads \ {t} : thread'[u] = thread[u]
  BY DEF TypeInv, Thread, ThreadAt

LEMMA ThreadGot ==
    ASSUME TypeInv, NEW t \in Threads, NEW pc, NEW o \in Objects \cup {NoObject},
           ThreadHas(t, pc, o), pc \in {"wait", "fill", "held", "error"}
    PROVE  /\ thread' \in [Threads -> Thread]
           /\ thread'[t].pc = pc
           /\ thread'[t].object = o
           /\ thread'[t].number = thread[t].number
           /\ \A u \in Threads \ {t} : thread'[u] = thread[u]
  BY DEF TypeInv, Thread, ThreadHas

\* What a change of one object leaves alone.
LEMMA ObjectSet ==
    ASSUME TypeInv, NEW o \in Objects, NEW y \in Inode,
           inode' = [inode EXCEPT ![o] = y]
    PROVE  /\ inode' \in [Objects -> Inode]
           /\ inode'[o] = y
           /\ \A p \in Objects \ {o} : inode'[p] = inode[p]
  BY DEF TypeInv

LEMMA PageSet ==
    ASSUME TypeInv, NEW t \in Threads, thread[t].object \in Objects,
           NEW page \in Page, SetPage(t, page)
    PROVE  /\ inode' \in [Objects -> Inode]
           /\ inode'[thread[t].object].page = page
           /\ \A p \in Objects \ {thread[t].object} : inode'[p] = inode[p]
           /\ \A p \in Objects :
                 /\ inode'[p].use = inode[p].use
                 /\ inode'[p].ino = inode[p].ino
                 /\ inode'[p].new = inode[p].new
                 /\ inode'[p].hashed = inode[p].hashed
                 /\ inode'[p].bad = inode[p].bad
                 /\ inode'[p].refs = inode[p].refs
                 /\ inode'[p].node = inode[p].node
<1>. DEFINE o == thread[t].object
            y == [inode[o] EXCEPT !.page = page]
<1>1. inode[o] \in Inode
  BY DEF TypeInv
<1>2. /\ y \in Inode /\ y.page = page
      /\ y.use = inode[o].use /\ y.ino = inode[o].ino /\ y.new = inode[o].new
      /\ y.hashed = inode[o].hashed /\ y.bad = inode[o].bad
      /\ y.refs = inode[o].refs /\ y.node = inode[o].node
  BY <1>1 DEF Inode
<1>3. inode' = [inode EXCEPT ![o] = y]
  BY DEF SetPage
<1>. HIDE DEF y
<1>. QED  BY <1>2, <1>3, ObjectSet

\* The values that objects, pages and threads begin with.
LEMMA NoPageFacts == NoPage \in Page /\ NoPage.state = "none"
  BY DEF NoPage, Page, Nodes

LEMMA IdleFacts ==
    Idle \in Thread /\ Idle.pc = "idle" /\ Idle.object = NoObject
  BY DEF Idle, Thread, Nodes

\* An inode with another value of one of its fields.
LEMMA InodeWith ==
    ASSUME NEW r \in Inode
    PROVE  /\ \A use \in {"free", "used", "leaked", "rcu"} :
                 [r EXCEPT !.use = use] \in Inode
           /\ [r EXCEPT !.refs = 0] \in Inode
           /\ [r EXCEPT !.refs = 1] \in Inode
           /\ \A page \in Page : [r EXCEPT !.page = page] \in Inode
           /\ [r EXCEPT !.hashed = FALSE] \in Inode
<1>1. ASSUME NEW use \in {"free", "used", "leaked", "rcu"}
      PROVE  [r EXCEPT !.use = use] \in Inode
  BY DEF Inode
<1>2. [r EXCEPT !.refs = 0] \in Inode /\ [r EXCEPT !.refs = 1] \in Inode
  BY DEF Inode
<1>3. ASSUME NEW page \in Page
      PROVE  [r EXCEPT !.page = page] \in Inode
  BY DEF Inode
<1>4. [r EXCEPT !.hashed = FALSE] \in Inode
  BY DEF Inode
<1>. QED  BY <1>1, <1>2, <1>3, <1>4

\* What destroy_inode leaves, what alloc_inode gives, and what a wait for the
\* callbacks changes.
LEMMA DestroyedObject ==
    ASSUME TypeInv, NEW o \in Objects
    PROVE  /\ Destroyed(o) \in Inode
           /\ Destroyed(o).use = IF kernel.defers THEN "rcu" ELSE "free"
           /\ ~Destroyed(o).hashed /\ Destroyed(o).refs = 0
           /\ Destroyed(o).page = NoPage
           /\ Destroyed(o).ino = inode[o].ino
           /\ Destroyed(o).node = inode[o].node
<1>. DEFINE use == IF kernel.defers THEN "rcu" ELSE "free"
            d == [inode[o] EXCEPT !.use = use, !.hashed = FALSE, !.refs = 0,
                                  !.page = NoPage]
<1>1. inode[o] \in Inode
  BY DEF TypeInv
<1>2. use \in {"rcu", "free"}
  OBVIOUS
<1>3. Destroyed(o) = d
  BY DEF Destroyed
<1>. HIDE DEF use
<1>4. d \in Inode
  <2>. DEFINE d1 == [inode[o] EXCEPT !.use = use]
              d2 == [d1 EXCEPT !.hashed = FALSE]
              d3 == [d2 EXCEPT !.refs = 0]
              d4 == [d3 EXCEPT !.page = NoPage]
  <2>1. d1 \in Inode
    BY <1>1, <1>2, InodeWith
  <2>2. d2 \in Inode
    BY <2>1, InodeWith
  <2>3. d3 \in Inode
    BY <2>2, InodeWith
  <2>4. d4 \in Inode
    BY <2>3, NoPageFacts, InodeWith
  <2>5. d = d4
    BY <1>1, <2>4 DEF Inode
  <2>. QED  BY <2>4, <2>5
<1>5. /\ d.use = use /\ ~d.hashed /\ d.refs = 0 /\ d.page = NoPage
      /\ d.ino = inode[o].ino /\ d.node = inode[o].node
  BY <1>1 DEF Inode
<1>. QED  BY <1>3, <1>4, <1>5 DEF use

LEMMA TakenObject ==
    ASSUME TypeInv, NEW o \in Objects
    PROVE  /\ Taken(o) \in Inode
           /\ Taken(o).use = "used" /\ Taken(o).refs = 1
           /\ Taken(o).ino = inode[o].ino /\ Taken(o).node = inode[o].node
           /\ ~Taken(o).new /\ ~Taken(o).hashed /\ ~Taken(o).bad
           /\ Taken(o).page = NoPage
<1>1. inode[o].ino \in Numbers /\ inode[o].node \in Nodes
  BY DEF TypeInv, Inode
<1>2. Fresh \in Inode
  BY NoPageFacts, Constants DEF Fresh, Inode, Nodes, Root
<1>3. ~Fresh.new /\ ~Fresh.hashed /\ ~Fresh.bad /\ Fresh.page = NoPage
  BY DEF Fresh
<1>. DEFINE y == [Fresh EXCEPT !.use = "used", !.refs = 1]
<1>4. y \in Inode
  <2>1. [Fresh EXCEPT !.use = "used"] \in Inode
    BY <1>2, InodeWith
  <2>2. [[Fresh EXCEPT !.use = "used"] EXCEPT !.refs = 1] \in Inode
    BY <2>1, InodeWith
  <2>3. y = [[Fresh EXCEPT !.use = "used"] EXCEPT !.refs = 1]
    BY <1>2, <2>2 DEF Inode
  <2>. QED  BY <2>2, <2>3
<1>5. /\ y.use = "used" /\ y.refs = 1
      /\ ~y.new /\ ~y.hashed /\ ~y.bad /\ y.page = NoPage
  BY <1>2, <1>3 DEF Inode
<1>6. Taken(o) = [y EXCEPT !.ino = inode[o].ino, !.node = inode[o].node]
  BY DEF Taken
<1>. HIDE DEF y
<1>7. Taken(o) \in Inode
  BY <1>1, <1>4, <1>6 DEF Inode
<1>. QED  BY <1>4, <1>5, <1>6, <1>7 DEF Inode

LEMMA DoneWithObjects ==
    ASSUME NEW objects \in [Objects -> Inode]
    PROVE  /\ DoneWith(objects) \in [Objects -> Inode]
           /\ \A o \in Objects :
                 /\ kernel.waits => DoneWith(objects)[o].use # "rcu"
                 /\ DoneWith(objects)[o].use = "rcu" => objects[o].use = "rcu"
                 /\ DoneWith(objects)[o].use = "used" <=> objects[o].use = "used"
                 /\ DoneWith(objects)[o].use = "leaked"
                       <=> objects[o].use = "leaked"
                 /\ DoneWith(objects)[o].hashed = objects[o].hashed
                 /\ DoneWith(objects)[o].refs = objects[o].refs
                 /\ DoneWith(objects)[o].node = objects[o].node
                 /\ DoneWith(objects)[o].page = objects[o].page
<1>. SUFFICES ASSUME NEW o \in Objects
              PROVE  LET d == DoneWith(objects)[o] IN
                     /\ d \in Inode
                     /\ kernel.waits => d.use # "rcu"
                     /\ d.use = "rcu" => objects[o].use = "rcu"
                     /\ d.use = "used" <=> objects[o].use = "used"
                     /\ d.use = "leaked" <=> objects[o].use = "leaked"
                     /\ d.hashed = objects[o].hashed
                     /\ d.refs = objects[o].refs
                     /\ d.node = objects[o].node
                     /\ d.page = objects[o].page
  BY DEF DoneWith
<1>1. objects[o] \in Inode
  OBVIOUS
<1>. QED  BY <1>1 DEF DoneWith, Inode


-----------------------------------------------------------------------------
(***************************************************************************)
(* Every action keeps the invariant: first what the action changes, then   *)
(* the parts of the invariant one after the other.                         *)
(***************************************************************************)
LEMMA MountKeeps ==
    ASSUME IInv, NEW o \in Objects, Mount(o)
    PROVE  IInv'
<1>. TypeInv /\ RefsInv /\ HoldInv /\ RootInv /\ UseInv /\ FillInv /\ PageInv
     /\ FaultInv
  BY DEF IInv
<1>a. /\ root = NoObject /\ root' = o /\ inode[o].use = "free"
      /\ fault = "none" /\ module = "loaded"
      /\ UNCHANGED <<kernel, table, module, thread, fault, failures>>
      /\ mounts' \in 0..MaxMounts
  BY Constants DEF Mount, Free, TypeInv
<1>b. PICK ino \in Numbers :
          inode' = [inode EXCEPT ![o] =
              Filled([Taken(o) EXCEPT !.ino = ino, !.hashed = TRUE], Root)]
  BY DEF Mount, TypeInv, Inode
<1>. DEFINE y == Filled([Taken(o) EXCEPT !.ino = ino, !.hashed = TRUE], Root)
<1>c. /\ y \in Inode
      /\ y.use = "used" /\ y.refs = 1 /\ ~y.new /\ ~y.bad /\ y.page = NoPage
      /\ y.hashed /\ inode' = [inode EXCEPT ![o] = y]
  BY <1>b, TakenObject, Constants DEF Filled, Inode, Nodes
<1>. HIDE DEF y
<1>d. /\ inode' \in [Objects -> Inode] /\ inode'[o] = y
      /\ \A p \in Objects \ {o} : inode'[p] = inode[p]
  BY <1>c, ObjectSet
<1>e. \A t \in Threads : thread[t] = Idle /\ thread[t].object \notin Objects
  BY <1>a, Constants DEF HoldInv, Idle
<1>f. NoPage.state = "none"
  BY DEF NoPage
<1>1. TypeInv'
  BY <1>a, <1>c, <1>d, <1>e, <1>f, Constants DEF TypeInv
<1>2. RefsInv'
  <2>1. Cardinality(Holders(o)) = 0
    BY <1>a, FreeUnheld
  <2>2. \A p \in Objects : Cardinality(Holders(p)) \in Nat /\ root # p
    BY <1>a, HoldersCount, Constants
  <2>. QED  BY <1>a, <1>c, <1>d, <2>1, <2>2, HoldersSame DEF RefsInv
<1>3. HoldInv'
  BY <1>a, <1>e, Constants DEF HoldInv, With, Idle
<1>4. RootInv'
  BY <1>a, <1>c, <1>d, <1>e, <1>f, Constants
     DEF RootInv, HoldInv, FillInv, Filling, TypeInv
<1>5. UseInv'
  BY <1>a, <1>c, <1>d, <1>e, <1>f
     DEF UseInv, RootInv, FillInv, Filling, Readable, TypeInv, Inode
<1>6. FillInv'
  BY <1>a, <1>e DEF FillInv, Filling, Holding, Idle
<1>7. PageInv'
  BY <1>a, <1>c, <1>d, <1>e, <1>f
     DEF PageInv, PageWhole, Reading, PageOf, Idle, TypeInv
<1>8. FaultInv'
  BY <1>a, <1>c, <1>d, <1>e, <1>f
     DEF FaultInv, FaultsExplained, RootInv, HoldInv, TypeInv
<1>. QED  BY <1>1, <1>2, <1>3, <1>4, <1>5, <1>6, <1>7, <1>8 DEF IInv

LEMMA MountFailsKeeps ==
    ASSUME IInv, NEW o \in Objects, MountFails(o)
    PROVE  IInv'
<1>. TypeInv /\ RefsInv /\ HoldInv /\ RootInv /\ UseInv /\ FillInv /\ PageInv
     /\ FaultInv
  BY DEF IInv
<1>. DEFINE y == [Taken(o) EXCEPT !.use = "leaked", !.refs = 0]
            made == [inode EXCEPT ![o] = y]
<1>a. /\ root = NoObject /\ inode[o].use = "free" /\ inode' = DoneWith(made)
      /\ fault = "none"
      /\ UNCHANGED <<kernel, table, module, root, thread, fault, failures>>
      /\ mounts' \in 0..MaxMounts
  BY Constants DEF MountFails, Free, TypeInv
<1>b. /\ y \in Inode /\ y.use = "leaked" /\ y.refs = 0 /\ ~y.hashed
      /\ y.page = NoPage
  <2>1. Taken(o) \in Inode /\ ~Taken(o).hashed /\ Taken(o).page = NoPage
    BY TakenObject
  <2>2. [Taken(o) EXCEPT !.use = "leaked"] \in Inode
    BY <2>1, InodeWith
  <2>3. [[Taken(o) EXCEPT !.use = "leaked"] EXCEPT !.refs = 0] \in Inode
    BY <2>2, InodeWith
  <2>4. y = [[Taken(o) EXCEPT !.use = "leaked"] EXCEPT !.refs = 0]
    BY <2>1, <2>3 DEF Inode
  <2>5. /\ y.use = "leaked" /\ y.refs = 0 /\ ~y.hashed /\ y.page = NoPage
    BY <2>1 DEF Inode
  <2>. QED  BY <2>3, <2>4, <2>5
<1>. HIDE DEF y
<1>c. /\ made \in [Objects -> Inode] /\ made[o] = y
      /\ \A p \in Objects \ {o} : made[p] = inode[p]
  BY <1>b DEF TypeInv
<1>. HIDE DEF made
<1>d. /\ inode' \in [Objects -> Inode]
      /\ \A p \in Objects :
            /\ kernel.waits => inode'[p].use # "rcu"
            /\ inode'[p].use = "rcu" => made[p].use = "rcu"
            /\ inode'[p].use = "used" <=> made[p].use = "used"
            /\ inode'[p].use = "leaked" <=> made[p].use = "leaked"
            /\ inode'[p].hashed = made[p].hashed
            /\ inode'[p].refs = made[p].refs
            /\ inode'[p].node = made[p].node
            /\ inode'[p].page = made[p].page
  BY <1>a, <1>c, DoneWithObjects
<1>e. \A t \in Threads : thread[t] = Idle /\ thread[t].object \notin Objects
  BY <1>a, Constants DEF HoldInv, Idle
<1>f. NoPage.state = "none"
  BY DEF NoPage
<1>1. TypeInv'
  BY <1>a, <1>d DEF TypeInv
<1>2. RefsInv'
  <2>1. inode[o].refs = 0
    BY <1>a, FreeUnheld
  <2>2. \A p \in Objects : inode'[p].refs = inode[p].refs
    BY <1>b, <1>c, <1>d, <2>1
  <2>. QED  BY <1>a, <2>2, RefsKept
<1>3. HoldInv'
  BY <1>a, <1>e, Constants DEF HoldInv, With, Idle
<1>4. RootInv'
  BY <1>a, <1>b, <1>c, <1>d DEF RootInv
<1>5. UseInv'
  BY <1>a, <1>b, <1>c, <1>d DEF UseInv, RootInv
<1>6. FillInv'
  BY <1>a, <1>e DEF FillInv, Filling, Holding, Idle
<1>7. PageInv'
  BY <1>a, <1>b, <1>c, <1>d, <1>e, <1>f
     DEF PageInv, PageWhole, Reading, PageOf, Idle
<1>8. FaultInv'
  BY <1>a, <1>b, <1>c, <1>d DEF FaultInv, FaultsExplained
<1>. QED  BY <1>1, <1>2, <1>3, <1>4, <1>5, <1>6, <1>7, <1>8 DEF IInv

LEMMA UnmountKeeps ==
    ASSUME IInv, Unmount
    PROVE  IInv'
<1>. TypeInv /\ RefsInv /\ HoldInv /\ RootInv /\ UseInv /\ FillInv /\ PageInv
     /\ FaultInv
  BY DEF IInv
<1>. DEFINE gone == [p \in Objects |-> IF inode[p].use = "used" THEN Destroyed(p)
                                       ELSE inode[p]]
<1>a. /\ root' = NoObject /\ fault = "none" /\ inode' = DoneWith(gone)
      /\ UNCHANGED <<kernel, table, module, thread, fault, mounts, failures>>
      /\ \A t \in Threads : thread[t] = Idle
  BY DEF Unmount
<1>b. /\ gone \in [Objects -> Inode]
      /\ \A p \in Objects :
            /\ gone[p].use # "used" /\ ~gone[p].hashed
            /\ gone[p].use = "rcu" => kernel.defers
            /\ gone[p].page = NoPage \/ gone[p] = inode[p]
            /\ gone[p].refs = 0
  BY DestroyedObject, FreeUnheld DEF TypeInv, UseInv, FaultInv
<1>. HIDE DEF gone
<1>c. /\ inode' \in [Objects -> Inode]
      /\ \A p \in Objects :
            /\ kernel.waits => inode'[p].use # "rcu"
            /\ inode'[p].use = "rcu" => gone[p].use = "rcu"
            /\ inode'[p].use = "used" <=> gone[p].use = "used"
            /\ inode'[p].hashed = gone[p].hashed
            /\ inode'[p].refs = gone[p].refs
            /\ inode'[p].node = gone[p].node
            /\ inode'[p].page = gone[p].page
  BY <1>a, <1>b, DoneWithObjects
<1>d. /\ NoPage.state = "none"
      /\ Idle.pc = "idle" /\ Idle.object = NoObject /\ NoObject \notin Objects
  BY Constants DEF NoPage, Idle
<1>1. TypeInv'
  BY <1>a, <1>c DEF TypeInv
<1>2. RefsInv'
  <2>1. \A p \in Objects : Holders(p) = {}
    BY <1>a, <1>d DEF Holders
  <2>2. \A p \in Objects : Cardinality(Holders(p)') = 0 /\ root' # p
    BY <1>a, <1>d, <2>1, HoldersSame, FS_EmptySet
  <2>. QED  BY <1>b, <1>c, <2>2 DEF RefsInv
<1>3. HoldInv'
  BY <1>a, <1>d DEF HoldInv, With
<1>4. RootInv'
  BY <1>a, <1>b, <1>c DEF RootInv
<1>5. UseInv'
  BY <1>a, <1>b, <1>c DEF UseInv, RootInv
<1>6. FillInv'
  BY <1>a, <1>d DEF FillInv, Filling, Holding
<1>7. PageInv'
  BY <1>a, <1>b, <1>c, <1>d
     DEF PageInv, PageWhole, Reading, PageOf
<1>8. FaultInv'
  BY <1>a, <1>b, <1>c DEF FaultInv, FaultsExplained
<1>. QED  BY <1>1, <1>2, <1>3, <1>4, <1>5, <1>6, <1>7, <1>8 DEF IInv

LEMMA EvictKeeps ==
    ASSUME IInv, NEW o \in Objects, Evict(o)
    PROVE  IInv'
<1>. TypeInv /\ RefsInv /\ HoldInv /\ RootInv /\ UseInv /\ FillInv /\ PageInv
     /\ FaultInv
  BY DEF IInv
<1>a. /\ root # o /\ \A t \in Threads : thread[t].object # o
      /\ inode[o].use = "used" /\ inode[o].refs = 0
      /\ UNCHANGED <<kernel, table, module, root, thread, fault, mounts, failures>>
  BY Unheld DEF Evict
<1>b. /\ inode' \in [Objects -> Inode] /\ inode'[o] = Destroyed(o)
      /\ \A p \in Objects \ {o} : inode'[p] = inode[p]
  BY DestroyedObject, ObjectSet DEF Evict
<1>c. root # NoObject
  BY <1>a DEF RootInv
<1>d. NoPage.state = "none"
  BY DEF NoPage
<1>1. TypeInv'
  BY <1>a, <1>b DEF TypeInv
<1>2. RefsInv'
  <2>1. \A p \in Objects : inode'[p].refs = inode[p].refs
    BY <1>a, <1>b, DestroyedObject
  <2>. QED  BY <1>a, <2>1, RefsKept
<1>3. HoldInv'
  BY <1>a, <1>b DEF HoldInv, TypeInv, Thread
<1>4. RootInv'
  BY <1>a, <1>b, <1>c DEF RootInv, TypeInv
<1>5. UseInv'
  BY <1>a, <1>b, <1>c, <1>d, DestroyedObject
     DEF UseInv, RootInv, FillInv, Filling, Readable, TypeInv, Inode
<1>6. FillInv'
  BY <1>a, <1>b DEF FillInv, Filling, Holding, HoldInv, With, Readable,
         TypeInv, Thread
<1>7. PageInv'
  <2>1. PageWhole'
    BY <1>a, <1>b, <1>c, <1>d, DestroyedObject DEF PageInv, PageWhole, TypeInv
  <2>2. \A u \in Threads :
           /\ Reading(u)' => PageOf(u)'.state = "locked"
           /\ thread'[u].pc = "rest" =>
                 PageOf(u)'.node = inode'[thread'[u].object].node
    BY <1>a, <1>b, <1>c, <1>d, DestroyedObject
       DEF PageInv, Reading, PageOf, HoldInv, With, FillInv, Filling, Holding,
           TypeInv, Thread
  <2>3. ASSUME NEW u \in Threads, NEW v \in Threads, Reading(u)', Reading(v)',
               thread'[u].object = thread'[v].object
        PROVE  u = v
    BY <1>a, <1>b, <1>c, <1>d, DestroyedObject, <2>3
       DEF PageInv, Reading, PageOf, HoldInv, With, TypeInv, Thread
  <2>. QED  BY <2>1, <2>2, <2>3 DEF PageInv
<1>8. FaultInv'
  BY <1>a, <1>b, <1>c, DestroyedObject DEF FaultInv, FaultsExplained
<1>. QED  BY <1>1, <1>2, <1>3, <1>4, <1>5, <1>6, <1>7, <1>8 DEF IInv

LEMMA RcuCallbackKeeps ==
    ASSUME IInv, NEW o \in Objects, RcuCallback(o)
    PROVE  IInv'
<1>. TypeInv /\ RefsInv /\ HoldInv /\ RootInv /\ UseInv /\ FillInv /\ PageInv
     /\ FaultInv
  BY DEF IInv
<1>1. TypeInv'
  BY DEF RcuCallback, TypeInv, Inode, Thread, Page, Nodes
<1>2. RefsInv'
  <2>1. \A u \in Threads : thread'[u].object = thread[u].object
    BY DEF RcuCallback, TypeInv, Thread
  <2>2. \A p \in Objects : inode'[p].refs = inode[p].refs
    BY DEF RcuCallback, TypeInv, Inode, HoldInv, With
  <2>. QED  BY <2>1, <2>2, RefsKept DEF RcuCallback
<1>3. HoldInv'
  BY DEF RcuCallback, TypeInv, Inode, Thread, Page, Nodes, HoldInv, With, Idle
<1>4. RootInv'
  BY DEF RcuCallback, TypeInv, Inode, Thread, Page, Nodes, HoldInv, With,
         RootInv, FillInv, Filling
<1>5. UseInv'
  BY DEF RcuCallback, TypeInv, Inode, Thread, Page, Nodes, HoldInv, With,
         RootInv, UseInv, FillInv, Filling, NoPage, Readable
<1>6. FillInv'
  BY DEF RcuCallback, TypeInv, Inode, Thread, Page, Nodes, HoldInv, With,
         FillInv, UseInv, Filling, Holding, Readable, NoPage
<1>7. PageInv'
  BY DEF RcuCallback, TypeInv, Inode, Thread, Page, Nodes, HoldInv, With,
         UseInv, FillInv, Filling, Holding, PageInv, PageWhole, Reading,
         PageOf, NoPage
<1>8. FaultInv'
  BY DEF RcuCallback, TypeInv, Inode, Thread, Page, Nodes, RootInv, HoldInv,
         With, FaultInv, FaultsExplained
<1>. QED  BY <1>1, <1>2, <1>3, <1>4, <1>5, <1>6, <1>7, <1>8 DEF IInv

LEMMA ExitModuleKeeps ==
    ASSUME IInv, ExitModule
    PROVE  IInv'
<1>. TypeInv /\ RefsInv /\ HoldInv /\ RootInv /\ UseInv /\ FillInv /\ PageInv
     /\ FaultInv
  BY DEF IInv
<1>1. TypeInv'
  BY DEF ExitModule, TypeInv, Inode, Thread, Page, Nodes
<1>2. RefsInv'
  <2>1. \A u \in Threads : thread'[u].object = thread[u].object
    BY DEF ExitModule, TypeInv, Thread
  <2>2. \A p \in Objects : inode'[p].refs = inode[p].refs
    BY DEF ExitModule, TypeInv, Inode, HoldInv, With
  <2>. QED  BY <2>1, <2>2, RefsKept DEF ExitModule
<1>3. HoldInv'
  BY DEF ExitModule, TypeInv, Inode, Thread, Page, Nodes, HoldInv, With, Idle
<1>4. RootInv'
  BY DEF ExitModule, TypeInv, Inode, Thread, Page, Nodes, HoldInv, With,
         RootInv, FillInv, Filling
<1>5. UseInv'
  BY DEF ExitModule, TypeInv, Inode, Thread, Page, Nodes, HoldInv, With,
         RootInv, UseInv, FillInv, Filling, NoPage, Readable
<1>6. FillInv'
  BY DEF ExitModule, TypeInv, Inode, Thread, Page, Nodes, HoldInv, With,
         FillInv, UseInv, Filling, Holding, Readable, NoPage
<1>7. PageInv'
  BY DEF ExitModule, TypeInv, Inode, Thread, Page, Nodes, HoldInv, With,
         UseInv, FillInv, Filling, Holding, PageInv, PageWhole, Reading,
         PageOf, NoPage
<1>8. FaultInv'
  BY DEF ExitModule, TypeInv, Inode, Thread, Page, Nodes, RootInv, HoldInv,
         With, FaultInv, FaultsExplained
<1>. QED  BY <1>1, <1>2, <1>3, <1>4, <1>5, <1>6, <1>7, <1>8 DEF IInv

LEMMA LookupKeeps ==
    ASSUME IInv, NEW t \in Threads, NEW n \in Numbers \ {Root}, Lookup(t, n)
    PROVE  IInv'
<1>. TypeInv /\ RefsInv /\ HoldInv /\ RootInv /\ UseInv /\ FillInv /\ PageInv
     /\ FaultInv
  BY DEF IInv
<1>1. TypeInv'
  BY DEF Lookup, ThreadIs, Idle, TypeInv, Inode, Thread, Page, Nodes
<1>2. RefsInv'
  <2>1. \A u \in Threads : thread'[u].object = thread[u].object
    BY DEF Lookup, ThreadIs, Idle, TypeInv, Thread, HoldInv, Idle, With
  <2>2. \A p \in Objects : inode'[p].refs = inode[p].refs
    BY DEF Lookup, ThreadIs, Idle, TypeInv, Inode, HoldInv, With
  <2>. QED  BY <2>1, <2>2, RefsKept DEF Lookup
<1>3. HoldInv'
  BY DEF Lookup, ThreadIs, Idle, TypeInv, Inode, Thread, Page, Nodes, HoldInv,
         With
<1>4. RootInv'
  BY DEF Lookup, ThreadIs, Idle, TypeInv, Inode, Thread, Page, Nodes, HoldInv,
         With, RootInv, FillInv, Filling
<1>5. UseInv'
  BY DEF Lookup, ThreadIs, Idle, TypeInv, Inode, Thread, Page, Nodes, HoldInv,
         With, RootInv, UseInv, FillInv, Filling, NoPage, Readable
<1>6. FillInv'
  BY DEF Lookup, ThreadIs, Idle, TypeInv, Inode, Thread, Page, Nodes, HoldInv,
         With, FillInv, UseInv, Filling, Holding, Readable, NoPage
<1>7. PageInv'
  BY DEF Lookup, ThreadIs, Idle, TypeInv, Inode, Thread, Page, Nodes, HoldInv,
         With, UseInv, FillInv, Filling, Holding, PageInv, PageWhole, Reading,
         PageOf, NoPage
<1>8. FaultInv'
  BY DEF Lookup, ThreadIs, Idle, TypeInv, Inode, Thread, Page, Nodes, RootInv,
         HoldInv, With, FaultInv, FaultsExplained
<1>. QED  BY <1>1, <1>2, <1>3, <1>4, <1>5, <1>6, <1>7, <1>8 DEF IInv

LEMMA IgetFindsKeeps ==
    ASSUME IInv, NEW t \in Threads, IgetFinds(t)
    PROVE  IInv'
<1>. TypeInv /\ RefsInv /\ HoldInv /\ RootInv /\ UseInv /\ FillInv /\ PageInv
     /\ FaultInv
  BY DEF IInv
<1>a. PICK o \in Objects :
          /\ inode[o].hashed /\ inode[o].ino = thread[t].number
          /\ ThreadHas(t, IF inode[o].new THEN "wait" ELSE "held", o)
          /\ inode' = [inode EXCEPT ![o].refs = @ + 1]
  BY DEF IgetFinds, Found
<1>b. /\ thread[t].pc = "iget" /\ thread[t].object = NoObject
      /\ inode[o].use = "used" /\ NoObject \notin Objects
      /\ fault = "none"
      /\ UNCHANGED <<kernel, table, module, root, fault, mounts, failures>>
  BY <1>a, Constants DEF IgetFinds, ThreadIs, HoldInv, With, UseInv, TypeInv, Thread
<1>c. /\ thread' \in [Threads -> Thread]
      /\ thread'[t].pc = (IF inode[o].new THEN "wait" ELSE "held")
      /\ thread'[t].object = o
      /\ thread'[t].number = thread[t].number
      /\ \A u \in Threads \ {t} : thread'[u] = thread[u]
  BY <1>a, ThreadGot
<1>d. /\ inode' \in [Objects -> Inode]
      /\ \A p \in Objects \ {o} : inode'[p] = inode[p]
      /\ \A p \in Objects :
            /\ inode'[p].use = inode[p].use /\ inode'[p].ino = inode[p].ino
            /\ inode'[p].new = inode[p].new /\ inode'[p].hashed = inode[p].hashed
            /\ inode'[p].bad = inode[p].bad /\ inode'[p].node = inode[p].node
            /\ inode'[p].page = inode[p].page
      /\ inode'[o].refs = inode[o].refs + 1
  BY <1>a DEF TypeInv, Inode
<1>1. TypeInv'
  BY <1>b, <1>c, <1>d DEF TypeInv
<1>2. RefsInv'
  <2>1. Cardinality(Holders(o)') = Cardinality(Holders(o)) + 1
    BY <1>a, <1>b, <1>c, HoldersTaken
  <2>2. \A p \in Objects \ {o} : Holders(p)' = Holders(p)
    BY <1>b, <1>c, HoldersOther
  <2>. QED  BY <1>b, <1>d, <2>1, <2>2, HoldersCount DEF RefsInv
<1>3. HoldInv'
  BY <1>a, <1>b, <1>c, <1>d DEF HoldInv, With, TypeInv, Thread
<1>4. RootInv'
  BY <1>a, <1>b, <1>d DEF RootInv, TypeInv
<1>5. UseInv'
  BY <1>b, <1>d DEF UseInv, Readable
<1>6. FillInv'
  BY <1>a, <1>b, <1>c, <1>d
     DEF FillInv, Filling, Holding, Readable, HoldInv, With, TypeInv, Thread
<1>7. PageInv'
  <2>1. PageWhole'
    BY <1>a, <1>b, <1>c, <1>d DEF PageInv, PageWhole, TypeInv
  <2>2. \A u \in Threads :
           /\ Reading(u)' => PageOf(u)'.state = "locked"
           /\ thread'[u].pc = "rest" =>
                 PageOf(u)'.node = inode'[thread'[u].object].node
    BY <1>a, <1>b, <1>c, <1>d
       DEF PageInv, Reading, PageOf, HoldInv, With, FillInv, Filling, Holding,
           TypeInv, Thread
  <2>3. ASSUME NEW u \in Threads, NEW v \in Threads, Reading(u)', Reading(v)',
               thread'[u].object = thread'[v].object
        PROVE  u = v
    BY <1>a, <1>b, <1>c, <1>d, <2>3
       DEF PageInv, Reading, PageOf, HoldInv, With, TypeInv, Thread
  <2>. QED  BY <2>1, <2>2, <2>3 DEF PageInv
<1>8. FaultInv'
  BY <1>b, <1>d DEF FaultInv, FaultsExplained
<1>. QED  BY <1>1, <1>2, <1>3, <1>4, <1>5, <1>6, <1>7, <1>8 DEF IInv

LEMMA IgetWaitsKeeps ==
    ASSUME IInv, NEW t \in Threads, IgetWaits(t)
    PROVE  IInv'
<1>. TypeInv /\ RefsInv /\ HoldInv /\ RootInv /\ UseInv /\ FillInv /\ PageInv
     /\ FaultInv
  BY DEF IInv
<1>1. TypeInv'
  BY DEF IgetWaits, ThreadIs, ThreadAt, TypeInv, Inode, Thread, Page, Nodes
<1>2. RefsInv'
  <2>1. \A u \in Threads : thread'[u].object = thread[u].object
    BY DEF IgetWaits, ThreadIs, ThreadAt, TypeInv, Thread
  <2>2. \A p \in Objects : inode'[p].refs = inode[p].refs
    BY DEF IgetWaits, ThreadIs, ThreadAt, TypeInv, Inode, HoldInv, With
  <2>. QED  BY <2>1, <2>2, RefsKept DEF IgetWaits
<1>3. HoldInv'
  BY DEF IgetWaits, ThreadIs, ThreadAt, TypeInv, Inode, Thread, Page, Nodes,
         HoldInv, With, Idle
<1>4. RootInv'
  BY DEF IgetWaits, ThreadIs, ThreadAt, TypeInv, Inode, Thread, Page, Nodes,
         HoldInv, With, RootInv, FillInv, Filling
<1>5. UseInv'
  BY DEF IgetWaits, ThreadIs, ThreadAt, TypeInv, Inode, Thread, Page, Nodes,
         HoldInv, With, RootInv, UseInv, FillInv, Filling, NoPage, Readable
<1>6. FillInv'
  BY DEF IgetWaits, ThreadIs, ThreadAt, TypeInv, Inode, Thread, Page, Nodes,
         HoldInv, With, FillInv, UseInv, Filling, Holding, Readable, NoPage
<1>7. PageInv'
  BY DEF IgetWaits, ThreadIs, ThreadAt, TypeInv, Inode, Thread, Page, Nodes,
         HoldInv, With, UseInv, FillInv, Filling, Holding, PageInv, PageWhole,
         Reading, PageOf, NoPage
<1>8. FaultInv'
  BY DEF IgetWaits, ThreadIs, ThreadAt, TypeInv, Inode, Thread, Page, Nodes,
         RootInv, HoldInv, With, FaultInv, FaultsExplained
<1>. QED  BY <1>1, <1>2, <1>3, <1>4, <1>5, <1>6, <1>7, <1>8 DEF IInv

LEMMA IgetAllocatesKeeps ==
    ASSUME IInv, NEW t \in Threads, IgetAllocates(t)
    PROVE  IInv'
<1>. TypeInv /\ RefsInv /\ HoldInv /\ RootInv /\ UseInv /\ FillInv /\ PageInv
     /\ FaultInv
  BY DEF IInv
<1>a. PICK o \in Objects :
          /\ Free(o)
          /\ ThreadHas(t, "fill", o)
          /\ inode' = [inode EXCEPT ![o] =
                 [Taken(o) EXCEPT !.ino = thread[t].number, !.new = TRUE,
                                  !.hashed = TRUE]]
  BY DEF IgetAllocates
<1>. DEFINE y == [Taken(o) EXCEPT !.ino = thread[t].number, !.new = TRUE,
                                  !.hashed = TRUE]
<1>b. /\ thread[t].pc = "iget" /\ thread[t].object = NoObject
      /\ thread[t].number \in Numbers /\ NoObject \notin Objects
      /\ fault = "none"
      /\ UNCHANGED <<kernel, table, module, root, fault, mounts, failures>>
  BY Constants DEF IgetAllocates, ThreadIs, HoldInv, With, TypeInv, Thread
<1>c. /\ thread' \in [Threads -> Thread]
      /\ thread'[t].pc = "fill"
      /\ thread'[t].object = o
      /\ thread'[t].number = thread[t].number
      /\ \A u \in Threads \ {t} : thread'[u] = thread[u]
  BY <1>a, ThreadGot
<1>d. /\ y \in Inode /\ y.use = "used" /\ y.refs = 1 /\ y.new /\ y.hashed
      /\ ~y.bad /\ y.page = NoPage /\ y.ino = thread[t].number
      /\ inode' = [inode EXCEPT ![o] = y]
  BY <1>a, <1>b, TakenObject DEF Inode
<1>. HIDE DEF y
<1>e. /\ inode' \in [Objects -> Inode] /\ inode'[o] = y
      /\ \A p \in Objects \ {o} : inode'[p] = inode[p]
  BY <1>d, ObjectSet
<1>f. /\ root # o /\ \A u \in Threads : thread[u].object # o
      /\ Cardinality(Holders(o)) = 0 /\ NoPage.state = "none"
  BY <1>a, FreeUnheld DEF Free, NoPage
<1>1. TypeInv'
  BY <1>b, <1>c, <1>e DEF TypeInv
<1>2. RefsInv'
  <2>1. Cardinality(Holders(o)') = 1
    BY <1>b, <1>c, <1>f, HoldersTaken
  <2>2. \A p \in Objects \ {o} : Holders(p)' = Holders(p)
    BY <1>b, <1>c, HoldersOther
  <2>. QED  BY <1>b, <1>d, <1>e, <1>f, <2>1, <2>2 DEF RefsInv
<1>3. HoldInv'
  BY <1>b, <1>c, <1>d, <1>e, <1>f DEF HoldInv, With, TypeInv, Thread
<1>4. RootInv'
  BY <1>b, <1>c, <1>d, <1>e, <1>f DEF RootInv, HoldInv, TypeInv
<1>5. UseInv'
  BY <1>b, <1>c, <1>d, <1>e, <1>f DEF UseInv, Readable
<1>6. FillInv'
  BY <1>b, <1>c, <1>d, <1>e, <1>f
     DEF FillInv, Filling, Holding, Readable, HoldInv, With, TypeInv, Thread
<1>7. PageInv'
  <2>1. PageWhole'
    BY <1>b, <1>c, <1>d, <1>e, <1>f DEF PageInv, PageWhole, TypeInv
  <2>2. \A u \in Threads :
           /\ Reading(u)' => PageOf(u)'.state = "locked"
           /\ thread'[u].pc = "rest" =>
                 PageOf(u)'.node = inode'[thread'[u].object].node
    BY <1>b, <1>c, <1>d, <1>e, <1>f
       DEF PageInv, Reading, PageOf, HoldInv, With, FillInv, Filling, Holding,
           TypeInv, Thread
  <2>3. ASSUME NEW u \in Threads, NEW v \in Threads, Reading(u)', Reading(v)',
               thread'[u].object = thread'[v].object
        PROVE  u = v
    BY <1>b, <1>c, <1>d, <1>e, <1>f, <2>3
       DEF PageInv, Reading, PageOf, HoldInv, With, TypeInv, Thread
  <2>. QED  BY <2>1, <2>2, <2>3 DEF PageInv
<1>8. FaultInv'
  BY <1>b, <1>c, <1>d, <1>e, <1>f DEF FaultInv, FaultsExplained
<1>. QED  BY <1>1, <1>2, <1>3, <1>4, <1>5, <1>6, <1>7, <1>8 DEF IInv

LEMMA IgetFailsKeeps ==
    ASSUME IInv, NEW t \in Threads, IgetFails(t)
    PROVE  IInv'
<1>. TypeInv /\ RefsInv /\ HoldInv /\ RootInv /\ UseInv /\ FillInv /\ PageInv
     /\ FaultInv
  BY DEF IInv
<1>1. TypeInv'
  <2>1. thread' \in [Threads -> Thread]
    BY ThreadMoved DEF IgetFails
  <2>2. failures' \in 0..MaxFailures
    BY Constants DEF IgetFails, Fail, TypeInv
  <2>. QED  BY <2>1, <2>2 DEF IgetFails, TypeInv
<1>2. RefsInv'
  <2>1. \A u \in Threads : thread'[u].object = thread[u].object
    BY DEF IgetFails, ThreadIs, ThreadAt, Fail, TypeInv, Thread
  <2>2. \A p \in Objects : inode'[p].refs = inode[p].refs
    BY DEF IgetFails, ThreadIs, ThreadAt, Fail, TypeInv, Inode, HoldInv, With
  <2>. QED  BY <2>1, <2>2, RefsKept DEF IgetFails
<1>3. HoldInv'
  BY DEF IgetFails, ThreadIs, ThreadAt, Fail, TypeInv, Inode, Thread, Page,
         Nodes, HoldInv, With, Idle
<1>4. RootInv'
  BY DEF IgetFails, ThreadIs, ThreadAt, Fail, TypeInv, Inode, Thread, Page,
         Nodes, HoldInv, With, RootInv, FillInv, Filling
<1>5. UseInv'
  BY DEF IgetFails, ThreadIs, ThreadAt, Fail, TypeInv, Inode, Thread, Page,
         Nodes, HoldInv, With, RootInv, UseInv, FillInv, Filling, NoPage,
         Readable
<1>6. FillInv'
  BY DEF IgetFails, ThreadIs, ThreadAt, Fail, TypeInv, Inode, Thread, Page,
         Nodes, HoldInv, With, FillInv, UseInv, Filling, Holding, Readable,
         NoPage
<1>7. PageInv'
  BY DEF IgetFails, ThreadIs, ThreadAt, Fail, TypeInv, Inode, Thread, Page,
         Nodes, HoldInv, With, UseInv, FillInv, Filling, Holding, PageInv,
         PageWhole, Reading, PageOf, NoPage
<1>8. FaultInv'
  BY DEF IgetFails, ThreadIs, ThreadAt, Fail, TypeInv, Inode, Thread, Page,
         Nodes, RootInv, HoldInv, With, FaultInv, FaultsExplained
<1>. QED  BY <1>1, <1>2, <1>3, <1>4, <1>5, <1>6, <1>7, <1>8 DEF IInv

LEMMA ReadInodeKeeps ==
    ASSUME IInv, NEW t \in Threads, ReadInode(t)
    PROVE  IInv'
<1>. TypeInv /\ RefsInv /\ HoldInv /\ RootInv /\ UseInv /\ FillInv /\ PageInv
     /\ FaultInv
  BY DEF IInv
<1>. DEFINE o == thread[t].object
            pc == IF Readable(thread[t].number) THEN "unlock" ELSE "failed"
<1>a. /\ o \in Objects /\ thread[t].pc = "fill" /\ thread[t].number \in Numbers
      /\ inode[o].use = "used" /\ inode[o].ino = thread[t].number
      /\ inode[o].new /\ inode[o].page = NoPage
      /\ fault = "none"
      /\ UNCHANGED <<kernel, table, module, root, fault, mounts, failures>>
      /\ ThreadAt(t, pc)
  BY DEF ReadInode, ThreadIs, HoldInv, With, FillInv, Filling, UseInv, TypeInv,
         Thread
<1>b. /\ thread' \in [Threads -> Thread]
      /\ thread'[t].pc = pc
      /\ thread'[t].object = o
      /\ thread'[t].number = thread[t].number
      /\ \A u \in Threads \ {t} : thread'[u] = thread[u]
  BY <1>a, ThreadMoved
<1>c. /\ inode' \in [Objects -> Inode]
      /\ \A p \in Objects \ {o} : inode'[p] = inode[p]
      /\ \A p \in Objects :
            /\ inode'[p].use = inode[p].use /\ inode'[p].ino = inode[p].ino
            /\ inode'[p].new = inode[p].new /\ inode'[p].hashed = inode[p].hashed
            /\ inode'[p].bad = inode[p].bad /\ inode'[p].refs = inode[p].refs
            /\ inode'[p].page = inode[p].page
      /\ inode'[o].node = IF Readable(thread[t].number) THEN thread[t].number
                          ELSE inode[o].node
  BY <1>a DEF ReadInode, Filled, TypeInv, Inode, Nodes
<1>d. NoPage.state = "none"
  BY DEF NoPage
<1>1. TypeInv'
  BY <1>a, <1>b, <1>c DEF TypeInv
<1>2. RefsInv'
  BY <1>a, <1>b, <1>c, RefsKept
<1>3. HoldInv'
  BY <1>a, <1>b, <1>c, <1>d DEF HoldInv, With, TypeInv, Thread
<1>4. RootInv'
  BY <1>a, <1>b, <1>c, <1>d DEF RootInv, TypeInv
<1>5. UseInv'
  BY <1>a, <1>b, <1>c, <1>d DEF UseInv, RootInv, Readable
<1>6. FillInv'
  BY <1>a, <1>b, <1>c, <1>d
     DEF FillInv, Filling, Holding, Readable, HoldInv, With, TypeInv, Thread
<1>7. PageInv'
  <2>1. PageWhole'
    BY <1>a, <1>b, <1>c, <1>d DEF PageInv, PageWhole, TypeInv
  <2>2. \A u \in Threads :
           /\ Reading(u)' => PageOf(u)'.state = "locked"
           /\ thread'[u].pc = "rest" =>
                 PageOf(u)'.node = inode'[thread'[u].object].node
    BY <1>a, <1>b, <1>c, <1>d
       DEF PageInv, Reading, PageOf, HoldInv, With, FillInv, Filling, Holding,
           TypeInv, Thread
  <2>3. ASSUME NEW u \in Threads, NEW v \in Threads, Reading(u)', Reading(v)',
               thread'[u].object = thread'[v].object
        PROVE  u = v
    BY <1>a, <1>b, <1>c, <1>d, <2>3
       DEF PageInv, Reading, PageOf, HoldInv, With, TypeInv, Thread
  <2>. QED  BY <2>1, <2>2, <2>3 DEF PageInv
<1>8. FaultInv'
  BY <1>a, <1>b, <1>c, <1>d DEF FaultInv, FaultsExplained
<1>. QED  BY <1>1, <1>2, <1>3, <1>4, <1>5, <1>6, <1>7, <1>8 DEF IInv

LEMMA UnlockInodeKeeps ==
    ASSUME IInv, NEW t \in Threads, UnlockInode(t)
    PROVE  IInv'
<1>. TypeInv /\ RefsInv /\ HoldInv /\ RootInv /\ UseInv /\ FillInv /\ PageInv
     /\ FaultInv
  BY DEF IInv
<1>. DEFINE o == thread[t].object
<1>a. /\ o \in Objects /\ thread[t].pc = "unlock"
      /\ inode[o].use = "used" /\ inode[o].ino = thread[t].number
      /\ inode[o].node = thread[t].number /\ ~inode[o].bad
      /\ fault = "none"
      /\ UNCHANGED <<kernel, table, module, root, fault, mounts, failures>>
  BY DEF UnlockInode, ThreadIs, HoldInv, With, FillInv, Filling, TypeInv, Thread
<1>b. /\ thread' \in [Threads -> Thread]
      /\ thread'[t].pc = "held"
      /\ thread'[t].object = o
      /\ thread'[t].number = thread[t].number
      /\ \A u \in Threads \ {t} : thread'[u] = thread[u]
  BY ThreadMoved DEF UnlockInode
<1>c. /\ inode' \in [Objects -> Inode]
      /\ \A p \in Objects \ {o} : inode'[p] = inode[p]
      /\ \A p \in Objects :
            /\ inode'[p].use = inode[p].use /\ inode'[p].ino = inode[p].ino
            /\ inode'[p].hashed = inode[p].hashed /\ inode'[p].bad = inode[p].bad
            /\ inode'[p].refs = inode[p].refs /\ inode'[p].node = inode[p].node
            /\ inode'[p].page = inode[p].page
      /\ ~inode'[o].new
  BY <1>a DEF UnlockInode, TypeInv, Inode
<1>d. NoPage.state = "none"
  BY DEF NoPage
<1>1. TypeInv'
  BY <1>a, <1>b, <1>c DEF TypeInv
<1>2. RefsInv'
  BY <1>a, <1>b, <1>c, RefsKept
<1>3. HoldInv'
  BY <1>a, <1>b, <1>c, <1>d DEF HoldInv, With, TypeInv, Thread
<1>4. RootInv'
  BY <1>a, <1>b, <1>c, <1>d DEF RootInv, TypeInv
<1>5. UseInv'
  BY <1>a, <1>b, <1>c, <1>d DEF UseInv, RootInv, Readable
<1>6. FillInv'
  BY <1>a, <1>b, <1>c, <1>d
     DEF FillInv, Filling, Holding, Readable, HoldInv, With, TypeInv, Thread
<1>7. PageInv'
  <2>1. PageWhole'
    BY <1>a, <1>b, <1>c, <1>d DEF PageInv, PageWhole, TypeInv
  <2>2. \A u \in Threads :
           /\ Reading(u)' => PageOf(u)'.state = "locked"
           /\ thread'[u].pc = "rest" =>
                 PageOf(u)'.node = inode'[thread'[u].object].node
    BY <1>a, <1>b, <1>c, <1>d
       DEF PageInv, Reading, PageOf, HoldInv, With, FillInv, Filling, Holding,
           TypeInv, Thread
  <2>3. ASSUME NEW u \in Threads, NEW v \in Threads, Reading(u)', Reading(v)',
               thread'[u].object = thread'[v].object
        PROVE  u = v
    BY <1>a, <1>b, <1>c, <1>d, <2>3
       DEF PageInv, Reading, PageOf, HoldInv, With, TypeInv, Thread
  <2>. QED  BY <2>1, <2>2, <2>3 DEF PageInv
<1>8. FaultInv'
  BY <1>a, <1>b, <1>c, <1>d DEF FaultInv, FaultsExplained
<1>. QED  BY <1>1, <1>2, <1>3, <1>4, <1>5, <1>6, <1>7, <1>8 DEF IInv

LEMMA IgetFailedKeeps ==
    ASSUME IInv, NEW t \in Threads, IgetFailed(t)
    PROVE  IInv'
<1>. TypeInv /\ RefsInv /\ HoldInv /\ RootInv /\ UseInv /\ FillInv /\ PageInv
     /\ FaultInv
  BY DEF IInv
<1>0. PICK o \in Objects : o = thread[t].object
  BY DEF IgetFailed, ThreadIs, HoldInv, With, TypeInv, Thread
<1>a. /\ o = thread[t].object /\ o \in Objects /\ NoObject \notin Objects
      /\ thread[t].pc = "failed" /\ inode[o].use = "used"
      /\ fault = "none"
      /\ UNCHANGED <<kernel, table, module, root, fault, mounts, failures>>
  BY <1>0, Constants DEF IgetFailed, ThreadIs, HoldInv, With, TypeInv, Thread
<1>b. inode[o].refs = 1 =>
          root # o /\ \A u \in Threads \ {t} : thread[u].object # o
  BY <1>a, LastHeld
<1>c. /\ thread' \in [Threads -> Thread]
      /\ thread'[t].pc = "error"
      /\ thread'[t].object = NoObject
      /\ thread'[t].number = thread[t].number
      /\ \A u \in Threads \ {t} : thread'[u] = thread[u]
  BY <1>a, ThreadGot DEF IgetFailed
<1>d. /\ inode' \in [Objects -> Inode]
      /\ \A p \in Objects \ {o} : inode'[p] = inode[p]
      /\ inode'[o].ino = inode[o].ino /\ inode'[o].node = inode[o].node
      /\ inode'[o].refs = inode[o].refs - 1 /\ ~inode'[o].hashed
      /\ IF inode[o].refs = 1
         THEN /\ inode'[o].use = IF kernel.defers THEN "rcu" ELSE "free"
              /\ inode'[o].page = NoPage
         ELSE /\ inode'[o].use = "used" /\ inode'[o].page = inode[o].page
              /\ inode'[o].bad /\ ~inode'[o].new
  <2>. DEFINE bad == [inode[o] EXCEPT !.bad = TRUE, !.new = FALSE,
                                      !.hashed = FALSE]
              put == [bad EXCEPT !.refs = @ - 1]
              y == IF bad.refs = 1 THEN Destroyed(o) ELSE put
  <2>1. inode[o] \in Inode
    BY DEF TypeInv
  <2>2. /\ bad \in Inode /\ bad.use = inode[o].use /\ bad.ino = inode[o].ino
        /\ bad.refs = inode[o].refs /\ bad.node = inode[o].node
        /\ bad.page = inode[o].page /\ bad.bad /\ ~bad.new /\ ~bad.hashed
    BY <2>1 DEF Inode
  <2>. HIDE DEF bad
  <2>3. /\ put \in Inode /\ put.use = bad.use /\ put.ino = bad.ino
        /\ put.refs = bad.refs - 1 /\ put.node = bad.node
        /\ put.page = bad.page /\ put.bad /\ ~put.new /\ ~put.hashed
    BY <2>2 DEF Inode
  <2>4. inode' = [inode EXCEPT ![o] = y]
    BY <1>a DEF IgetFailed, bad
  <2>. HIDE DEF put
  <2>5. y \in Inode
    BY <2>3, DestroyedObject
  <2>6. /\ inode' \in [Objects -> Inode] /\ inode'[o] = y
        /\ \A p \in Objects \ {o} : inode'[p] = inode[p]
    BY <2>4, <2>5, ObjectSet
  <2>. QED  BY <1>a, <2>2, <2>3, <2>6, DestroyedObject
<1>e. /\ inode[o].new /\ ~Readable(inode[o].ino) /\ root # o /\ root # NoObject
      /\ inode[o].page = NoPage /\ NoPage.state = "none"
  BY <1>a DEF FillInv, Filling, HoldInv, RootInv, UseInv, NoPage
<1>1. TypeInv'
  BY <1>a, <1>c, <1>d DEF TypeInv
<1>2. RefsInv'
  <2>1. /\ Cardinality(Holders(o)') = Cardinality(Holders(o)) - 1
        /\ Cardinality(Holders(o)) \in Nat
    BY <1>a, <1>c, HoldersLeft, HoldersCount
  <2>2. \A p \in Objects \ {o} : Holders(p)' = Holders(p)
    BY <1>a, <1>c, HoldersOther
  <2>3. inode'[o].refs = Cardinality(Holders(o)') + (IF root' = o THEN 1 ELSE 0)
    BY <1>a, <1>d, <2>1 DEF RefsInv
  <2>4. \A p \in Objects \ {o} : inode'[p].refs =
            Cardinality(Holders(p)') + (IF root' = p THEN 1 ELSE 0)
    BY <1>a, <1>d, <2>2 DEF RefsInv
  <2>. QED  BY <2>3, <2>4 DEF RefsInv
<1>3. HoldInv'
  BY <1>a, <1>b, <1>c, <1>d, <1>e DEF HoldInv, With, TypeInv, Thread
<1>4. RootInv'
  BY <1>a, <1>b, <1>c, <1>d, <1>e DEF RootInv, TypeInv
<1>5. UseInv'
  BY <1>a, <1>b, <1>c, <1>d, <1>e DEF UseInv, Readable
<1>6. FillInv'
  BY <1>a, <1>b, <1>c, <1>d, <1>e
     DEF FillInv, Filling, Holding, Readable, HoldInv, With, TypeInv, Thread
<1>7. PageInv'
  <2>1. PageWhole'
    BY <1>a, <1>b, <1>c, <1>d, <1>e DEF PageInv, PageWhole, TypeInv
  <2>2. \A u \in Threads :
           /\ Reading(u)' => PageOf(u)'.state = "locked"
           /\ thread'[u].pc = "rest" =>
                 PageOf(u)'.node = inode'[thread'[u].object].node
    BY <1>a, <1>b, <1>c, <1>d, <1>e
       DEF PageInv, Reading, PageOf, HoldInv, With, FillInv, Filling, Holding,
           TypeInv, Thread
  <2>3. ASSUME NEW u \in Threads, NEW v \in Threads, Reading(u)', Reading(v)',
               thread'[u].object = thread'[v].object
        PROVE  u = v
    BY <1>a, <1>b, <1>c, <1>d, <1>e, <2>3
       DEF PageInv, Reading, PageOf, HoldInv, With, TypeInv, Thread
  <2>. QED  BY <2>1, <2>2, <2>3 DEF PageInv
<1>8. FaultInv'
  BY <1>a, <1>b, <1>c, <1>d, <1>e DEF FaultInv, FaultsExplained
<1>. QED  BY <1>1, <1>2, <1>3, <1>4, <1>5, <1>6, <1>7, <1>8 DEF IInv

LEMMA LookupErrorKeeps ==
    ASSUME IInv, NEW t \in Threads, LookupError(t)
    PROVE  IInv'
<1>. TypeInv /\ RefsInv /\ HoldInv /\ RootInv /\ UseInv /\ FillInv /\ PageInv
     /\ FaultInv
  BY DEF IInv
<1>a. /\ thread[t].pc = "error" /\ thread[t].object = NoObject
      /\ fault = "none" /\ fault' \in {"none", "error pointer"}
      /\ fault' = "error pointer" => ~kernel.splices
      /\ UNCHANGED <<kernel, table, module, root, inode, mounts, failures>>
      /\ NoObject \notin Objects
  BY Constants DEF LookupError, ThreadIs, HoldInv, With, TypeInv, Thread
<1>b. /\ thread' \in [Threads -> Thread]
      /\ thread'[t] = Idle /\ thread'[t].pc = "idle"
      /\ thread'[t].object = NoObject
      /\ \A u \in Threads \ {t} : thread'[u] = thread[u]
  BY DEF LookupError, Idle, TypeInv, Thread, Nodes
<1>1. TypeInv'
  BY <1>a, <1>b DEF TypeInv
<1>2. RefsInv'
  BY <1>a, <1>b, RefsKept
<1>3. HoldInv'
  <2>. SUFFICES ASSUME NEW u \in Threads
                PROVE  /\ thread'[u].pc \in With <=> thread'[u].object # NoObject
                       /\ thread'[u].pc # "idle" => thread'[u].number \in Numbers
                       /\ thread'[u].pc # "idle" => root' # NoObject
                       /\ thread'[u].pc = "idle" => thread'[u] = Idle
                       /\ thread'[u].object # NoObject =>
                             /\ inode'[thread'[u].object].use = "used"
                             /\ inode'[thread'[u].object].ino = thread'[u].number
    BY DEF HoldInv
  <2>1. CASE u = t
    BY <1>a, <1>b, <2>1 DEF With
  <2>2. CASE u # t
    BY <1>a, <1>b, <2>2 DEF HoldInv
  <2>. QED  BY <2>1, <2>2
<1>4. RootInv'
  BY <1>a, <1>b DEF RootInv
<1>5. UseInv'
  BY <1>a, <1>b DEF UseInv, Readable
<1>6. FillInv'
  <2>1. ASSUME NEW u \in Threads
        PROVE  /\ Filling(u)' => /\ inode'[thread'[u].object].new
                                 /\ ~inode'[thread'[u].object].bad
               /\ thread'[u].pc = "unlock" =>
                     inode'[thread'[u].object].node = thread'[u].number
               /\ thread'[u].pc = "failed" =>
                     table'[thread'[u].number] = "unknown"
               /\ Holding(u)' => ~inode'[thread'[u].object].new
    <3>1. CASE u = t
      BY <1>b, <3>1 DEF Filling, Holding
    <3>2. CASE u # t
      <4>1. thread'[u] = thread[u]
        BY <1>b, <3>2
      <4>. QED  BY <1>a, <4>1 DEF FillInv, Filling, Holding, Readable
    <3>. QED  BY <3>1, <3>2
  <2>2. ASSUME NEW u \in Threads, NEW v \in Threads, Filling(u)', Filling(v)',
               thread'[u].object = thread'[v].object
        PROVE  u = v
    <3>1. u # t /\ v # t
      BY <1>b, <2>2 DEF Filling
    <3>2. thread'[u] = thread[u] /\ thread'[v] = thread[v]
      BY <1>b, <3>1
    <3>3. Filling(u) /\ Filling(v)
      BY <2>2, <3>2 DEF Filling
    <3>. QED  BY <2>2, <3>2, <3>3 DEF FillInv
  <2>. QED  BY <2>1, <2>2 DEF FillInv, Readable
<1>7. PageInv'
  <2>1. ~Filling(t)' /\ ~Holding(t)' /\ ~Reading(t)'
    BY <1>b DEF Filling, Holding, Reading
  <2>2. \A u \in Threads \ {t} :
           /\ Filling(u)' <=> Filling(u)
           /\ Holding(u)' <=> Holding(u)
           /\ Reading(u)' <=> Reading(u)
           /\ thread'[u] = thread[u]
    BY <1>b DEF Filling, Holding, Reading
  <2>3. PageWhole'
    BY <1>a DEF PageInv, PageWhole
  <2>4. \A u \in Threads : thread'[u].pc = "rest" => u # t
    BY <1>b
  <2>. QED  BY <1>a, <2>1, <2>2, <2>3, <2>4 DEF PageInv, PageOf
<1>8. FaultInv'
  BY <1>a, <1>b DEF FaultInv, FaultsExplained
<1>. QED  BY <1>1, <1>2, <1>3, <1>4, <1>5, <1>6, <1>7, <1>8 DEF IInv

LEMMA ReleaseKeeps ==
    ASSUME IInv, NEW t \in Threads, Release(t)
    PROVE  IInv'
<1>. TypeInv /\ RefsInv /\ HoldInv /\ RootInv /\ UseInv /\ FillInv /\ PageInv
     /\ FaultInv
  BY DEF IInv
<1>0. PICK o \in Objects : o = thread[t].object
  BY DEF Release, ThreadIs, HoldInv, With, TypeInv, Thread
<1>a. /\ o = thread[t].object /\ o \in Objects /\ NoObject \notin Objects
      /\ thread[t].pc = "held" /\ inode[o].use = "used"
      /\ fault = "none"
      /\ UNCHANGED <<kernel, table, module, root, fault, mounts, failures>>
  BY <1>0, Constants DEF Release, ThreadIs, HoldInv, With, TypeInv, Thread
<1>b. inode[o].refs = 1 =>
          root # o /\ \A u \in Threads \ {t} : thread[u].object # o
  BY <1>a, LastHeld
<1>c. /\ thread' \in [Threads -> Thread]
      /\ thread'[t].pc = "idle"
      /\ thread'[t].object = NoObject
      /\ thread'[t] = Idle
      /\ \A u \in Threads \ {t} : thread'[u] = thread[u]
  BY <1>a, Constants DEF Release, Idle, TypeInv, Thread, Nodes
<1>d. /\ inode' \in [Objects -> Inode]
      /\ \A p \in Objects \ {o} : inode'[p] = inode[p]
      /\ inode'[o].ino = inode[o].ino /\ inode'[o].node = inode[o].node
      /\ inode'[o].refs = inode[o].refs - 1
      /\ IF inode[o].refs = 1 /\ ~inode[o].hashed
         THEN /\ inode'[o].use = IF kernel.defers THEN "rcu" ELSE "free"
              /\ ~inode'[o].hashed /\ inode'[o].page = NoPage
         ELSE /\ inode'[o].use = "used" /\ inode'[o].hashed = inode[o].hashed
              /\ inode'[o].new = inode[o].new /\ inode'[o].bad = inode[o].bad
              /\ inode'[o].page = inode[o].page
  <2>. DEFINE put == [inode[o] EXCEPT !.refs = @ - 1]
  <2>1. inode[o] \in Inode
    BY DEF TypeInv
  <2>2. /\ put \in Inode /\ put.use = inode[o].use /\ put.ino = inode[o].ino
        /\ put.refs = inode[o].refs - 1 /\ put.node = inode[o].node
        /\ put.page = inode[o].page /\ put.bad = inode[o].bad
        /\ put.new = inode[o].new /\ put.hashed = inode[o].hashed
    BY <2>1 DEF Inode
  <2>3. inode' = [inode EXCEPT ![o] = Put(o)]
    BY <1>a DEF Release
  <2>4. Put(o) = IF inode[o].refs = 1 /\ ~inode[o].hashed THEN Destroyed(o)
                 ELSE put
    BY DEF Put
  <2>. HIDE DEF put
  <2>5. Put(o) \in Inode
    BY <2>2, <2>4, DestroyedObject
  <2>6. /\ inode' \in [Objects -> Inode] /\ inode'[o] = Put(o)
        /\ \A p \in Objects \ {o} : inode'[p] = inode[p]
    BY <2>3, <2>5, ObjectSet
  <2>. QED  BY <1>a, <2>2, <2>4, <2>6, DestroyedObject
<1>e. root # NoObject /\ NoPage.state = "none" /\ Idle.pc = "idle"
      /\ Idle.object = NoObject
  BY <1>a DEF HoldInv, NoPage, Idle
<1>1. TypeInv'
  BY <1>a, <1>c, <1>d DEF TypeInv
<1>2. RefsInv'
  <2>1. /\ Cardinality(Holders(o)') = Cardinality(Holders(o)) - 1
        /\ Cardinality(Holders(o)) \in Nat
    BY <1>a, <1>c, HoldersLeft, HoldersCount
  <2>2. \A p \in Objects \ {o} : Holders(p)' = Holders(p)
    BY <1>a, <1>c, HoldersOther
  <2>3. inode'[o].refs = Cardinality(Holders(o)') + (IF root' = o THEN 1 ELSE 0)
    BY <1>a, <1>d, <2>1 DEF RefsInv
  <2>4. \A p \in Objects \ {o} : inode'[p].refs =
            Cardinality(Holders(p)') + (IF root' = p THEN 1 ELSE 0)
    BY <1>a, <1>d, <2>2 DEF RefsInv
  <2>. QED  BY <2>3, <2>4 DEF RefsInv
<1>3. HoldInv'
  BY <1>a, <1>b, <1>c, <1>d, <1>e DEF HoldInv, With, TypeInv, Thread
<1>4. RootInv'
  BY <1>a, <1>b, <1>c, <1>d, <1>e DEF RootInv, TypeInv
<1>5. UseInv'
  BY <1>a, <1>b, <1>c, <1>d, <1>e DEF UseInv, Readable
<1>6. FillInv'
  <2>1. ~Filling(t)' /\ ~Holding(t)' /\ thread'[t].pc = "idle"
    BY <1>c DEF Filling, Holding
  <2>2. ASSUME NEW u \in Threads, Filling(u)' \/ Holding(u)'
        PROVE  /\ thread'[u] = thread[u] /\ u # t
               /\ Filling(u)' <=> Filling(u)
               /\ Holding(u)' <=> Holding(u)
               /\ thread[u].object \in Objects
    BY <1>c, <2>1, <2>2 DEF Filling, Holding, HoldInv, With, TypeInv, Thread
  <2>3. \A p \in Objects :
           inode'[p] = inode[p] \/
           /\ p = o /\ inode'[p].node = inode[p].node
           /\ \/ inode'[p].new = inode[p].new /\ inode'[p].bad = inode[p].bad
              \/ \A u \in Threads \ {t} : thread[u].object # o
    BY <1>a, <1>b, <1>d
  <2>. QED  BY <1>a, <2>1, <2>2, <2>3 DEF FillInv, Filling, Readable
<1>7. PageInv'
  <2>1. PageWhole'
    BY <1>a, <1>b, <1>c, <1>d, <1>e DEF PageInv, PageWhole, TypeInv
  <2>2. \A u \in Threads :
           /\ Reading(u)' => PageOf(u)'.state = "locked"
           /\ thread'[u].pc = "rest" =>
                 PageOf(u)'.node = inode'[thread'[u].object].node
    BY <1>a, <1>b, <1>c, <1>d, <1>e
       DEF PageInv, Reading, PageOf, HoldInv, With, FillInv, Filling, Holding,
           TypeInv, Thread
  <2>3. ASSUME NEW u \in Threads, NEW v \in Threads, Reading(u)', Reading(v)',
               thread'[u].object = thread'[v].object
        PROVE  u = v
    BY <1>a, <1>b, <1>c, <1>d, <1>e, <2>3
       DEF PageInv, Reading, PageOf, HoldInv, With, TypeInv, Thread
  <2>. QED  BY <2>1, <2>2, <2>3 DEF PageInv
<1>8. FaultInv'
  BY <1>a, <1>b, <1>c, <1>d, <1>e DEF FaultInv, FaultsExplained
<1>. QED  BY <1>1, <1>2, <1>3, <1>4, <1>5, <1>6, <1>7, <1>8 DEF IInv

LEMMA ReadPageKeeps ==
    ASSUME IInv, NEW t \in Threads, ReadPage(t)
    PROVE  IInv'
<1>. TypeInv /\ RefsInv /\ HoldInv /\ RootInv /\ UseInv /\ FillInv /\ PageInv
     /\ FaultInv
  BY DEF IInv
<1>. DEFINE o == thread[t].object
            page == [inode[o].page EXCEPT !.state = "locked"]
<1>a. /\ thread[t].pc = "held" /\ o \in Objects
      /\ inode[o] \in Inode
  BY DEF ReadPage, ThreadIs, HoldInv, With, TypeInv, Thread
<1>b. /\ page \in Page
      /\ page.state = "locked" /\ page.bytes = inode[o].page.bytes
      /\ page.node = inode[o].page.node
      /\ inode[o].page.state \in {"none", "error"}
  BY <1>a DEF ReadPage, PageInv, Reading, PageOf, Inode, Page
<1>c. /\ ThreadAt(t, "page") /\ SetPage(t, page)
      /\ UNCHANGED <<kernel, table, module, root, fault, mounts>>
      /\ failures' \in 0..MaxFailures
  BY Constants DEF ReadPage, TypeInv
<1>. HIDE DEF page
<1>d. /\ thread' \in [Threads -> Thread]
      /\ thread'[t].pc = "page"
      /\ thread'[t].object = o
      /\ thread'[t].number = thread[t].number
      /\ \A u \in Threads \ {t} : thread'[u] = thread[u]
  BY <1>c, ThreadMoved
<1>e. /\ inode' \in [Objects -> Inode]
      /\ inode'[o].page = page
      /\ \A p \in Objects \ {o} : inode'[p] = inode[p]
      /\ \A p \in Objects :
            /\ inode'[p].use = inode[p].use /\ inode'[p].ino = inode[p].ino
            /\ inode'[p].new = inode[p].new /\ inode'[p].bad = inode[p].bad
            /\ inode'[p].hashed = inode[p].hashed
            /\ inode'[p].refs = inode[p].refs /\ inode'[p].node = inode[p].node
  BY <1>a, <1>b, <1>c, PageSet
<1>1. TypeInv'
  BY <1>c, <1>d, <1>e DEF TypeInv
<1>2. RefsInv'
  BY <1>c, <1>d, <1>e, RefsKept
<1>3. HoldInv'
  BY <1>a, <1>c, <1>d, <1>e DEF HoldInv, With, TypeInv, Thread
<1>4. RootInv'
  BY <1>c, <1>e DEF RootInv, TypeInv
<1>5. UseInv'
  BY <1>a, <1>b, <1>c, <1>d, <1>e, Constants
     DEF UseInv, HoldInv, With, FillInv, Holding, PageInv, Reading,
         Readable, NoPage, TypeInv, Thread
<1>6. FillInv'
  BY <1>a, <1>c, <1>d, <1>e
     DEF FillInv, Filling, Holding, Readable, HoldInv, With, TypeInv, Thread
<1>7. PageInv'
  <2>1. PageWhole'
    BY <1>a, <1>b, <1>c, <1>d, <1>e DEF PageInv, PageWhole, TypeInv
  <2>2. \A u \in Threads :
           /\ Reading(u)' => PageOf(u)'.state = "locked"
           /\ thread'[u].pc = "rest" =>
                 PageOf(u)'.node = inode'[thread'[u].object].node
    BY <1>a, <1>b, <1>c, <1>d, <1>e
       DEF PageInv, Reading, PageOf, HoldInv, With, FillInv, Filling, Holding,
           TypeInv, Thread
  <2>3. ASSUME NEW u \in Threads, NEW v \in Threads, Reading(u)', Reading(v)',
               thread'[u].object = thread'[v].object
        PROVE  u = v
    BY <1>a, <1>b, <1>c, <1>d, <1>e, <2>3
       DEF PageInv, Reading, PageOf, HoldInv, With, TypeInv, Thread
  <2>. QED  BY <2>1, <2>2, <2>3 DEF PageInv
<1>8. FaultInv'
  BY <1>c, <1>e DEF FaultInv, FaultsExplained
<1>. QED  BY <1>1, <1>2, <1>3, <1>4, <1>5, <1>6, <1>7, <1>8 DEF IInv

LEMMA FillPageKeeps ==
    ASSUME IInv, NEW t \in Threads, FillPage(t)
    PROVE  IInv'
<1>. TypeInv /\ RefsInv /\ HoldInv /\ RootInv /\ UseInv /\ FillInv /\ PageInv
     /\ FaultInv
  BY DEF IInv
<1>. DEFINE o == thread[t].object
            page == [PageOf(t) EXCEPT !.bytes = "part", !.node = inode[o].node]
<1>a. /\ thread[t].pc = "page" /\ o \in Objects
      /\ inode[o] \in Inode
  BY DEF FillPage, ThreadIs, HoldInv, With, TypeInv, Thread
<1>b. /\ page \in Page
      /\ page.state = "locked" /\ page.node = inode[o].node
  BY <1>a DEF FillPage, PageInv, Reading, PageOf, Inode, Page
<1>c. /\ ThreadAt(t, "rest") /\ SetPage(t, page)
      /\ UNCHANGED <<kernel, table, module, root, fault, mounts>>
      /\ failures' \in 0..MaxFailures
  BY Constants DEF FillPage, TypeInv
<1>. HIDE DEF page
<1>d. /\ thread' \in [Threads -> Thread]
      /\ thread'[t].pc = "rest"
      /\ thread'[t].object = o
      /\ thread'[t].number = thread[t].number
      /\ \A u \in Threads \ {t} : thread'[u] = thread[u]
  BY <1>c, ThreadMoved
<1>e. /\ inode' \in [Objects -> Inode]
      /\ inode'[o].page = page
      /\ \A p \in Objects \ {o} : inode'[p] = inode[p]
      /\ \A p \in Objects :
            /\ inode'[p].use = inode[p].use /\ inode'[p].ino = inode[p].ino
            /\ inode'[p].new = inode[p].new /\ inode'[p].bad = inode[p].bad
            /\ inode'[p].hashed = inode[p].hashed
            /\ inode'[p].refs = inode[p].refs /\ inode'[p].node = inode[p].node
  BY <1>a, <1>b, <1>c, PageSet
<1>1. TypeInv'
  BY <1>c, <1>d, <1>e DEF TypeInv
<1>2. RefsInv'
  BY <1>c, <1>d, <1>e, RefsKept
<1>3. HoldInv'
  BY <1>a, <1>c, <1>d, <1>e DEF HoldInv, With, TypeInv, Thread
<1>4. RootInv'
  BY <1>c, <1>e DEF RootInv, TypeInv
<1>5. UseInv'
  BY <1>a, <1>b, <1>c, <1>d, <1>e, Constants
     DEF UseInv, HoldInv, With, FillInv, Holding, PageInv, Reading,
         Readable, NoPage, TypeInv, Thread
<1>6. FillInv'
  BY <1>a, <1>c, <1>d, <1>e
     DEF FillInv, Filling, Holding, Readable, HoldInv, With, TypeInv, Thread
<1>7. PageInv'
  <2>1. PageWhole'
    BY <1>a, <1>b, <1>c, <1>d, <1>e DEF PageInv, PageWhole, TypeInv
  <2>2. \A u \in Threads :
           /\ Reading(u)' => PageOf(u)'.state = "locked"
           /\ thread'[u].pc = "rest" =>
                 PageOf(u)'.node = inode'[thread'[u].object].node
    BY <1>a, <1>b, <1>c, <1>d, <1>e
       DEF PageInv, Reading, PageOf, HoldInv, With, FillInv, Filling, Holding,
           TypeInv, Thread
  <2>3. ASSUME NEW u \in Threads, NEW v \in Threads, Reading(u)', Reading(v)',
               thread'[u].object = thread'[v].object
        PROVE  u = v
    BY <1>a, <1>b, <1>c, <1>d, <1>e, <2>3
       DEF PageInv, Reading, PageOf, HoldInv, With, TypeInv, Thread
  <2>. QED  BY <2>1, <2>2, <2>3 DEF PageInv
<1>8. FaultInv'
  BY <1>c, <1>e DEF FaultInv, FaultsExplained
<1>. QED  BY <1>1, <1>2, <1>3, <1>4, <1>5, <1>6, <1>7, <1>8 DEF IInv

LEMMA ReadPageFailsKeeps ==
    ASSUME IInv, NEW t \in Threads, ReadPageFails(t)
    PROVE  IInv'
<1>. TypeInv /\ RefsInv /\ HoldInv /\ RootInv /\ UseInv /\ FillInv /\ PageInv
     /\ FaultInv
  BY DEF IInv
<1>. DEFINE o == thread[t].object
            page == [PageOf(t) EXCEPT !.state = "error"]
<1>a. /\ thread[t].pc \in {"page", "rest"} /\ o \in Objects
      /\ inode[o] \in Inode
  BY DEF ReadPageFails, ThreadIs, HoldInv, With, TypeInv, Thread
<1>b. /\ page \in Page
      /\ page.state = "error"
  BY <1>a DEF ReadPageFails, PageInv, Reading, PageOf, Inode, Page
<1>c. /\ ThreadAt(t, "held") /\ SetPage(t, page)
      /\ UNCHANGED <<kernel, table, module, root, fault, mounts>>
      /\ failures' \in 0..MaxFailures
  BY Constants DEF ReadPageFails, Fail, TypeInv
<1>. HIDE DEF page
<1>d. /\ thread' \in [Threads -> Thread]
      /\ thread'[t].pc = "held"
      /\ thread'[t].object = o
      /\ thread'[t].number = thread[t].number
      /\ \A u \in Threads \ {t} : thread'[u] = thread[u]
  BY <1>c, ThreadMoved
<1>e. /\ inode' \in [Objects -> Inode]
      /\ inode'[o].page = page
      /\ \A p \in Objects \ {o} : inode'[p] = inode[p]
      /\ \A p \in Objects :
            /\ inode'[p].use = inode[p].use /\ inode'[p].ino = inode[p].ino
            /\ inode'[p].new = inode[p].new /\ inode'[p].bad = inode[p].bad
            /\ inode'[p].hashed = inode[p].hashed
            /\ inode'[p].refs = inode[p].refs /\ inode'[p].node = inode[p].node
  BY <1>a, <1>b, <1>c, PageSet
<1>1. TypeInv'
  BY <1>c, <1>d, <1>e DEF TypeInv
<1>2. RefsInv'
  BY <1>c, <1>d, <1>e, RefsKept
<1>3. HoldInv'
  BY <1>a, <1>c, <1>d, <1>e DEF HoldInv, With, TypeInv, Thread
<1>4. RootInv'
  BY <1>c, <1>e DEF RootInv, TypeInv
<1>5. UseInv'
  BY <1>a, <1>b, <1>c, <1>d, <1>e, Constants
     DEF UseInv, HoldInv, With, FillInv, Holding, PageInv, Reading,
         Readable, NoPage, TypeInv, Thread
<1>6. FillInv'
  BY <1>a, <1>c, <1>d, <1>e
     DEF FillInv, Filling, Holding, Readable, HoldInv, With, TypeInv, Thread
<1>7. PageInv'
  <2>1. PageWhole'
    BY <1>a, <1>b, <1>c, <1>d, <1>e DEF PageInv, PageWhole, TypeInv
  <2>2. \A u \in Threads :
           /\ Reading(u)' => PageOf(u)'.state = "locked"
           /\ thread'[u].pc = "rest" =>
                 PageOf(u)'.node = inode'[thread'[u].object].node
    BY <1>a, <1>b, <1>c, <1>d, <1>e
       DEF PageInv, Reading, PageOf, HoldInv, With, FillInv, Filling, Holding,
           TypeInv, Thread
  <2>3. ASSUME NEW u \in Threads, NEW v \in Threads, Reading(u)', Reading(v)',
               thread'[u].object = thread'[v].object
        PROVE  u = v
    BY <1>a, <1>b, <1>c, <1>d, <1>e, <2>3
       DEF PageInv, Reading, PageOf, HoldInv, With, TypeInv, Thread
  <2>. QED  BY <2>1, <2>2, <2>3 DEF PageInv
<1>8. FaultInv'
  BY <1>c, <1>e DEF FaultInv, FaultsExplained
<1>. QED  BY <1>1, <1>2, <1>3, <1>4, <1>5, <1>6, <1>7, <1>8 DEF IInv

LEMMA ReadPageEndsKeeps ==
    ASSUME IInv, NEW t \in Threads, ReadPageEnds(t)
    PROVE  IInv'
<1>. TypeInv /\ RefsInv /\ HoldInv /\ RootInv /\ UseInv /\ FillInv /\ PageInv
     /\ FaultInv
  BY DEF IInv
<1>. DEFINE o == thread[t].object
            page == [PageOf(t) EXCEPT !.state = "uptodate", !.bytes = "whole"]
<1>a. /\ thread[t].pc = "rest" /\ o \in Objects
      /\ inode[o] \in Inode
  BY DEF ReadPageEnds, ThreadIs, HoldInv, With, TypeInv, Thread
<1>b. /\ page \in Page
      /\ page.state = "uptodate" /\ page.bytes = "whole"
      /\ page.node = inode[o].node
  BY <1>a DEF ReadPageEnds, PageInv, Reading, PageOf, Inode, Page
<1>c. /\ ThreadAt(t, "held") /\ SetPage(t, page)
      /\ UNCHANGED <<kernel, table, module, root, fault, mounts>>
      /\ failures' \in 0..MaxFailures
  BY Constants DEF ReadPageEnds, TypeInv
<1>. HIDE DEF page
<1>d. /\ thread' \in [Threads -> Thread]
      /\ thread'[t].pc = "held"
      /\ thread'[t].object = o
      /\ thread'[t].number = thread[t].number
      /\ \A u \in Threads \ {t} : thread'[u] = thread[u]
  BY <1>c, ThreadMoved
<1>e. /\ inode' \in [Objects -> Inode]
      /\ inode'[o].page = page
      /\ \A p \in Objects \ {o} : inode'[p] = inode[p]
      /\ \A p \in Objects :
            /\ inode'[p].use = inode[p].use /\ inode'[p].ino = inode[p].ino
            /\ inode'[p].new = inode[p].new /\ inode'[p].bad = inode[p].bad
            /\ inode'[p].hashed = inode[p].hashed
            /\ inode'[p].refs = inode[p].refs /\ inode'[p].node = inode[p].node
  BY <1>a, <1>b, <1>c, PageSet
<1>1. TypeInv'
  BY <1>c, <1>d, <1>e DEF TypeInv
<1>2. RefsInv'
  BY <1>c, <1>d, <1>e, RefsKept
<1>3. HoldInv'
  BY <1>a, <1>c, <1>d, <1>e DEF HoldInv, With, TypeInv, Thread
<1>4. RootInv'
  BY <1>c, <1>e DEF RootInv, TypeInv
<1>5. UseInv'
  BY <1>a, <1>b, <1>c, <1>d, <1>e, Constants
     DEF UseInv, HoldInv, With, FillInv, Holding, PageInv, Reading,
         Readable, NoPage, TypeInv, Thread
<1>6. FillInv'
  BY <1>a, <1>c, <1>d, <1>e
     DEF FillInv, Filling, Holding, Readable, HoldInv, With, TypeInv, Thread
<1>7. PageInv'
  <2>1. PageWhole'
    BY <1>a, <1>b, <1>c, <1>d, <1>e DEF PageInv, PageWhole, TypeInv
  <2>2. \A u \in Threads :
           /\ Reading(u)' => PageOf(u)'.state = "locked"
           /\ thread'[u].pc = "rest" =>
                 PageOf(u)'.node = inode'[thread'[u].object].node
    BY <1>a, <1>b, <1>c, <1>d, <1>e
       DEF PageInv, Reading, PageOf, HoldInv, With, FillInv, Filling, Holding,
           TypeInv, Thread
  <2>3. ASSUME NEW u \in Threads, NEW v \in Threads, Reading(u)', Reading(v)',
               thread'[u].object = thread'[v].object
        PROVE  u = v
    BY <1>a, <1>b, <1>c, <1>d, <1>e, <2>3
       DEF PageInv, Reading, PageOf, HoldInv, With, TypeInv, Thread
  <2>. QED  BY <2>1, <2>2, <2>3 DEF PageInv
<1>8. FaultInv'
  BY <1>c, <1>e DEF FaultInv, FaultsExplained
<1>. QED  BY <1>1, <1>2, <1>3, <1>4, <1>5, <1>6, <1>7, <1>8 DEF IInv

-----------------------------------------------------------------------------
(***************************************************************************)
(* The theorems                                                            *)
(***************************************************************************)
LEMMA InitInv == Init => IInv
<1>. SUFFICES ASSUME Init PROVE IInv
  OBVIOUS
<1>. USE Constants
<1>1. \A o \in Objects : inode[o] = Fresh
  BY DEF Init
<1>2. \A t \in Threads : thread[t] = Idle
  BY DEF Init
<1>3. TypeInv
  <2>1. Fresh \in Inode
    BY NoPageFacts DEF Fresh, Inode, Nodes, Root
  <2>. QED  BY <2>1, IdleFacts DEF Init, TypeInv
<1>4. RefsInv
  <2>1. \A o \in Objects : Holders(o) = {}
    BY <1>2, IdleFacts DEF Holders
  <2>2. \A o \in Objects : inode[o].refs = 0 /\ root # o
    BY <1>1 DEF Fresh, Init
  <2>. QED  BY <2>1, <2>2, FS_EmptySet DEF RefsInv
<1>5. HoldInv
  BY <1>2, IdleFacts DEF HoldInv, With
<1>6. RootInv
  BY <1>1 DEF Init, RootInv, Fresh
<1>7. UseInv
  BY <1>1 DEF UseInv, Fresh
<1>8. FillInv
  BY <1>2, IdleFacts DEF FillInv, Filling, Holding
<1>9. PageInv
  BY <1>1, <1>2, IdleFacts DEF PageInv, PageWhole, Reading, Fresh, NoPage
<1>10. FaultInv
  BY <1>1 DEF Init, FaultInv, FaultsExplained, Fresh
<1>. QED  BY <1>3, <1>4, <1>5, <1>6, <1>7, <1>8, <1>9, <1>10 DEF IInv

LEMMA StepInv == IInv /\ [Next]_vars => IInv'
<1>. SUFFICES ASSUME IInv, [Next]_vars PROVE IInv'
  OBVIOUS
<1>1. ASSUME NEW o \in Objects,
             Mount(o) \/ MountFails(o) \/ Evict(o) \/ RcuCallback(o)
      PROVE  IInv'
  BY <1>1, MountKeeps, MountFailsKeeps, EvictKeeps, RcuCallbackKeeps
<1>2. CASE Unmount
  BY <1>2, UnmountKeeps
<1>3. CASE ExitModule
  BY <1>3, ExitModuleKeeps
<1>4. ASSUME NEW t \in Threads, NEW number \in Numbers \ {Root}, Lookup(t, number)
      PROVE  IInv'
  BY <1>4, LookupKeeps
<1>5. ASSUME NEW t \in Threads, Step(t)
      PROVE  IInv'
  BY <1>5, IgetFindsKeeps, IgetWaitsKeeps, IgetAllocatesKeeps, IgetFailsKeeps,
     ReadInodeKeeps, UnlockInodeKeeps, IgetFailedKeeps, LookupErrorKeeps,
     FillPageKeeps, ReadPageFailsKeeps, ReadPageEndsKeeps DEF Step
<1>6. ASSUME NEW t \in Threads, ReadPage(t) \/ Release(t)
      PROVE  IInv'
  BY <1>6, ReadPageKeeps, ReleaseKeeps
<1>7. CASE UNCHANGED vars
  <2>1. TypeInv' /\ RefsInv' /\ RootInv'
    BY <1>7 DEF vars, IInv, TypeInv, RefsInv, Holders, RootInv
  <2>2. HoldInv'
    BY <1>7 DEF vars, IInv, HoldInv
  <2>3. UseInv'
    BY <1>7 DEF vars, IInv, UseInv, Readable
  <2>4. FillInv'
    BY <1>7 DEF vars, IInv, FillInv, Filling, Holding, Readable
  <2>5. PageInv'
    BY <1>7 DEF vars, IInv, PageInv, PageWhole, Reading, PageOf
  <2>6. FaultInv'
    BY <1>7 DEF vars, IInv, FaultInv, FaultsExplained
  <2>. QED  BY <2>1, <2>2, <2>3, <2>4, <2>5, <2>6 DEF IInv
<1>. QED  BY <1>1, <1>2, <1>3, <1>4, <1>5, <1>6, <1>7 DEF Next

\* The inductive invariant holds in every state: the references of an object are
\* those of the threads that have it and of the root, a new inode has one thread
\* that fills it and a locked page one that reads it (super.c:322-342, 929-971).
THEOREM Invariance == Spec => []IInv
<1>1. Init => IInv
  BY InitInv
<1>2. IInv /\ [Next]_vars => IInv'
  BY StepInv
<1>. QED  BY <1>1, <1>2, PTL DEF Spec

\* Every variable keeps its type, and every object the references it has.
THEOREM TypeCorrect == Spec => []TypeOK
<1>1. IInv => TypeOK
  BY DEF IInv, TypeInv, RefsInv, UseInv, Holders, Inode, Thread, Nodes, TypeOK
<1>. QED  BY <1>1, Invariance, PTL

\* However many threads look a number up at once, and whichever fail, what
\* lookup gives is the node it was asked for, complete, or the root's or a bad
\* inode (super.c:322-342, 1261-1271).
THEOREM LookupCorrect == Spec => []LookupGivesNode
<1>1. IInv => LookupGivesNode
  <2>. SUFFICES ASSUME IInv, NEW t \in Threads, Holding(t)
                PROVE  LET o == inode[thread[t].object] IN
                       \/ ~o.bad /\ ~o.new /\ o.node = thread[t].number
                       \/ thread[t].object = root /\ o.ino = thread[t].number
                       \/ o.bad /\ ~Readable(thread[t].number)
    BY DEF LookupGivesNode
  <2>1. thread[t].object \in Objects
    BY DEF IInv, TypeInv, HoldInv, With, Holding, Thread
  <2>2. /\ inode[thread[t].object].use = "used"
        /\ inode[thread[t].object].ino = thread[t].number
        /\ ~inode[thread[t].object].new
    BY <2>1, Constants DEF IInv, HoldInv, FillInv
  <2>. QED  BY <2>1, <2>2 DEF IInv, UseInv
<1>. QED  BY <1>1, Invariance, PTL

\* A page is never up to date with less than the contents of its inode, whatever
\* failed while it was read (super.c:929-971).
THEOREM PagesWhole == Spec => []PageWhole
<1>1. IInv => PageWhole
  BY DEF IInv, PageInv
<1>. QED  BY <1>1, Invariance, PTL

\* Memory comes to harm in three cases only: callbacks that no one waits for, a
\* root that was not put, and a kernel that takes an error pointer for an inode
\* (super.c:886-895, 988-1003, 1266-1288, 1343-1347).
THEOREM FaultsHaveCauses == Spec => []FaultsExplained
<1>1. IInv => FaultsExplained
  BY DEF IInv, FaultInv
<1>. QED  BY <1>1, Invariance, PTL
=============================================================================
