-------------------------------- MODULE Inodes --------------------------------
(***************************************************************************)
(* Inodes and pages of the driver (src/src/linux/super.c): the root that   *)
(* fill_super makes, get_inode and read_inode for what lookup finds,       *)
(* readpage, the cache that inodes are allocated from, and the module that *)
(* owns it.                                                                *)
(*                                                                         *)
(* The inode hash, iget_locked, eviction and RCU are the kernel's.  Inodes *)
(* are objects of a slab: one that is freed and taken again has the fields *)
(* it had, but those that the kernel sets for a new inode.  A node may be  *)
(* listed by several directories (mkfs joins duplicates), and so two       *)
(* threads may look one number up at the same time.                        *)
(***************************************************************************)
EXTENDS Integers, FiniteSets

CONSTANTS Numbers,      \* the numbers of nodes; 0 is the root
          Tables,       \* what the nodes may be: functions from Numbers
          Objects,      \* the objects of the inode cache
          Threads,      \* threads that look up and read
          Kernels,      \* what differs between the kernels it is built for
          MaxMounts,    \* bound: mounts
          MaxFailures   \* bound: allocations and device reads that fail

Root == 0
Types == {"directory", "regular", "unknown"}
NoObject == "no object"
NoNode == -1

ASSUME InodesAssumption ==
    /\ Root \in Numbers /\ NoNode \notin Numbers
    /\ NoObject \notin Objects
    /\ IsFiniteSet(Threads)
    /\ Tables \subseteq [Numbers -> Types]
    /\ \A kernel \in Kernels : kernel \in [defers : BOOLEAN, waits : BOOLEAN,
                                           splices : BOOLEAN, counts : BOOLEAN]
    /\ MaxMounts \in Nat /\ MaxFailures \in Nat

VARIABLES
    kernel,      \* defers: inodes are freed after an RCU grace period (2.6.38);
                 \* waits: an unmount waits for that (until 3.6);
                 \* splices: d_splice_alias takes an error pointer (3.1);
                 \* counts: new_inode gives a number of its own (until 2.6.36)
    table,       \* the types of the nodes by the inode table
    module,      \* whether the module and its inode cache are there
    root,        \* the root's inode while something is mounted, or NoObject
    inode,       \* the objects
    thread,      \* what each thread is at
    fault,       \* "none", or what has happened to memory
    mounts, failures

vars == <<kernel, table, module, root, inode, thread, fault, mounts, failures>>

\* node is the one that read_inode has filled in; page is the first page of
\* its contents.
NoPage == [state |-> "none", node |-> NoNode, bytes |-> "none"]
Fresh == [use |-> "free", ino |-> 0, new |-> FALSE, hashed |-> FALSE,
          bad |-> FALSE, refs |-> 0, node |-> NoNode, page |-> NoPage]
Idle == [pc |-> "idle", number |-> NoNode, object |-> NoObject]

TypeOK ==
    /\ kernel \in Kernels /\ table \in Tables
    /\ module \in {"loaded", "removed"}
    /\ root \in Objects \cup {NoObject}
    /\ \A o \in Objects :
          /\ inode[o].use \in {"free", "used", "leaked", "rcu"}
          /\ inode[o].node \in Numbers \cup {NoNode}
          /\ inode[o].hashed => inode[o].use = "used"
          /\ inode[o].refs =
                Cardinality({t \in Threads : thread[t].object = o})
                + (IF root = o THEN 1 ELSE 0)
    /\ \A t \in Threads :
          thread[t].pc \in {"idle", "iget", "wait", "fill", "unlock", "failed",
                            "error", "held", "page", "rest"}
    /\ mounts \in 0..MaxMounts /\ failures \in 0..MaxFailures

Init ==
    /\ kernel \in Kernels /\ table \in Tables
    /\ module = "loaded" /\ root = NoObject
    /\ inode = [o \in Objects |-> Fresh]
    /\ thread = [t \in Threads |-> Idle]
    /\ fault = "none" /\ mounts = 0 /\ failures = 0

-----------------------------------------------------------------------------
(***************************************************************************)
(* What the kernel does with inodes                                        *)
(***************************************************************************)
ThreadIs(t, pc) == fault = "none" /\ thread[t].pc = pc
ThreadAt(t, pc) == thread' = [thread EXCEPT ![t].pc = pc]
ThreadHas(t, pc, o) ==
    thread' = [thread EXCEPT ![t] = [@ EXCEPT !.pc = pc, !.object = o]]
Fail == failures < MaxFailures /\ failures' = failures + 1

\* alloc_inode and inode_init_always: the number and the node stay.
Free(o) == inode[o].use = "free"
Taken(o) == [Fresh EXCEPT !.use = "used", !.refs = 1,
                          !.ino = inode[o].ino, !.node = inode[o].node]

\* destroy_inode: the object is freed now or after a grace period.
Destroyed(o) == [inode[o] EXCEPT !.use = IF kernel.defers THEN "rcu" ELSE "free",
                                 !.hashed = FALSE, !.refs = 0, !.page = NoPage]

\* Some kernels wait for the callbacks when they are done with a file system,
\* after a mount that fails, too.
DoneWith(objects) ==
    [o \in Objects |->
        IF kernel.waits /\ objects[o].use = "rcu"
        THEN [objects[o] EXCEPT !.use = "free"] ELSE objects[o]]

\* iput: an inode that is not hashed goes with its last reference.
Put(o) == IF inode[o].refs = 1 /\ ~inode[o].hashed THEN Destroyed(o)
          ELSE [inode[o] EXCEPT !.refs = @ - 1]

Found(number) == {o \in Objects : inode[o].hashed /\ inode[o].ino = number}

-----------------------------------------------------------------------------
(***************************************************************************)
(* The root, mounts and the module                                         *)
(***************************************************************************)
\* read_inode: the node's row, unless it has a type the driver does not know.
Readable(number) == table[number] # "unknown"
Filled(o, number) == [o EXCEPT !.node = number]

\* fill_super's root, of a number that new_inode chooses or leaves.
Mount(o) ==
    /\ fault = "none" /\ module = "loaded"
    /\ root = NoObject /\ mounts < MaxMounts /\ Free(o)
    /\ Readable(Root)
    /\ mounts' = mounts + 1
    /\ root' = o
    /\ \E ino \in IF kernel.counts THEN Numbers ELSE {inode[o].ino} :
          inode' = [inode EXCEPT ![o] =
              Filled([Taken(o) EXCEPT !.ino = ino, !.hashed = TRUE], Root)]
    /\ UNCHANGED <<kernel, table, module, thread, fault, failures>>

\* The root cannot be read: the mount fails, and its inode is not put.
MountFails(o) ==
    /\ fault = "none" /\ module = "loaded"
    /\ root = NoObject /\ mounts < MaxMounts /\ Free(o)
    /\ ~Readable(Root)
    /\ mounts' = mounts + 1
    /\ inode' = DoneWith([inode EXCEPT ![o] = [Taken(o) EXCEPT !.use = "leaked",
                                                               !.refs = 0]])
    /\ UNCHANGED <<kernel, table, module, root, thread, fault, failures>>

\* No one uses what is mounted: every inode is evicted.
Unmount ==
    /\ fault = "none" /\ root # NoObject
    /\ \A t \in Threads : thread[t] = Idle
    /\ root' = NoObject
    /\ inode' = DoneWith([o \in Objects |->
                    IF inode[o].use = "used" THEN Destroyed(o) ELSE inode[o]])
    /\ UNCHANGED <<kernel, table, module, thread, fault, mounts, failures>>

\* The kernel takes an inode that no one refers to.
Evict(o) ==
    /\ fault = "none"
    /\ inode[o].use = "used" /\ inode[o].refs = 0
    /\ inode' = [inode EXCEPT ![o] = Destroyed(o)]
    /\ UNCHANGED <<kernel, table, module, root, thread, fault, mounts, failures>>

\* smashfs_i_callback frees to a cache that must still be there.
RcuCallback(o) ==
    /\ fault = "none"
    /\ inode[o].use = "rcu"
    /\ inode' = [inode EXCEPT ![o].use = "free"]
    /\ fault' = IF module = "loaded" THEN "none" ELSE "callback"
    /\ UNCHANGED <<kernel, table, module, root, thread, mounts, failures>>

\* mutant: the module may be removed while something is mounted
ExitModuleMounted ==
    /\ fault = "none" /\ module = "loaded"
    /\ module' = "removed"
    /\ fault' = IF \E o \in Objects : inode[o].use \in {"used", "leaked"}
                THEN "objects left" ELSE "none"
    /\ UNCHANGED <<kernel, table, root, inode, thread, mounts, failures>>

\* exit_smashfs_fs destroys the cache, with nothing mounted and no more ado.
ExitModule ==
    /\ fault = "none" /\ module = "loaded" /\ root = NoObject
    /\ module' = "removed"
    /\ fault' = IF \E o \in Objects : inode[o].use \in {"used", "leaked"}
                THEN "objects left" ELSE "none"
    /\ UNCHANGED <<kernel, table, root, inode, thread, mounts, failures>>

-----------------------------------------------------------------------------
(***************************************************************************)
(* smashfs_lookup of a name that stands for a node: get_inode              *)
(***************************************************************************)
Lookup(t, number) ==
    /\ ThreadIs(t, "idle") /\ root # NoObject
    /\ thread' = [thread EXCEPT ![t] = [Idle EXCEPT !.pc = "iget",
                                                    !.number = number]]
    /\ UNCHANGED <<kernel, table, module, root, inode, fault, mounts, failures>>

\* iget_locked: an inode of that number, waited for while it is new, ...
IgetFinds(t) ==
    /\ ThreadIs(t, "iget")
    /\ \E o \in Found(thread[t].number) :
          /\ ThreadHas(t, IF inode[o].new THEN "wait" ELSE "held", o)
          /\ inode' = [inode EXCEPT ![o].refs = @ + 1]
    /\ UNCHANGED <<kernel, table, module, root, fault, mounts, failures>>

\* ... which by then may be one that could not be read, ...
IgetWaits(t) ==
    /\ ThreadIs(t, "wait")
    /\ ~inode[thread[t].object].new
    /\ ThreadAt(t, "held")
    /\ UNCHANGED <<kernel, table, module, root, inode, fault, mounts, failures>>

\* ... or a new one, ...
IgetAllocates(t) ==
    /\ ThreadIs(t, "iget")
    /\ Found(thread[t].number) = {}
    /\ \E o \in Objects :
          /\ Free(o)
          /\ ThreadHas(t, "fill", o)
          /\ inode' = [inode EXCEPT ![o] =
                 [Taken(o) EXCEPT !.ino = thread[t].number, !.new = TRUE,
                                  !.hashed = TRUE]]
    /\ UNCHANGED <<kernel, table, module, root, fault, mounts, failures>>

\* ... or none.
IgetFails(t) ==
    /\ ThreadIs(t, "iget")
    /\ Found(thread[t].number) = {}
    /\ \/ Fail
       \/ (\A o \in Objects : ~Free(o)) /\ UNCHANGED failures
    /\ ThreadAt(t, "error")
    /\ UNCHANGED <<kernel, table, module, root, inode, fault, mounts>>

\* mutant: the inode is unlocked before it is read
ReadInodeUnlocked(t) ==
    /\ ThreadIs(t, "fill")
    /\ ThreadAt(t, IF Readable(thread[t].number) THEN "unlock" ELSE "failed")
    /\ inode' = [inode EXCEPT ![thread[t].object].new = FALSE]
    /\ UNCHANGED <<kernel, table, module, root, fault, mounts, failures>>

ReadInode(t) ==
    /\ ThreadIs(t, "fill")
    /\ IF Readable(thread[t].number)
       THEN /\ ThreadAt(t, "unlock")
            /\ inode' = [inode EXCEPT ![thread[t].object] =
                            Filled(@, thread[t].number)]
       ELSE ThreadAt(t, "failed") /\ UNCHANGED inode
    /\ UNCHANGED <<kernel, table, module, root, fault, mounts, failures>>

\* unlock_new_inode
UnlockInode(t) ==
    /\ ThreadIs(t, "unlock")
    /\ ThreadAt(t, "held")
    /\ inode' = [inode EXCEPT ![thread[t].object].new = FALSE]
    /\ UNCHANGED <<kernel, table, module, root, fault, mounts, failures>>

\* mutant: only the lock is given up
IgetFailedKept(t) ==
    /\ ThreadIs(t, "failed")
    /\ ThreadHas(t, "error", NoObject)
    /\ inode' = [inode EXCEPT ![thread[t].object].new = FALSE]
    /\ UNCHANGED <<kernel, table, module, root, fault, mounts, failures>>

\* mutant: the inode that was not read is put, but stays locked
IgetFailedLocked(t) ==
    LET o == thread[t].object IN
    /\ ThreadIs(t, "failed")
    /\ ThreadHas(t, "error", NoObject)
    /\ inode' = [inode EXCEPT ![o].refs = @ - 1]
    /\ UNCHANGED <<kernel, table, module, root, fault, mounts, failures>>

\* iget_failed: the inode is made bad, which takes it from the hash, unlocked
\* and put.  Whoever waits for it keeps it.
IgetFailed(t) ==
    LET o == thread[t].object
        bad == [inode[o] EXCEPT !.bad = TRUE, !.new = FALSE, !.hashed = FALSE]
    IN
    /\ ThreadIs(t, "failed")
    /\ ThreadHas(t, "error", NoObject)
    /\ inode' = [inode EXCEPT ![o] = IF bad.refs = 1 THEN Destroyed(o)
                                     ELSE [bad EXCEPT !.refs = @ - 1]]
    /\ UNCHANGED <<kernel, table, module, root, fault, mounts, failures>>

\* The error is no NULL and goes to d_splice_alias, which before 3.1 takes it
\* for an inode.
LookupError(t) ==
    /\ ThreadIs(t, "error")
    /\ thread' = [thread EXCEPT ![t] = Idle]
    /\ fault' = IF kernel.splices THEN "none" ELSE "error pointer"
    /\ UNCHANGED <<kernel, table, module, root, inode, mounts, failures>>

\* The dentry and with it the reference to the inode is given up.
Release(t) ==
    /\ ThreadIs(t, "held")
    /\ thread' = [thread EXCEPT ![t] = Idle]
    /\ inode' = [inode EXCEPT ![thread[t].object] = Put(thread[t].object)]
    /\ UNCHANGED <<kernel, table, module, root, fault, mounts, failures>>

-----------------------------------------------------------------------------
(***************************************************************************)
(* smashfs_readpage                                                        *)
(***************************************************************************)
PageOf(t) == inode[thread[t].object].page
SetPage(t, page) == inode' = [inode EXCEPT ![thread[t].object].page = page]

\* The page is locked by the kernel; of a directory none is read.
ReadPage(t) ==
    LET o == inode[thread[t].object] IN
    /\ ThreadIs(t, "held")
    /\ ~o.bad /\ o.node # NoNode /\ table[o.node] = "regular"
    /\ o.page.state \in {"none", "error"}
    /\ ThreadAt(t, "page")
    /\ SetPage(t, [o.page EXCEPT !.state = "locked"])
    /\ UNCHANGED <<kernel, table, module, root, fault, mounts, failures>>

\* node_read fills the page block after block.
FillPage(t) ==
    /\ ThreadIs(t, "page")
    /\ ThreadAt(t, "rest")
    /\ SetPage(t, [PageOf(t) EXCEPT !.bytes = "part",
                                    !.node = inode[thread[t].object].node])
    /\ UNCHANGED <<kernel, table, module, root, fault, mounts, failures>>

\* mutant: the page is up to date after an error, too
ReadPageFailsUptodate(t) ==
    /\ ThreadIs(t, "page") \/ ThreadIs(t, "rest")
    /\ Fail
    /\ ThreadAt(t, "held")
    /\ SetPage(t, [PageOf(t) EXCEPT !.state = "uptodate"])
    /\ UNCHANGED <<kernel, table, module, root, fault, mounts>>

\* node_read fails, before or after some of the page is filled: the page is
\* marked and unlocked, and 0 returned.
ReadPageFails(t) ==
    /\ ThreadIs(t, "page") \/ ThreadIs(t, "rest")
    /\ Fail
    /\ ThreadAt(t, "held")
    /\ SetPage(t, [PageOf(t) EXCEPT !.state = "error"])
    /\ UNCHANGED <<kernel, table, module, root, fault, mounts>>

\* The rest comes, and zeros after the end of the contents.
ReadPageEnds(t) ==
    /\ ThreadIs(t, "rest")
    /\ ThreadAt(t, "held")
    /\ SetPage(t, [PageOf(t) EXCEPT !.state = "uptodate", !.bytes = "whole"])
    /\ UNCHANGED <<kernel, table, module, root, fault, mounts, failures>>

-----------------------------------------------------------------------------
\* What a thread does once it has begun.
Step(t) ==
    \/ IgetFinds(t)
    \/ IgetWaits(t)
    \/ IgetAllocates(t)
    \/ IgetFails(t)
    \/ ReadInode(t)
    \/ UnlockInode(t)
    \/ IgetFailed(t)
    \/ LookupError(t)
    \/ FillPage(t)
    \/ ReadPageFails(t)
    \/ ReadPageEnds(t)

Next ==
    \/ \E o \in Objects :
          \/ Mount(o)
          \/ MountFails(o)
          \/ Evict(o)
          \/ RcuCallback(o)
    \/ Unmount
    \/ ExitModule
    \/ \E t \in Threads :
          \/ \E number \in Numbers \ {Root} : Lookup(t, number)
          \/ Step(t)
          \/ ReadPage(t)
          \/ Release(t)

\* The kernel schedules every thread that is in a call.
Fairness == \A t \in Threads : WF_vars(Step(t))

Spec == Init /\ [][Next]_vars /\ Fairness

-----------------------------------------------------------------------------
(***************************************************************************)
(* Properties                                                              *)
(***************************************************************************)
\* lookup returns an inode that stands for the node it was asked for, complete,
\* however many threads look it up at once: unless it is the root, whose
\* number (super.c:1261-1271) happens to be that node's, or a bad one that
\* another thread could not read meanwhile (super.c:328-340).
Holding(t) == thread[t].pc \in {"held", "page", "rest"}
LookupGivesNode ==
    \A t \in Threads : Holding(t) =>
        LET o == inode[thread[t].object] IN
        \/ ~o.bad /\ ~o.new /\ o.node = thread[t].number
        \/ thread[t].object = root /\ o.ino = thread[t].number
        \/ o.bad /\ ~Readable(thread[t].number)

\* A page is up to date only when it holds the whole of its inode's contents,
\* whatever failed before and whoever tried again (super.c:929-971).
PageWhole ==
    \A o \in Objects : inode[o].page.state = "uptodate" =>
        inode[o].page.bytes = "whole" /\ inode[o].page.node = inode[o].node

\* The inode cache outlives its inodes but in two cases: the callbacks that no
\* one waits for (super.c:1343-1347, 988-1003), and the root that could not be
\* read and was never put (super.c:1266-1288).  An error pointer is used as an
\* inode only before 3.1 (super.c:886-895).
FaultsExplained ==
    /\ fault = "callback" => kernel.defers /\ ~kernel.waits
    /\ fault = "objects left" => \E o \in Objects : inode[o].use = "leaked"
    /\ fault = "error pointer" => ~kernel.splices

\* Every lookup and every read of a page comes to its end, whatever fails: no
\* inode stays new for the thread that waits for it (super.c:322-342).
CallsReturn ==
    \A t \in Threads :
        thread[t].pc \notin {"idle", "held"} ~>
            (thread[t].pc \in {"idle", "held"} \/ fault # "none")

\* "inode is not new for %lld" (super.c:329) is said of an inode that is there
\* already for the number that was asked for: the one found is that number's.
FoundIsItsNumbers ==
    \A t \in Threads : Holding(t) /\ Readable(thread[t].number) =>
        inode[thread[t].object].node = thread[t].number
=============================================================================
