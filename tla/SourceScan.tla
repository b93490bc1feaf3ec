----------------------------- MODULE SourceScan -----------------------------
(***************************************************************************)
(* How mkfs.smashfs reads its sources (src/src/mkfs/mkfs.c): sources_scan   *)
(* takes the entries of the source trees from fts_read one after the other *)
(* and node_new makes a node of each, finds duplicates, and appends an     *)
(* entry to the parent directory's node.                                   *)
(*                                                                         *)
(* The file system decides what fts_read returns: a directory before what  *)
(* is in it, and the entries of one directory in the order of fts_compare. *)
(* Entry e is the e-th one returned, so its position also stands for its   *)
(* name: two names in one directory compare as their positions do.         *)
(***************************************************************************)
EXTENDS Integers, Sequences, SequencesExt

CONSTANTS MaxEntries,   \* bound: the entries fts_read returns
          MaxFailures,  \* bound: the calls that fail
          Contents      \* what regular files and symbolic links can hold

ASSUME ScanAssumption ==
    /\ MaxEntries \in Nat \ {0}
    /\ MaxFailures \in Nat

NoContent == "no content"
ASSUME ContentAssumption == NoContent \notin Contents

\* The entry types node_new tells apart; it refuses the special ones
\* (devices, fifos, sockets) at the end of its if chain.
Items == [type : {"regular_file", "symbolic_link"}, content : Contents]
            \cup [type : {"directory", "special"}, content : {NoContent}]

NULL == -1        \* fts_pointer as fts_read sets it
Freed == -2       \* it points to a node that node_new freed again
Root == 0         \* the fts_parent of a source given with -s

VARIABLES
    no_duplicates,    \* the option
    entries,          \* the entries read so far
    fts_pointer,      \* of each of them: NULL, Freed, or the number of the
                      \* node that is at that address now
    nodes_table,      \* the hash table, in the order of insertion
    nodes_id,         \* the next node's number
    nduplicates,      \* the count printed as "duplicates"
    failures,         \* calls that failed so far
    scan              \* "reading", "done" or "crashed"

vars == <<no_duplicates, entries, fts_pointer, nodes_table, nodes_id,
          nduplicates, failures, scan>>

Init ==
    /\ no_duplicates \in BOOLEAN
    /\ entries = <<>>
    /\ fts_pointer = <<>>
    /\ nodes_table = <<>>
    /\ nodes_id = 0
    /\ nduplicates = 0
    /\ failures = 0
    /\ scan = "reading"

-----------------------------------------------------------------------------
\* fts_read may return an entry under p next: a source, or an entry of a
\* directory it has entered and not left.
CanFollow(p) ==
    p # Root => /\ entries[p].item.type = "directory"
                /\ \A f \in (p + 1)..Len(entries) : entries[f].parent >= p

\* The next entry is item under p, and node_new returns a node or NULL.
Read(p, item, added) ==
    /\ scan = "reading"
    /\ Len(entries) < MaxEntries
    /\ CanFollow(p)
    /\ entries' = Append(entries,
                         [parent |-> p, item |-> item, added |-> added])

Fail == failures < MaxFailures /\ failures' = failures + 1

\* mutant: node 0 taken for no node
ParentPointerZero(p) ==
    IF p = Root \/ fts_pointer[p] = 0 THEN NULL ELSE fts_pointer[p]

\* parent = entry->fts_parent->fts_pointer
ParentPointer(p) == IF p = Root THEN NULL ELSE fts_pointer[p]

\* The position of node number n in the table.
At(n) == CHOOSE i \in DOMAIN nodes_table : nodes_table[i].number = n

\* mutant: the search gives up at the first node that is no twin
TwinsFirstOnly(item) ==
    {i \in DOMAIN nodes_table : /\ item.type # "directory"
                                /\ nodes_table[i].type = item.type
                                /\ nodes_table[i].content = item.content
                                /\ i = 1}

\* The nodes HASH_ITER finds to have the item's type and content.
Twins(item) ==
    {i \in DOMAIN nodes_table : /\ item.type # "directory"
                                /\ nodes_table[i].type = item.type
                                /\ nodes_table[i].content = item.content}

\* The node that stands for item: the first twin, or none.
IsDuplicate(item) == ~no_duplicates /\ Twins(item) # {}
FirstTwin(item) ==
    nodes_table[CHOOSE i \in Twins(item) : \A k \in Twins(item) : i =< k]

\* The table after an entry for the node with that number and type was
\* appended to directory node n.
Linked(table, n, number, type) ==
    [table EXCEPT ![At(n)].entries =
        Append(@, [number |-> number, type |-> type,
                   name |-> Len(entries) + 1])]

\* mutant: the parent is taken to be the last node added
NewNodeLastParent(p, item) ==
    [number |-> nodes_id, type |-> item.type, content |-> item.content,
     parent |-> IF item.type = "directory" /\ ParentPointer(p) # NULL
                THEN nodes_id - 1 ELSE 0,
     entries |-> <<>>]

\* The freed directories fts is still in when it reads an entry under p.  A
\* new node's malloc may be given the memory of one of them, and which of
\* them had the same memory is left open: any of them may point to it then.
Dangling(p) == {f \in 1..p : CanFollow(f) /\ fts_pointer[f] = Freed}

\* fts_pointer with the new node's address, in the memory reused pointed to.
Pointers(reused) ==
    Append([f \in DOMAIN fts_pointer |->
               IF f \in reused THEN nodes_id ELSE fts_pointer[f]],
           nodes_id)

\* The parent is none, or a node of the type of a directory.
InDirectory(p) ==
    ParentPointer(p) # NULL =>
        \E i \in DOMAIN nodes_table :
           /\ nodes_table[i].number = ParentPointer(p)
           /\ nodes_table[i].type = "directory"

\* The node node_new fills in for an entry that is not a duplicate.
NewNode(p, item) ==
    [number |-> nodes_id, type |-> item.type, content |-> item.content,
     parent |-> IF item.type = "directory" /\ ParentPointer(p) # NULL
                THEN nodes_table[At(ParentPointer(p))].number ELSE 0,
     entries |-> <<>>]

-----------------------------------------------------------------------------
(***************************************************************************)
(* One disjunct per way through node_new.                                  *)
(***************************************************************************)

\* The entry becomes a node of its own, with an entry in its parent
\* directory; a source has no parent node and gets none.
AddNode(p, item) ==
    /\ Read(p, item, TRUE)
    /\ item.type # "special"
    /\ ~IsDuplicate(item)
    /\ InDirectory(p)
    /\ LET linked == IF ParentPointer(p) = NULL THEN nodes_table
                     ELSE Linked(nodes_table, ParentPointer(p), nodes_id,
                                 item.type)
       IN  nodes_table' = Append(linked, NewNode(p, item))
    /\ nodes_id' = nodes_id + 1
    /\ \E reused \in SUBSET Dangling(p) : fts_pointer' = Pointers(reused)
    /\ UNCHANGED <<no_duplicates, nduplicates, failures, scan>>

\* mutant: nodes_id is advanced for a duplicate too
AddDuplicateNumbered(p, item) ==
    /\ Read(p, item, TRUE)
    /\ IsDuplicate(item)
    /\ InDirectory(p)
    /\ nodes_table' = IF ParentPointer(p) = NULL THEN nodes_table
                      ELSE Linked(nodes_table, ParentPointer(p),
                                  FirstTwin(item).number,
                                  FirstTwin(item).type)
    /\ nduplicates' = nduplicates + 1
    /\ nodes_id' = nodes_id + 1
    /\ fts_pointer' = Append(fts_pointer, Freed)
    /\ UNCHANGED <<no_duplicates, failures, scan>>

\* mutant: the directory entry keeps the number the freed node had
AddDuplicateOwnNumber(p, item) ==
    /\ Read(p, item, TRUE)
    /\ IsDuplicate(item)
    /\ InDirectory(p)
    /\ nodes_table' = IF ParentPointer(p) = NULL THEN nodes_table
                      ELSE Linked(nodes_table, ParentPointer(p), nodes_id,
                                  item.type)
    /\ nduplicates' = nduplicates + 1
    /\ fts_pointer' = Append(fts_pointer, Freed)
    /\ UNCHANGED <<no_duplicates, nodes_id, failures, scan>>

\* The entry has the type and content of an earlier node: its own node is
\* freed and the directory entry names the earlier one.
AddDuplicate(p, item) ==
    /\ Read(p, item, TRUE)
    /\ IsDuplicate(item)
    /\ InDirectory(p)
    /\ nodes_table' = IF ParentPointer(p) = NULL THEN nodes_table
                      ELSE Linked(nodes_table, ParentPointer(p),
                                  FirstTwin(item).number,
                                  FirstTwin(item).type)
    /\ nduplicates' = nduplicates + 1
    /\ fts_pointer' = Append(fts_pointer, Freed)
    /\ UNCHANGED <<no_duplicates, nodes_id, failures, scan>>

\* sources_scan skips an entry fts could not stat (FTS_NS, FTS_ERR), or the
\* first malloc of node_new fails.  (FTS_DNR comes after the directory's own
\* entry and leaves nothing to do.)
NoNode(p, item) ==
    /\ Read(p, item, FALSE)
    /\ Fail
    /\ fts_pointer' = Append(fts_pointer, NULL)
    /\ UNCHANGED <<no_duplicates, nodes_table, nodes_id, nduplicates, scan>>

\* The bail label: open, read, readlink or a later malloc fails, that of the
\* grown parent directory included.  fts_pointer keeps the freed address.
Bail(p, item) ==
    /\ Read(p, item, FALSE)
    /\ Fail
    /\ fts_pointer' = Append(fts_pointer, Freed)
    /\ UNCHANGED <<no_duplicates, nodes_table, nodes_id, nduplicates, scan>>

\* The bail label for an entry of a type mkfs does not store.
BailSpecial(p, item) ==
    /\ Read(p, item, FALSE)
    /\ item.type = "special"
    /\ fts_pointer' = Append(fts_pointer, Freed)
    /\ UNCHANGED <<no_duplicates, nodes_table, nodes_id, nduplicates, failures,
                   scan>>

\* The parent's memory is a file's or a link's node now: "parent is not a
\* directory", and the bail label.
ParentIsNoDirectory(p, item) ==
    /\ Read(p, item, FALSE)
    /\ ParentPointer(p) \notin {NULL, Freed}
    /\ ~InDirectory(p)
    /\ item.type # "special"
    /\ fts_pointer' = Append(fts_pointer, Freed)
    /\ UNCHANGED <<no_duplicates, nodes_table, nodes_id, nduplicates, failures,
                   scan>>

\* A directory whose node is given the memory of its freed parent's finds
\* itself as the parent: it lists itself and has its own number for "..".
OwnParent(p, item) ==
    /\ Read(p, item, TRUE)
    /\ ParentPointer(p) = Freed
    /\ item.type = "directory"
    /\ nodes_table' = Append(nodes_table,
           [number |-> nodes_id, type |-> item.type, content |-> item.content,
            parent |-> nodes_id,
            entries |-> <<[number |-> nodes_id, type |-> item.type,
                           name |-> Len(entries) + 1]>>])
    /\ nodes_id' = nodes_id + 1
    /\ \E reused \in SUBSET Dangling(p) :
          p \in reused /\ fts_pointer' = Pointers(reused)
    /\ UNCHANGED <<no_duplicates, nduplicates, failures, scan>>

\* Otherwise what parent->type reads in the freed node is undefined: it may
\* pass for something else than a directory, as it does when a file or a link
\* was given that memory (the bail label, again), or the process takes it for
\* a directory and is lost: nothing is said of what it does from there on.
FreedParent(p, item) ==
    /\ Read(p, item, FALSE)
    /\ ParentPointer(p) = Freed
    /\ item.type # "special"
    /\ fts_pointer' = Append(fts_pointer, Freed)
    /\ scan' \in {"reading", "crashed"}
    /\ UNCHANGED <<no_duplicates, nodes_table, nodes_id, nduplicates, failures>>

\* fts_read returns NULL.
ScanEnds ==
    /\ scan = "reading"
    /\ scan' = "done"
    /\ UNCHANGED <<no_duplicates, entries, fts_pointer, nodes_table, nodes_id,
                   nduplicates, failures>>

Next ==
    \/ \E p \in 0..Len(entries), item \in Items :
          \/ AddNode(p, item)
          \/ AddDuplicate(p, item)
          \/ NoNode(p, item)
          \/ Bail(p, item)
          \/ BailSpecial(p, item)
          \/ ParentIsNoDirectory(p, item)
          \/ OwnParent(p, item)
          \/ FreedParent(p, item)
    \/ ScanEnds

Spec == Init /\ [][Next]_vars

-----------------------------------------------------------------------------
(***************************************************************************)
(* Properties                                                              *)
(***************************************************************************)

\* The inode table is written in the order of the numbers and the readers
\* look node n up in its n-th place: the numbers are 0, 1, 2, ... without a
\* gap, whatever was a duplicate or failed on the way.
DenseNumbers ==
    /\ \A i \in DOMAIN nodes_table : nodes_table[i].number = i - 1
    /\ nodes_id = Len(nodes_table)

\* A node made in the memory of a freed directory that fts was still in.
Shared(n) == \E e, f \in DOMAIN entries :
                e # f /\ fts_pointer[e] = n /\ fts_pointer[f] = n

\* A scanned directory that became a node, in memory of its own.
ScannedDirectory(p) == /\ p \in DOMAIN entries
                       /\ entries[p].item.type = "directory"
                       /\ fts_pointer[p] >= 0
                       /\ ~Shared(fts_pointer[p])

\* Entry k of a directory node stands for source entry e.
StandsFor(k, e) ==
    /\ k.name = e
    /\ \E i \in DOMAIN nodes_table :
          /\ nodes_table[i].number = k.number
          /\ nodes_table[i].type = k.type
          /\ k.type = entries[e].item.type
          /\ nodes_table[i].content = entries[e].item.content

\* Every directory lists what was read in it and not refused: one entry each,
\* in fts_compare's order (lookup in the driver stops early by it), each with
\* the number and type of a node that has the content of that very source
\* file, its own or an earlier duplicate's.  Only a directory made in the
\* memory of a freed one, whose entries it is given too, is excepted.
DirectoryFaithful ==
    scan # "crashed" =>
        \A p \in DOMAIN entries :
            ScannedDirectory(p) =>
                LET listed == nodes_table[At(fts_pointer[p])].entries
                    added == {e \in DOMAIN entries : entries[e].parent = p
                                                     /\ entries[e].added}
                IN  /\ {listed[k].name : k \in DOMAIN listed} = added
                    /\ \A k \in DOMAIN listed : StandsFor(listed[k],
                                                          listed[k].name)
                    /\ \A k, l \in DOMAIN listed :
                          k < l => listed[k].name < listed[l].name

\* Unless duplicates are asked for, no two files and no two symbolic links
\* with the same content are stored twice.
NoSharedContent ==
    ~no_duplicates =>
        \A i, k \in DOMAIN nodes_table :
            /\ i # k
            /\ nodes_table[i].type = nodes_table[k].type
            /\ nodes_table[i].type # "directory"
            => nodes_table[i].content # nodes_table[k].content

\* A directory's parent number, which the driver reports for "..", is the
\* number of the directory that lists it; a source's is 0.
ParentLinks ==
    \A e \in DOMAIN entries :
        ScannedDirectory(e) =>
            nodes_table[At(fts_pointer[e])].parent =
                IF ParentPointer(entries[e].parent) = NULL THEN 0
                ELSE fts_pointer[entries[e].parent]

\* Another directory than n itself lists node n.
HasEntry(n) == \E i \in DOMAIN nodes_table :
                  /\ nodes_table[i].number # n
                  /\ \E k \in DOMAIN nodes_table[i].entries :
                        nodes_table[i].entries[k].number = n

\* With one source, a directory, node 0 is its root, as super.root says, and
\* every other node is listed in some other directory; only a directory whose
\* own node could not be allocated makes orphans of what is in it, and only
\* one made in the memory of a freed directory is its own parent.
RootReachesAll ==
    LET sources == {e \in DOMAIN entries : entries[e].parent = Root}
        lost == {e \in DOMAIN entries : entries[e].item.type = "directory"
                                        /\ fts_pointer[e] = NULL}
    IN  sources = {1} /\ ScannedDirectory(1) /\ lost = {} =>
            /\ fts_pointer[1] = 0
            /\ \A i \in DOMAIN nodes_table :
                  nodes_table[i].number # 0 =>
                      \/ HasEntry(nodes_table[i].number)
                      \/ Shared(nodes_table[i].number)

=============================================================================
