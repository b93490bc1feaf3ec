------------------------------- MODULE DirRead -------------------------------
(***************************************************************************)
(* How the driver lists a directory and looks a name up in it              *)
(* (src/src/linux/super.c, smashfs_readdir and smashfs_lookup).            *)
(*                                                                         *)
(* A directory's content is a header and its entries one after the other,  *)
(* each a fixed number of bytes and the name.  The file position is 0 for  *)
(* ".", 1 for ".." and from then on an offset into the content, plus 3.    *)
(* Every call starts again from the beginning of the content and reports   *)
(* the entries whose offset the position has reached, until filldir, which *)
(* has room for a number of items, refuses one.  A call holds the          *)
(* directory's mutex, so that calls do not overlap.                        *)
(***************************************************************************)
EXTENDS Integers, Sequences

CONSTANTS Names,         \* byte strings without 0, as sequences of 1..255
          MaxEntries,    \* bound: the entries of the directory
          Widths,        \* bytes the bit fields of header and entry can take
          MaxRoom,       \* bound: items filldir has room for
          MaxSeeks,      \* bound: calls of seekdir
          MaxFailures    \* bound: allocations and reads of blocks that fail

ASSUME DirAssumption ==
    /\ Names \subseteq Seq(1..255) \ {<<>>}
    /\ Widths \subseteq Nat \ {0}      \* blog is never 0
    /\ MaxEntries \in Nat /\ MaxSeeks \in Nat /\ MaxFailures \in Nat
    /\ MaxRoom \in Nat \ {0}

VARIABLES
    entries,       \* the directory's: their names and nodes' numbers
    header, width, \* the bytes before the entries, and before each name
    signed,        \* whether char has a sign on this processor
    pos,           \* file->f_pos
    batch,         \* the items the last call, if of readdir, gave filldir
    looked,        \* the last call, if of lookup: the name and the answer
    seeks, failures

directory == <<entries, header, width, signed>>
vars == <<directory, pos, batch, looked, seeks, failures>>

ENOENT == -2
EIO == -5          \* or ENOMEM
NoLookup == <<<<>>, 0>>

Dots == <<[name |-> <<46>>, number |-> 0], [name |-> <<46, 46>>, number |-> 0]>>

-----------------------------------------------------------------------------
\* The order mkfs stores names in: strcmp's, which compares unsigned bytes.  At
\* the first byte that differs a has ended or has the smaller one.
fts_compare(a, b) ==
    \E k \in 1..Len(b) :
        /\ k =< Len(a) + 1
        /\ \A i \in 1..k - 1 : a[i] = b[i]
        /\ k =< Len(a) => a[k] < b[k]

Sorted(names) == \A d, e \in DOMAIN names : d < e => fts_compare(names[d], names[e])

\* Offsets in the content, and its size.
EntrySize(e) == width + Len(entries[e].name)
Offset[e \in 1..Len(entries) + 1] ==
    IF e = 1 THEN header ELSE Offset[e - 1] + EntrySize(e - 1)
Size == Offset[Len(entries) + 1]

Init ==
    /\ \E n \in 0..MaxEntries : \E names \in [1..n -> Names] :
          /\ Sorted(names)
          /\ entries = [e \in 1..n |-> [name |-> names[e], number |-> e]]
    /\ header \in Widths
    /\ width \in Widths
    /\ signed \in BOOLEAN
    /\ pos = 0
    /\ batch = <<>>
    /\ looked = NoLookup
    /\ seeks = 0
    /\ failures = 0

-----------------------------------------------------------------------------
(***************************************************************************)
(* smashfs_readdir.  A call is [pos, room, batch, stop]: where it is, what *)
(* filldir has room for, what it took, and whether it refused an item.     *)
(***************************************************************************)
\* filldir or dir_emit; the position moves on when it took the item.
Filldir(c, item, length) ==
    IF c.stop THEN c
    ELSE IF c.room = 0 THEN [c EXCEPT !.stop = TRUE]
    ELSE [c EXCEPT !.pos = @ + length, !.room = @ - 1,
                   !.batch = Append(@, item)]

\* while (f_pos < 3): "." at 0, ".." after it
EmitDots(c) ==
    LET dot == IF c.pos = 0 THEN Filldir(c, Dots[1], 1) ELSE c
    IN  IF dot.pos \in 1..2 THEN Filldir(dot, Dots[2], 2) ELSE dot

\* mutant: the header is passed over by every call
SkipHeaderAlways(c) ==
    IF ~c.stop THEN [c EXCEPT !.pos = @ + header] ELSE c

SkipHeader(c) ==
    IF ~c.stop /\ c.pos < 3 + header THEN [c EXCEPT !.pos = @ + header] ELSE c

\* mutant: the position moves on by the name only
EmitEntryShort(c, e) ==
    IF c.pos = Offset[e] + 3
    THEN Filldir(c, entries[e], EntrySize(e) - width) ELSE c

EmitEntry(c, e) ==
    IF c.pos = Offset[e] + 3
    THEN Filldir(c, entries[e], EntrySize(e)) ELSE c

Emitted(room) ==
    LET After[e \in 0..Len(entries)] ==
            IF e = 0
            THEN SkipHeader(EmitDots([pos |-> pos, room |-> room,
                                      batch |-> <<>>, stop |-> FALSE]))
            ELSE EmitEntry(After[e - 1], e)
    IN  After[Len(entries)]

AtEnd == pos >= 3 + Size

Readdir(room) ==
    /\ LET c == Emitted(room) IN
       IF AtEnd THEN batch' = <<>> /\ UNCHANGED pos
       ELSE batch' = c.batch /\ pos' = c.pos
    /\ looked' = NoLookup
    /\ UNCHANGED <<directory, seeks, failures>>

\* kmalloc or node_read fails: nothing was handed out yet.
ReaddirFails ==
    /\ failures < MaxFailures
    /\ ~AtEnd
    /\ batch' = <<>>
    /\ failures' = failures + 1
    /\ looked' = NoLookup
    /\ UNCHANGED <<directory, pos, seeks>>

\* The items, and the position filldir is told for each and for the end.
Listing == Dots \o entries
PositionOf(i) == IF i =< 2 THEN i - 1 ELSE 3 + Offset[i - 2]
Positions == {PositionOf(i) : i \in 1..Len(Listing) + 1}

\* default_llseek to a position the reader was told.
Seek(p) ==
    /\ seeks < MaxSeeks
    /\ seeks' = seeks + 1
    /\ pos' = p
    /\ batch' = <<>>
    /\ looked' = NoLookup
    /\ UNCHANGED <<directory, failures>>

-----------------------------------------------------------------------------
(***************************************************************************)
(* smashfs_lookup                                                          *)
(***************************************************************************)
Char(byte) == IF signed /\ byte >= 128 THEN byte - 256 ELSE byte

\* mutant: the loop stops at an entry that starts like the name
BreaksAtOrBelow(name, e) == name[1] =< Char(entries[e].name[1])

\* d_name.name[0] is an unsigned char, buffer[0] a char.
BreaksAt(name, e) == name[1] < Char(entries[e].name[1])

\* The first entry at which the loop ends, by break or by a name found.
LookupResult(name) ==
    LET stops == {e \in DOMAIN entries :
                     BreaksAt(name, e) \/ entries[e].name = name}
    IN  IF stops = {} THEN ENOENT
        ELSE LET e == CHOOSE x \in stops : \A y \in stops : x =< y
             IN  IF BreaksAt(name, e) THEN ENOENT ELSE entries[e].number

Lookup(name) ==
    /\ looked' = <<name, LookupResult(name)>>
    /\ batch' = <<>>
    /\ UNCHANGED <<directory, pos, seeks, failures>>

\* kmalloc, node_read or, when the name was found, iget_locked fails.
LookupFails(name) ==
    /\ failures < MaxFailures
    /\ failures' = failures + 1
    /\ looked' = <<name, EIO>>
    /\ batch' = <<>>
    /\ UNCHANGED <<directory, pos, seeks>>

-----------------------------------------------------------------------------
Next ==
    \/ \E room \in 0..MaxRoom : Readdir(room)
    \/ ReaddirFails
    \/ \E p \in Positions : Seek(p)
    \/ \E name \in Names : Lookup(name)
    \/ \E name \in Names : LookupFails(name)

Spec == Init /\ [][Next]_vars

\* A reader goes on until a call returns nothing, with a buffer that holds an
\* item: getdents fails with one that does not.
FairSpec == Spec /\ WF_vars(\E room \in 1..MaxRoom : Readdir(room))

-----------------------------------------------------------------------------
(***************************************************************************)
(* Properties                                                              *)
(***************************************************************************)
\* The index of the item at the position; 0, which no cursor has, when the
\* position is in the middle of one.
ItemAt(p) == IF p \in Positions
             THEN CHOOSE i \in 1..Len(Listing) + 1 : PositionOf(i) = p
             ELSE 0

\* smashfs_readdir is a cursor over the directory: every call returns the
\* items that follow the position, whatever room filldir had in the calls
\* before, after errors and after going back to any place told; and the
\* position is always an item's or the end's.
Cursor == INSTANCE DirCursor WITH listing <- Listing, next <- ItemAt(pos)
ImplementsCursor == Cursor!Spec

\* lookup finds exactly the names that are listed, with their nodes: its early
\* end (super.c:879), which compares a byte with a char that may have a sign,
\* never passes by an entry that is still to come.
LookupAgrees ==
    looked # NoLookup /\ looked[2] # EIO =>
        \/ \E e \in DOMAIN entries :
              looked = <<entries[e].name, entries[e].number>>
        \/ /\ looked[2] = ENOENT
           /\ \A e \in DOMAIN entries : entries[e].name # looked[1]

\* A reader that goes on calling comes to the end.
ReachesEnd == <>(pos = 3 + Size)
=============================================================================
