-------------------------- MODULE SourceScanProofs --------------------------
(***************************************************************************)
(* Theorems about module SourceScan, for every number of entries and       *)
(* failures and all contents.  They follow from one inductive invariant,   *)
(* IInv.                                                                   *)
(***************************************************************************)
EXTENDS SourceScan, SequenceTheorems, WellFoundedInduction, TLAPS

\* A set of natural numbers that is not empty has a least one.
LEMMA LeastNat ==
    ASSUME NEW T, T \subseteq Nat, T # {}
    PROVE  \E least \in T : \A n \in T : least =< n
<1>. DEFINE Less == OpToRel(<, Nat)
<1>1. PICK least \in T : \A n \in T : ~ (<<n, least>> \in Less)
  BY NatLessThanWellFounded, WFMin
<1>2. ASSUME NEW n \in T
      PROVE  <<n, least>> \in Less <=> n < least
  BY DEF OpToRel
<1>. HIDE DEF Less
<1>3. ASSUME NEW n \in T
      PROVE  least =< n
  <2>1. ~(n < least)
    BY <1>1, <1>2
  <2>2. least \in Nat /\ n \in Nat
    OBVIOUS
  <2>. QED  BY <2>1, <2>2
<1>. QED  BY <1>3

Types == {"regular_file", "symbolic_link", "directory"}
Held == Contents \cup {NoContent}
Entry == [number : Nat, type : Types, name : Nat]
Node == [number : Nat, type : Types, content : Held, parent : Nat,
         entries : Seq(Entry)]
Source == [parent : Nat, item : Items, added : BOOLEAN]
Pointer == Nat \cup {NULL, Freed}

TypeInv ==
    /\ no_duplicates \in BOOLEAN
    /\ entries \in Seq(Source)
    /\ fts_pointer \in Seq(Pointer) /\ Len(fts_pointer) = Len(entries)
    /\ nodes_table \in Seq(Node)

\* fts_read enters a directory before it returns what is in it.
OrderInv ==
    \A e \in DOMAIN entries :
        LET p == entries[e].parent IN
        p < e /\ (p # Root => entries[p].item.type = "directory")

\* What fts_pointer holds, but for NULL and freed nodes, is the number of a
\* node of the table.
PointerInv ==
    \A e \in DOMAIN entries :
        fts_pointer[e] >= 0 => fts_pointer[e] < Len(nodes_table)

\* A directory's node lists what was added under it, in order.
Listing(p) == nodes_table[fts_pointer[p] + 1].entries
AddedUnder(p) == {e \in DOMAIN entries : entries[e].parent = p /\ entries[e].added}

Lists(list, p) ==
    /\ {list[k].name : k \in DOMAIN list} = AddedUnder(p)
    /\ \A k \in DOMAIN list : StandsFor(list[k], list[k].name)
    /\ \A k, l \in DOMAIN list : k < l => list[k].name < list[l].name

ListInv ==
    \A p \in DOMAIN entries : ScannedDirectory(p) => Lists(Listing(p), p)

LinkInv ==
    \A e \in DOMAIN entries : ScannedDirectory(e) =>
        nodes_table[fts_pointer[e] + 1].parent =
            IF ParentPointer(entries[e].parent) = NULL THEN 0
            ELSE fts_pointer[entries[e].parent]

\* Every node was made of an entry, and is listed unless there was no node to
\* list it in or it has a freed directory's memory.  The first entry makes the
\* first node, or none, unless its memory is another's later.
ReachInv ==
    /\ \A n \in 0..(Len(nodes_table) - 1) :
          \E e \in DOMAIN entries :
              /\ fts_pointer[e] = n
              /\ \/ HasEntry(n) \/ Shared(n)
                 \/ ParentPointer(entries[e].parent) = NULL
    /\ entries = <<>> => nodes_table = <<>>
    /\ entries # <<>> => fts_pointer[1] =< 0 \/ Shared(fts_pointer[1])

IInv ==
    /\ TypeInv
    /\ DenseNumbers
    /\ OrderInv
    /\ PointerInv
    /\ ListInv
    /\ NoSharedContent
    /\ LinkInv
    /\ ReachInv

-----------------------------------------------------------------------------
(***************************************************************************)
(* What the operators of the scan return.                                  *)
(***************************************************************************)
LEMMA ItemFacts ==
    ASSUME NEW item \in Items
    PROVE  /\ item.type \in Types \cup {"special"} /\ item.content \in Held
           /\ item.type # "special" => item.type \in Types
  BY DEF Items, Types, Held

\* A node's place is the one after its number.
LEMMA NodeAt ==
    ASSUME TypeInv, DenseNumbers, NEW n \in 0..(Len(nodes_table) - 1)
    PROVE  At(n) = n + 1 /\ n + 1 \in DOMAIN nodes_table
<1>1. n + 1 \in DOMAIN nodes_table /\ nodes_table[n + 1].number = n
  BY DEF TypeInv, DenseNumbers
<1>2. \A i \in DOMAIN nodes_table : nodes_table[i].number = n => i = n + 1
  BY DEF TypeInv, DenseNumbers
<1>. QED  BY <1>1, <1>2 DEF At

\* A duplicate is given the node of an earlier entry of its type and content.
LEMMA TwinFound ==
    ASSUME TypeInv, NEW item \in Items, IsDuplicate(item)
    PROVE  \E i \in DOMAIN nodes_table :
               /\ FirstTwin(item) = nodes_table[i]
               /\ nodes_table[i].type = item.type
               /\ nodes_table[i].content = item.content
<1>1. Twins(item) # {} /\ Twins(item) \subseteq Nat
  BY DEF IsDuplicate, Twins, TypeInv
<1>2. \E i \in Twins(item) : \A k \in Twins(item) : i =< k
  BY <1>1, LeastNat
<1>. DEFINE i == CHOOSE i \in Twins(item) : \A k \in Twins(item) : i =< k
<1>3. i \in Twins(item)
  BY <1>2
<1>4. FirstTwin(item) = nodes_table[i]
  BY DEF FirstTwin
<1>. HIDE DEF i
<1>. QED  BY <1>3, <1>4 DEF Twins

\* One pointer more, to the node that is added or to none; the pointers to
\* freed nodes may be that node's by now.
Points(pointer) ==
    LET n == Len(fts_pointer) + 1 IN
    /\ fts_pointer' \in Seq(Pointer) /\ Len(fts_pointer') = n
    /\ fts_pointer'[n] = pointer
    /\ \A e \in 1..Len(fts_pointer) :
          \/ fts_pointer'[e] = fts_pointer[e]
          \/ fts_pointer[e] = Freed /\ fts_pointer'[e] = pointer
    /\ pointer \in {NULL, Freed, Len(nodes_table)}

LEMMA AppendPoints ==
    ASSUME TypeInv, NEW pointer \in {NULL, Freed},
           fts_pointer' = Append(fts_pointer, pointer)
    PROVE  Points(pointer)
<1>1. fts_pointer \in Seq(Pointer) /\ pointer \in Pointer
  BY DEF TypeInv, Pointer
<1>. QED  BY <1>1, AppendProperties DEF Points

LEMMA ReusePoints ==
    ASSUME TypeInv, DenseNumbers, NEW p, NEW reused \in SUBSET Dangling(p),
           fts_pointer' = Pointers(reused)
    PROVE  Points(Len(nodes_table))
<1>1. PICK n : n = Len(nodes_table)
  OBVIOUS
<1>2. /\ fts_pointer \in Seq(Pointer) /\ Len(fts_pointer) \in Nat
      /\ n \in Nat /\ n \in Pointer /\ nodes_id = n
      /\ DOMAIN fts_pointer = 1..Len(fts_pointer)
  BY <1>1 DEF TypeInv, DenseNumbers, Pointer
<1>3. PICK taken : taken = [f \in 1..Len(fts_pointer) |->
                              IF f \in reused THEN n ELSE fts_pointer[f]]
  OBVIOUS
<1>4. /\ taken \in [1..Len(fts_pointer) -> Pointer]
      /\ \A f \in 1..Len(fts_pointer) :
            taken[f] = IF f \in reused THEN n ELSE fts_pointer[f]
  <2>1. \A f \in 1..Len(fts_pointer) : fts_pointer[f] \in Pointer
    BY <1>2
  <2>. QED  BY <1>2, <1>3, <2>1
<1>5. taken \in Seq(Pointer) /\ Len(taken) = Len(fts_pointer)
  BY <1>2, <1>4, IsASeq
<1>6. fts_pointer' = Append(taken, n)
  BY <1>2, <1>3 DEF Pointers
<1>7. \A f \in reused : fts_pointer[f] = Freed
  BY DEF Dangling
<1>8. /\ fts_pointer' \in Seq(Pointer)
      /\ Len(fts_pointer') = Len(fts_pointer) + 1
      /\ fts_pointer'[Len(fts_pointer) + 1] = n
      /\ \A e \in 1..Len(fts_pointer) : fts_pointer'[e] = taken[e]
  BY <1>2, <1>5, <1>6, AppendProperties
<1>. QED  BY <1>1, <1>4, <1>7, <1>8 DEF Points

\* One entry more, and its pointer.
LEMMA ReadOne ==
    ASSUME IInv, NEW p \in 0..Len(entries), NEW item \in Items,
           NEW added \in BOOLEAN, NEW pointer \in Pointer,
           Read(p, item, added), Points(pointer)
    PROVE  LET n == Len(entries) + 1 IN
           /\ entries' \in Seq(Source) /\ Len(entries') = n
           /\ \A e \in 1..Len(entries) : entries'[e] = entries[e]
           /\ entries'[n].parent = p /\ entries'[n].item = item
           /\ entries'[n].added = added
           /\ fts_pointer' \in Seq(Pointer) /\ Len(fts_pointer') = n
           /\ \A e \in 1..Len(entries) :
                 \/ fts_pointer'[e] = fts_pointer[e]
                 \/ fts_pointer[e] = Freed /\ fts_pointer'[e] = pointer
           /\ fts_pointer'[n] = pointer
           /\ OrderInv'
           /\ \A q \in 0..Len(entries) :
                 ParentPointer(q) # Freed => ParentPointer(q)' = ParentPointer(q)
           /\ \A m \in Nat : Shared(m) => Shared(m)'
           /\ \A e \in 1..Len(entries) :
                 /\ entries[e].parent \in 0..Len(entries)
                 /\ ScannedDirectory(e)' <=> ScannedDirectory(e)
<1>. DEFINE n == Len(entries) + 1
            source == [parent |-> p, item |-> item, added |-> added]
<1>0. /\ entries \in Seq(Source) /\ fts_pointer \in Seq(Pointer)
      /\ Len(fts_pointer) = Len(entries) /\ OrderInv
      /\ Len(entries) \in Nat
  BY DEF IInv, TypeInv
<1>1. source \in Source /\ entries' = Append(entries, source)
  BY <1>0 DEF Read, Source
<1>2. /\ entries' \in Seq(Source) /\ Len(entries') = n
      /\ \A e \in 1..Len(entries) : entries'[e] = entries[e]
      /\ entries'[n] = source
  BY <1>0, <1>1, AppendProperties
<1>3. /\ fts_pointer' \in Seq(Pointer) /\ Len(fts_pointer') = n
      /\ \A e \in 1..Len(entries) :
            \/ fts_pointer'[e] = fts_pointer[e]
            \/ fts_pointer[e] = Freed /\ fts_pointer'[e] = pointer
      /\ fts_pointer'[n] = pointer
      /\ pointer \in {NULL, Freed, Len(nodes_table)}
  BY <1>0 DEF Points
<1>4. DOMAIN entries = 1..Len(entries) /\ DOMAIN entries' = 1..n
  BY <1>0, <1>2
<1>5. p # Root => p \in 1..Len(entries) /\ entries[p].item.type = "directory"
  BY <1>0 DEF Read, CanFollow, Root
<1>6. \A e \in 1..Len(entries) :
         /\ entries[e].parent \in 0..(e - 1)
         /\ entries[e].parent # Root =>
               entries[entries[e].parent].item.type = "directory"
  <2>1. ASSUME NEW e \in 1..Len(entries)
        PROVE  entries[e].parent \in Nat
    <3>1. entries[e] \in Source
      BY <1>0
    <3>. QED  BY <3>1 DEF Source
  <2>. QED  BY <1>0, <1>4, <2>1 DEF OrderInv
<1>7. OrderInv'
  <2>1. ASSUME NEW e \in 1..n
        PROVE  /\ entries'[e].parent < e
               /\ entries'[e].parent # Root =>
                     entries'[entries'[e].parent].item.type = "directory"
    <3>1. CASE e = n
      BY <1>0, <1>2, <1>5, <3>1
    <3>2. CASE e # n
      <4>1. e \in 1..Len(entries) /\ entries'[e] = entries[e]
        BY <1>0, <1>2, <3>2
      <4>2. /\ entries[e].parent \in 0..(e - 1)
            /\ entries[e].parent # Root =>
                  entries[entries[e].parent].item.type = "directory"
        BY <1>6, <4>1
      <4>3. entries[e].parent # Root =>
                entries'[entries[e].parent] = entries[entries[e].parent]
        BY <1>0, <1>2, <4>1, <4>2 DEF Root
      <4>. QED  BY <4>1, <4>2, <4>3
    <3>. QED  BY <3>1, <3>2
  <2>. QED  BY <1>4, <2>1 DEF OrderInv
<1>8. \A q \in 0..Len(entries) :
         ParentPointer(q) # Freed => ParentPointer(q)' = ParentPointer(q)
  BY <1>0, <1>3 DEF ParentPointer, Root
<1>12. ASSUME NEW e \in 1..Len(entries), fts_pointer[e] >= 0
       PROVE  /\ fts_pointer'[e] = fts_pointer[e]
              /\ fts_pointer[e] \in Nat /\ fts_pointer[e] < Len(nodes_table)
  <2>1. fts_pointer[e] \in Pointer
    BY <1>0
  <2>. QED  BY <1>3, <1>4, <1>12, <2>1 DEF IInv, PointerInv, Pointer, NULL, Freed
<1>13. ASSUME NEW m \in Nat, Shared(m)
       PROVE  Shared(m)'
  <2>1. PICK e \in 1..Len(entries), f \in 1..Len(entries) :
            e # f /\ fts_pointer[e] = m /\ fts_pointer[f] = m
    BY <1>4, <1>13 DEF Shared
  <2>2. fts_pointer'[e] = m /\ fts_pointer'[f] = m
    BY <1>12, <2>1
  <2>3. e \in 1..n /\ f \in 1..n
    BY <1>0
  <2>. QED  BY <1>4, <2>1, <2>2, <2>3 DEF Shared
<1>14. ASSUME NEW e \in 1..Len(entries), fts_pointer'[e] >= 0,
              fts_pointer'[e] # fts_pointer[e]
       PROVE  Shared(fts_pointer[e])'
  <2>1. fts_pointer'[e] = pointer /\ e \in 1..n /\ n \in 1..n /\ e # n
    BY <1>0, <1>3, <1>14
  <2>. QED  BY <1>3, <1>4, <2>1 DEF Shared
<1>15. ASSUME NEW m \in Nat, m < Len(nodes_table), Shared(m)'
       PROVE  Shared(m)
  <2>4. PICK f \in 1..n, g \in 1..n :
            f # g /\ fts_pointer'[f] = m /\ fts_pointer'[g] = m
    BY <1>4, <1>15 DEF Shared
  <2>5. ASSUME NEW h \in 1..n, fts_pointer'[h] = m
        PROVE  h \in 1..Len(entries) /\ fts_pointer[h] = m
    <3>1. Len(nodes_table) \in Nat
      BY DEF IInv, TypeInv
    <3>2. pointer # m
      BY <1>3, <1>15, <3>1 DEF NULL, Freed
    <3>3. h # n
      BY <1>3, <2>5, <3>2
    <3>4. h \in 1..Len(entries)
      BY <1>0, <3>3
    <3>. QED  BY <1>3, <2>5, <3>2, <3>4
  <2>. QED  BY <1>4, <2>4, <2>5 DEF Shared
<1>9. ASSUME NEW e \in 1..Len(entries)
      PROVE  ScannedDirectory(e)' <=> ScannedDirectory(e)
  <2>1. /\ entries'[e] = entries[e] /\ e \in DOMAIN entries
        /\ e \in DOMAIN entries'
    BY <1>0, <1>2, <1>4
  <2>2. ASSUME ScannedDirectory(e)'
        PROVE  ScannedDirectory(e)
    <3>1. fts_pointer'[e] >= 0 /\ ~Shared(fts_pointer[e])'
      BY <2>2 DEF ScannedDirectory
    <3>2. fts_pointer'[e] = fts_pointer[e]
      BY <1>14, <3>1
    <3>3. fts_pointer[e] \in Nat
      BY <1>12, <3>1, <3>2
    <3>4. PICK m \in Nat : m = fts_pointer[e]
      BY <3>3
    <3>5. ~Shared(m)
      <4>1. ~Shared(m)'
        BY <3>1, <3>2, <3>4 DEF Shared
      <4>. QED  BY <1>13, <4>1
    <3>. QED  BY <2>1, <2>2, <3>1, <3>2, <3>4, <3>5 DEF ScannedDirectory
  <2>3. ASSUME ScannedDirectory(e)
        PROVE  ScannedDirectory(e)'
    <3>1. fts_pointer[e] >= 0 /\ ~Shared(fts_pointer[e])
      BY <2>3 DEF ScannedDirectory
    <3>2. fts_pointer'[e] = fts_pointer[e]
      BY <1>12, <3>1
    <3>3. PICK m \in Nat : m = fts_pointer[e] /\ m < Len(nodes_table)
      BY <1>12, <3>1
    <3>5. ~Shared(m)'
      BY <1>15, <3>1, <3>3
    <3>4. ~Shared(fts_pointer[e])'
      BY <3>2, <3>3, <3>5 DEF Shared
    <3>. QED  BY <2>1, <2>3, <3>1, <3>2, <3>4 DEF ScannedDirectory
  <2>. QED  BY <2>2, <2>3
<1>. HIDE DEF source
<1>10. entries'[n].parent = p /\ entries'[n].item = item
       /\ entries'[n].added = added
  BY <1>2 DEF source
<1>11. \A e \in 1..Len(entries) : entries[e].parent \in 0..Len(entries)
  BY <1>0, <1>6
<1>. QED  BY <1>2, <1>3, <1>7, <1>8, <1>9, <1>10, <1>11, <1>13

\* A table of the same nodes but for one more entry in one directory.
LEMMA LinkedTable ==
    ASSUME TypeInv, DenseNumbers, NEW d \in 0..(Len(nodes_table) - 1),
           NEW number \in Nat, NEW type \in Types
    PROVE  LET table == Linked(nodes_table, d, number, type)
               entry == [number |-> number, type |-> type,
                         name |-> Len(entries) + 1]
           IN  /\ table \in Seq(Node) /\ Len(table) = Len(nodes_table)
               /\ \A i \in 1..Len(nodes_table) :
                     /\ table[i].number = nodes_table[i].number
                     /\ table[i].type = nodes_table[i].type
                     /\ table[i].content = nodes_table[i].content
                     /\ table[i].parent = nodes_table[i].parent
                     /\ i # d + 1 => table[i] = nodes_table[i]
               /\ table[d + 1].entries = Append(nodes_table[d + 1].entries, entry)
<1>. DEFINE entry == [number |-> number, type |-> type,
                      name |-> Len(entries) + 1]
            old == nodes_table[d + 1]
            new == [old EXCEPT !.entries = Append(@, entry)]
            table == Linked(nodes_table, d, number, type)
<1>1. /\ nodes_table \in Seq(Node) /\ d + 1 \in 1..Len(nodes_table)
      /\ At(d) = d + 1 /\ Len(entries) \in Nat
  BY NodeAt DEF TypeInv
<1>2. old \in Node
  BY <1>1
<1>3. entry \in Entry
  BY <1>1 DEF Entry
<1>4. table = [nodes_table EXCEPT ![d + 1] = new]
  BY <1>1 DEF Linked
<1>. HIDE DEF entry
<1>5. Append(old.entries, entry) \in Seq(Entry)
  BY <1>2, <1>3 DEF Node
<1>6. /\ new \in Node /\ new.entries = Append(old.entries, entry)
      /\ new.number = old.number /\ new.type = old.type
      /\ new.content = old.content /\ new.parent = old.parent
  BY <1>2, <1>5 DEF Node
<1>. HIDE DEF old, new, table
<1>7. /\ table \in Seq(Node) /\ Len(table) = Len(nodes_table)
      /\ \A i \in 1..Len(nodes_table) :
            table[i] = IF i = d + 1 THEN new ELSE nodes_table[i]
  BY <1>1, <1>4, <1>6, ExceptSeq
<1>. QED  BY <1>1, <1>6, <1>7 DEF entry, old, table

-----------------------------------------------------------------------------
(***************************************************************************)
(* What a step leaves as it was.                                           *)
(***************************************************************************)
Grows ==
    /\ DOMAIN entries \subseteq DOMAIN entries'
    /\ \A e \in DOMAIN entries : entries'[e] = entries[e]
    /\ DOMAIN nodes_table \subseteq DOMAIN nodes_table'
    /\ \A i \in DOMAIN nodes_table :
          /\ nodes_table'[i].number = nodes_table[i].number
          /\ nodes_table'[i].type = nodes_table[i].type
          /\ nodes_table'[i].content = nodes_table[i].content
          /\ nodes_table'[i].parent = nodes_table[i].parent
          /\ DOMAIN nodes_table[i].entries \subseteq DOMAIN nodes_table'[i].entries
          /\ \A k \in DOMAIN nodes_table[i].entries :
                nodes_table'[i].entries[k] = nodes_table[i].entries[k]

LEMMA StandsForKept ==
    ASSUME Grows, NEW k, NEW e \in DOMAIN entries, StandsFor(k, e)
    PROVE  StandsFor(k, e)'
  BY DEF Grows, StandsFor

\* A scanned directory has a node, with a list of entries.
LEMMA ListingType ==
    ASSUME IInv, NEW q \in DOMAIN entries, ScannedDirectory(q)
    PROVE  /\ fts_pointer[q] \in 0..(Len(nodes_table) - 1)
           /\ fts_pointer[q] + 1 \in DOMAIN nodes_table
           /\ Listing(q) \in Seq(Entry)
<1>1. /\ fts_pointer[q] \in Pointer /\ fts_pointer[q] >= 0
      /\ fts_pointer[q] < Len(nodes_table)
      /\ nodes_table \in Seq(Node)
  BY DEF IInv, TypeInv, PointerInv, ScannedDirectory
<1>2. fts_pointer[q] \in 0..(Len(nodes_table) - 1)
  BY <1>1 DEF Pointer, NULL, Freed
<1>3. nodes_table[fts_pointer[q] + 1] \in Node
  BY <1>1, <1>2
<1>. QED  BY <1>1, <1>2, <1>3 DEF Listing, Node

LEMMA ListKept ==
    ASSUME Grows, NEW q \in DOMAIN entries, NEW list, Lists(list, q),
           AddedUnder(q)' = AddedUnder(q)
    PROVE  Lists(list, q)'
<1>1. ASSUME NEW k \in DOMAIN list
      PROVE  StandsFor(list[k], list[k].name)'
  <2>1. list[k].name \in DOMAIN entries
    BY DEF Lists, AddedUnder
  <2>2. StandsFor(list[k], list[k].name)
    BY DEF Lists
  <2>. QED  BY <2>1, <2>2, StandsForKept
<1>. QED  BY <1>1 DEF Lists

\* One more entry, of a later name, at the end of a list.
LEMMA ListGrown ==
    ASSUME Grows, NEW q \in DOMAIN entries, NEW list \in Seq(Entry),
           Lists(list, q), NEW entry \in Entry,
           \A e \in DOMAIN entries : e < entry.name,
           AddedUnder(q)' = AddedUnder(q) \cup {entry.name},
           StandsFor(entry, entry.name)'
    PROVE  Lists(Append(list, entry), q)'
<1>. DEFINE longer == Append(list, entry)
            n == Len(list) + 1
<1>1. /\ Len(list) \in Nat /\ DOMAIN list = 1..Len(list)
      /\ DOMAIN longer = 1..n /\ longer[n] = entry
      /\ \A k \in 1..Len(list) : longer[k] = list[k]
  BY AppendProperties, LenProperties
<1>. HIDE DEF longer
<1>2. \A k \in 1..Len(list) : list[k].name \in AddedUnder(q)
  BY <1>1 DEF Lists
<1>3. \A k \in 1..Len(list) : list[k].name \in DOMAIN entries
  BY <1>2 DEF AddedUnder
<1>4. {longer[k].name : k \in DOMAIN longer} = AddedUnder(q)'
  <2>1. AddedUnder(q) = {list[k].name : k \in 1..Len(list)}
    BY <1>1 DEF Lists
  <2>2. ASSUME NEW name \in AddedUnder(q)'
        PROVE  \E k \in 1..n : longer[k].name = name
    <3>1. CASE name = entry.name
      BY <1>1, <3>1
    <3>2. CASE name # entry.name
      <4>1. PICK k \in 1..Len(list) : list[k].name = name
        BY <2>1, <3>2
      <4>. QED  BY <1>1, <4>1
    <3>. QED  BY <3>1, <3>2
  <2>3. ASSUME NEW k \in 1..n
        PROVE  longer[k].name \in AddedUnder(q)'
    <3>1. CASE k = n
      BY <1>1, <3>1
    <3>2. CASE k # n
      <4>1. k \in 1..Len(list)
        BY <1>1, <3>2
      <4>. QED  BY <1>1, <1>2, <4>1
    <3>. QED  BY <3>1, <3>2
  <2>. QED  BY <1>1, <2>2, <2>3
<1>5. ASSUME NEW k \in 1..n
      PROVE  StandsFor(longer[k], longer[k].name)'
  <2>1. CASE k = n
    BY <1>1, <2>1
  <2>2. CASE k # n
    <3>1. k \in 1..Len(list) /\ longer[k] = list[k]
      BY <1>1, <2>2
    <3>2. StandsFor(list[k], list[k].name)
      BY <1>1, <3>1 DEF Lists
    <3>3. StandsFor(list[k], list[k].name)'
      BY <1>3, <3>1, <3>2, StandsForKept
    <3>. QED  BY <3>1, <3>3
  <2>. QED  BY <2>1, <2>2
<1>6. ASSUME NEW k \in 1..n, NEW l \in 1..n, k < l
      PROVE  longer[k].name < longer[l].name
  <2>1. k \in 1..Len(list) /\ longer[k] = list[k]
    BY <1>1, <1>6
  <2>2. CASE l = n
    BY <1>1, <1>3, <2>1, <2>2
  <2>3. CASE l # n
    BY <1>1, <1>6, <2>1, <2>3 DEF Lists
  <2>. QED  BY <2>2, <2>3
<1>. QED  BY <1>1, <1>4, <1>5, <1>6 DEF Lists, longer

-----------------------------------------------------------------------------
(***************************************************************************)
(* An entry that is read, with what becomes of the nodes: nothing, or the  *)
(* directory it is in lists it.                                            *)
(***************************************************************************)

\* The directory an entry is added to has a node.
LEMMA ParentNode ==
    ASSUME IInv, NEW p \in 0..Len(entries), ParentPointer(p) # Freed,
           ParentPointer(p) # NULL
    PROVE  /\ p \in DOMAIN entries
           /\ ParentPointer(p) = fts_pointer[p]
           /\ ParentPointer(p) \in 0..(Len(nodes_table) - 1)
<1>1. /\ entries \in Seq(Source) /\ fts_pointer \in Seq(Pointer)
      /\ Len(fts_pointer) = Len(entries)
  BY DEF IInv, TypeInv
<1>2. p \in DOMAIN entries /\ ParentPointer(p) = fts_pointer[p]
  BY <1>1 DEF ParentPointer, Root
<1>3. fts_pointer[p] \in Nat
  BY <1>1, <1>2 DEF Pointer
<1>4. fts_pointer[p] < Len(nodes_table) /\ Len(nodes_table) \in Nat
  BY <1>2, <1>3 DEF IInv, TypeInv, PointerInv
<1>. QED  BY <1>2, <1>3, <1>4

\* What is added under a directory when p's next entry is read.
LEMMA AddedMore ==
    ASSUME IInv, NEW p \in 0..Len(entries), NEW item \in Items,
           NEW added \in BOOLEAN, NEW pointer \in Pointer,
           Read(p, item, added), Points(pointer),
           NEW n, n = Len(entries) + 1
    PROVE  /\ DOMAIN entries = 1..Len(entries) /\ DOMAIN entries' = 1..n
           /\ \A q \in DOMAIN entries :
                 /\ added /\ q = p => AddedUnder(q)' = AddedUnder(q) \cup {n}
                 /\ ~(added /\ q = p) => AddedUnder(q)' = AddedUnder(q)
           /\ AddedUnder(n)' = {}
<1>1. /\ entries \in Seq(Source) /\ Len(entries) \in Nat
      /\ entries' \in Seq(Source) /\ Len(entries') = n
      /\ \A e \in 1..Len(entries) : entries'[e] = entries[e]
      /\ entries'[n].parent = p /\ entries'[n].added = added
      /\ OrderInv'
  <2>1. entries \in Seq(Source) /\ Len(entries) \in Nat
    BY DEF IInv, TypeInv
  <2>. QED  BY <2>1, ReadOne
<1>2. DOMAIN entries = 1..Len(entries) /\ DOMAIN entries' = 1..n
  BY <1>1
<1>3. ASSUME NEW q \in DOMAIN entries
      PROVE  /\ added /\ q = p => AddedUnder(q)' = AddedUnder(q) \cup {n}
             /\ ~(added /\ q = p) => AddedUnder(q)' = AddedUnder(q)
  BY <1>1, <1>2 DEF AddedUnder
<1>4. ASSUME NEW e \in 1..n
      PROVE  entries'[e].parent # n
  <2>1. entries'[e] \in Source
    BY <1>1, <1>2
  <2>2. entries'[e].parent \in Nat
    BY <2>1 DEF Source
  <2>3. entries'[e].parent < e
    BY <1>1, <1>2 DEF OrderInv
  <2>. QED  BY <1>1, <2>2, <2>3
<1>5. AddedUnder(n)' = {}
  BY <1>2, <1>4 DEF AddedUnder
<1>. QED  BY <1>2, <1>3, <1>5

\* The lists stay true of their directories.
LEMMA ListsKept ==
    ASSUME IInv, Grows, NEW p \in 0..Len(entries), NEW item \in Items,
           NEW added \in BOOLEAN, NEW pointer \in Pointer,
           Read(p, item, added), Points(pointer),
           NEW entry \in Entry, entry.name = Len(entries) + 1,
           added /\ ParentPointer(p) \notin {NULL, Freed} =>
               /\ StandsFor(entry, entry.name)'
               /\ nodes_table'[ParentPointer(p) + 1].entries =
                      Append(nodes_table[ParentPointer(p) + 1].entries, entry),
           \A i \in DOMAIN nodes_table :
               ~added \/ i # ParentPointer(p) + 1
               => nodes_table'[i].entries = nodes_table[i].entries,
           NEW q \in DOMAIN entries, ScannedDirectory(q)
    PROVE  Lists(Listing(q), q)'
<1>1. /\ Lists(Listing(q), q) /\ Listing(q) \in Seq(Entry)
      /\ fts_pointer[q] \in 0..(Len(nodes_table) - 1)
      /\ fts_pointer[q] + 1 \in DOMAIN nodes_table
  BY ListingType DEF IInv, ListInv
<1>2. /\ q \in 1..Len(entries) /\ DOMAIN entries = 1..Len(entries)
      /\ fts_pointer'[q] = fts_pointer[q]
      /\ Len(entries) \in Nat
  <2>1. /\ q \in 1..Len(entries) /\ DOMAIN entries = 1..Len(entries)
        /\ Len(entries) \in Nat
    BY DEF IInv, TypeInv
  <2>2. \A e \in 1..Len(entries) :
           \/ fts_pointer'[e] = fts_pointer[e]
           \/ fts_pointer[e] = Freed /\ fts_pointer'[e] = pointer
    BY ReadOne
  <2>3. fts_pointer[q] # Freed
    BY <1>1 DEF Freed
  <2>. QED  BY <2>1, <2>2, <2>3
<1>3. Listing(q)' = nodes_table'[fts_pointer[q] + 1].entries
  BY <1>2 DEF Listing
<1>4. PICK list : list = Listing(q)
  OBVIOUS
<1>6. CASE added /\ q = p
  <2>1. /\ ParentPointer(p) = fts_pointer[q]
        /\ ParentPointer(p) \notin {NULL, Freed}
    BY <1>1, <1>2, <1>6 DEF ParentPointer, Root, NULL, Freed
  <2>2. Listing(q)' = Append(list, entry) /\ StandsFor(entry, entry.name)'
    BY <1>3, <1>4, <1>6, <2>1 DEF Listing
  <2>3. AddedUnder(q)' = AddedUnder(q) \cup {entry.name}
    BY <1>6, AddedMore
  <2>4. \A e \in DOMAIN entries : e < entry.name
    BY <1>2
  <2>5. Lists(list, q) /\ list \in Seq(Entry)
    BY <1>1, <1>4
  <2>6. Lists(Append(list, entry), q)'
    BY <2>2, <2>3, <2>4, <2>5, ListGrown
  <2>. QED  BY <2>2, <2>6 DEF Lists
<1>7. CASE ~(added /\ q = p)
  <2>1. ~added \/ fts_pointer[q] + 1 # ParentPointer(p) + 1
    <3>1. CASE added /\ ParentPointer(p) \notin {NULL, Freed}
      <4>1. /\ p \in DOMAIN entries /\ ParentPointer(p) = fts_pointer[p]
            /\ ParentPointer(p) \in 0..(Len(nodes_table) - 1)
        BY <3>1, ParentNode
      <4>2. fts_pointer[q] # fts_pointer[p]
        BY <1>7, <3>1, <4>1 DEF ScannedDirectory, Shared
      <4>3. fts_pointer[q] \in Int /\ fts_pointer[p] \in Int
        BY <1>1, <4>1
      <4>. QED  BY <4>1, <4>2, <4>3
    <3>2. CASE ParentPointer(p) \in {NULL, Freed}
      BY <1>1, <3>2 DEF NULL, Freed
    <3>. QED  BY <3>1, <3>2
  <2>2. Listing(q)' = list
    BY <1>1, <1>3, <1>4, <2>1 DEF Listing
  <2>3. AddedUnder(q)' = AddedUnder(q)
    BY <1>7, AddedMore
  <2>4. Lists(list, q)
    BY <1>1, <1>4
  <2>5. Lists(list, q)'
    BY <2>3, <2>4, ListKept
  <2>. QED  BY <2>2, <2>5 DEF Lists
<1>. QED  BY <1>6, <1>7

\* A node that was listed stays listed, and its entry's parent is as it was.
LEMMA ReachKept ==
    ASSUME IInv, Grows, NEW p \in 0..Len(entries), NEW item \in Items,
           NEW added \in BOOLEAN, NEW pointer \in Pointer,
           Read(p, item, added), Points(pointer),
           NEW n \in 0..(Len(nodes_table) - 1)
    PROVE  \E e \in DOMAIN entries' :
               /\ fts_pointer'[e] = n
               /\ \/ HasEntry(n)' \/ Shared(n)'
                  \/ ParentPointer(entries[e].parent)' = NULL
<1>1. PICK e \in DOMAIN entries :
          /\ fts_pointer[e] = n
          /\ \/ HasEntry(n) \/ Shared(n)
             \/ ParentPointer(entries[e].parent) = NULL
  BY DEF IInv, ReachInv
<1>2. HasEntry(n) => HasEntry(n)'
  BY DEF HasEntry, Grows
<1>3. e \in 1..Len(entries)
  BY DEF IInv, TypeInv
<1>4. /\ entries'[e] = entries[e] /\ fts_pointer'[e] = fts_pointer[e]
      /\ entries[e].parent \in 0..Len(entries)
      /\ \A q \in 0..Len(entries) :
            ParentPointer(q) # Freed => ParentPointer(q)' = ParentPointer(q)
      /\ Shared(n) => Shared(n)'
  BY <1>1, <1>3, ReadOne DEF Freed
<1>5. ParentPointer(entries[e].parent) = NULL =>
          ParentPointer(entries[e].parent)' = NULL
  <2>1. PICK q \in 0..Len(entries) : q = entries[e].parent
    BY <1>4
  <2>2. ParentPointer(q) = NULL => ParentPointer(q)' = NULL
    BY <1>4 DEF NULL, Freed
  <2>. QED  BY <1>4, <2>1, <2>2 DEF ParentPointer
<1>. QED  BY <1>1, <1>2, <1>4, <1>5 DEF Grows

\* The entry of item in its parent directory, when node number stands for it.
EntryOf(number, item) ==
    [number |-> number, type |-> item.type, name |-> Len(entries) + 1]

\* The table with that entry, or as it was for a source.
LinkedIn(p, number, item) ==
    IF ParentPointer(p) = NULL THEN nodes_table
    ELSE Linked(nodes_table, ParentPointer(p), number, item.type)

LEMMA LinkedInFacts ==
    ASSUME IInv, NEW p \in 0..Len(entries), NEW item \in Items,
           item.type # "special", NEW number \in Nat,
           ParentPointer(p) # Freed
    PROVE  LET table == LinkedIn(p, number, item)
               at == ParentPointer(p) + 1
           IN  /\ table \in Seq(Node) /\ Len(table) = Len(nodes_table)
               /\ \A i \in 1..Len(nodes_table) :
                     /\ table[i].number = nodes_table[i].number
                     /\ table[i].type = nodes_table[i].type
                     /\ table[i].content = nodes_table[i].content
                     /\ table[i].parent = nodes_table[i].parent
                     /\ i # at => table[i].entries = nodes_table[i].entries
               /\ ParentPointer(p) # NULL =>
                     /\ at \in 1..Len(nodes_table)
                     /\ table[at].entries =
                            Append(nodes_table[at].entries, EntryOf(number, item))
<1>1. TypeInv /\ DenseNumbers /\ item.type \in Types
  BY ItemFacts DEF IInv
<1>2. CASE ParentPointer(p) = NULL
  BY <1>1, <1>2 DEF LinkedIn, TypeInv
<1>3. CASE ParentPointer(p) # NULL
  <2>1. ParentPointer(p) \in 0..(Len(nodes_table) - 1)
    BY <1>3, ParentNode
  <2>2. LinkedIn(p, number, item) =
            Linked(nodes_table, ParentPointer(p), number, item.type)
    BY <1>3 DEF LinkedIn
  <2>3. ParentPointer(p) + 1 \in 1..Len(nodes_table)
    BY <1>1, <2>1 DEF TypeInv
  <2>4. PICK d : d = ParentPointer(p)
    OBVIOUS
  <2>5. PICK table : table = Linked(nodes_table, d, number, item.type)
    OBVIOUS
  <2>6. d \in 0..(Len(nodes_table) - 1)
    BY <2>1, <2>4
  <2>7. /\ table \in Seq(Node) /\ Len(table) = Len(nodes_table)
        /\ \A i \in 1..Len(nodes_table) :
              /\ table[i].number = nodes_table[i].number
              /\ table[i].type = nodes_table[i].type
              /\ table[i].content = nodes_table[i].content
              /\ table[i].parent = nodes_table[i].parent
              /\ i # d + 1 => table[i] = nodes_table[i]
        /\ table[d + 1].entries =
               Append(nodes_table[d + 1].entries, EntryOf(number, item))
    BY <1>1, <2>5, <2>6, LinkedTable DEF EntryOf
  <2>8. LinkedIn(p, number, item) = table
    BY <2>2, <2>4, <2>5
  <2>. QED  BY <1>3, <2>3, <2>4, <2>7, <2>8
<1>. QED  BY <1>2, <1>3

LEMMA EntryType ==
    ASSUME IInv, NEW item \in Items, item.type # "special", NEW number \in Nat
    PROVE  /\ EntryOf(number, item) \in Entry
           /\ EntryOf(number, item).number = number
           /\ EntryOf(number, item).type = item.type
           /\ EntryOf(number, item).name = Len(entries) + 1
<1>1. Len(entries) \in Nat /\ item.type \in Types
  BY ItemFacts DEF IInv, TypeInv
<1>. QED  BY <1>1 DEF EntryOf, Entry

\* Every node is as it was, but for one list that has grown.
ButOneList(at, entry) ==
    \A i \in DOMAIN nodes_table :
       /\ i \in DOMAIN nodes_table'
       /\ nodes_table'[i].number = nodes_table[i].number
       /\ nodes_table'[i].type = nodes_table[i].type
       /\ nodes_table'[i].content = nodes_table[i].content
       /\ nodes_table'[i].parent = nodes_table[i].parent
       /\ i # at => nodes_table'[i].entries = nodes_table[i].entries
       /\ i = at => nodes_table'[i].entries =
                        Append(nodes_table[i].entries, entry)

LEMMA GrowsBy ==
    ASSUME IInv, NEW p \in 0..Len(entries), NEW item \in Items,
           NEW added \in BOOLEAN, NEW pointer \in Pointer,
           Read(p, item, added), Points(pointer),
           NEW at, NEW entry, ButOneList(at, entry)
    PROVE  Grows
<1>1. /\ DOMAIN entries = 1..Len(entries) /\ Len(entries) \in Nat
      /\ DOMAIN nodes_table = 1..Len(nodes_table) /\ Len(nodes_table) \in Nat
      /\ nodes_table \in Seq(Node)
  BY DEF IInv, TypeInv
<1>2. /\ DOMAIN entries' = 1..(Len(entries) + 1)
      /\ \A e \in 1..Len(entries) : entries'[e] = entries[e]
  <2>1. /\ entries' \in Seq(Source) /\ Len(entries') = Len(entries) + 1
        /\ \A e \in 1..Len(entries) : entries'[e] = entries[e]
    BY ReadOne
  <2>. QED  BY <2>1
<1>3. ASSUME NEW i \in DOMAIN nodes_table
      PROVE  /\ DOMAIN nodes_table[i].entries
                    \subseteq DOMAIN nodes_table'[i].entries
             /\ \A k \in DOMAIN nodes_table[i].entries :
                   nodes_table'[i].entries[k] = nodes_table[i].entries[k]
  <2>1. CASE i # at
    BY <2>1 DEF ButOneList
  <2>2. CASE i = at
    <3>1. nodes_table[i] \in Node
      BY <1>1
    <3>2. nodes_table[i].entries \in Seq(Entry)
      BY <3>1 DEF Node
    <3>3. nodes_table'[i].entries = Append(nodes_table[i].entries, entry)
      BY <2>2 DEF ButOneList
    <3>4. PICK list : list = nodes_table[i].entries
      OBVIOUS
    <3>5. list \in Seq(Entry) /\ nodes_table'[i].entries = Append(list, entry)
      BY <3>2, <3>3, <3>4
    <3>6. /\ DOMAIN list \subseteq DOMAIN Append(list, entry)
          /\ \A k \in DOMAIN list : Append(list, entry)[k] = list[k]
      BY <3>5
    <3>. QED  BY <3>4, <3>5, <3>6
  <2>. QED  BY <2>1, <2>2
<1>4. /\ DOMAIN entries \subseteq DOMAIN entries'
      /\ \A e \in DOMAIN entries : entries'[e] = entries[e]
  BY <1>1, <1>2
<1>. QED  BY <1>3, <1>4 DEF Grows, ButOneList

\* The parts of the invariant about entries, with one entry more.
LEMMA EntryRead ==
    ASSUME IInv, Grows, NEW p \in 0..Len(entries), NEW item \in Items,
           NEW added \in BOOLEAN, NEW pointer \in Pointer,
           Read(p, item, added), Points(pointer),
           no_duplicates' = no_duplicates, nodes_table' \in Seq(Node),
           pointer >= 0 => pointer < Len(nodes_table'),
           NEW n, n = Len(entries) + 1,
           ScannedDirectory(n)' =>
               /\ ParentPointer(p) # Freed
               /\ nodes_table'[pointer + 1].parent =
                     IF ParentPointer(p) = NULL THEN 0 ELSE ParentPointer(p)
               /\ nodes_table'[pointer + 1].entries = <<>>,
           \A q \in DOMAIN entries :
               ScannedDirectory(q) => Lists(Listing(q), q)'
    PROVE  TypeInv' /\ OrderInv' /\ PointerInv' /\ LinkInv' /\ ListInv'
<1>1. n = Len(entries) + 1
  OBVIOUS
<1>2. /\ entries \in Seq(Source) /\ fts_pointer \in Seq(Pointer)
      /\ Len(fts_pointer) = Len(entries) /\ Len(entries) \in Nat
      /\ nodes_table \in Seq(Node) /\ Len(nodes_table) \in Nat
      /\ no_duplicates \in BOOLEAN
  BY DEF IInv, TypeInv
<1>3. /\ entries' \in Seq(Source) /\ Len(entries') = n
      /\ \A e \in 1..Len(entries) : entries'[e] = entries[e]
      /\ entries'[n].parent = p /\ entries'[n].item = item
      /\ fts_pointer' \in Seq(Pointer) /\ Len(fts_pointer') = n
      /\ \A e \in 1..Len(entries) :
            \/ fts_pointer'[e] = fts_pointer[e]
            \/ fts_pointer[e] = Freed /\ fts_pointer'[e] = pointer
      /\ fts_pointer'[n] = pointer
      /\ OrderInv'
      /\ \A q \in 0..Len(entries) :
            ParentPointer(q) # Freed => ParentPointer(q)' = ParentPointer(q)
  BY <1>1, ReadOne
<1>4. /\ \A e \in 1..Len(entries) : entries[e].parent \in 0..Len(entries)
      /\ \A e \in 1..Len(entries) : ScannedDirectory(e)' <=> ScannedDirectory(e)
  BY <1>1, ReadOne
<1>5. DOMAIN entries = 1..Len(entries) /\ DOMAIN entries' = 1..n
  BY <1>2, <1>3
<1>6. TypeInv'
  BY <1>2, <1>3 DEF TypeInv
<1>7. Len(nodes_table) =< Len(nodes_table') /\ Len(nodes_table') \in Nat
  <2>1. /\ Len(nodes_table') \in Nat
        /\ 1..Len(nodes_table) \subseteq 1..Len(nodes_table')
    BY <1>2 DEF Grows
  <2>2. Len(nodes_table) \in Nat
    BY <1>2
  <2>3. CASE Len(nodes_table) = 0
    BY <2>1, <2>3
  <2>4. CASE Len(nodes_table) # 0
    <3>1. Len(nodes_table) \in 1..Len(nodes_table)
      BY <2>2, <2>4
    <3>. QED  BY <2>1, <3>1
  <2>. QED  BY <2>3, <2>4
<1>8. ASSUME NEW e \in 1..Len(entries), fts_pointer[e] >= 0
      PROVE  /\ fts_pointer[e] \in 0..(Len(nodes_table) - 1)
             /\ fts_pointer[e] + 1 \in DOMAIN nodes_table
             /\ fts_pointer'[e] = fts_pointer[e]
  <2>1. fts_pointer[e] \in Pointer
    BY <1>2
  <2>2. fts_pointer[e] \in Nat
    BY <1>8, <2>1 DEF Pointer, NULL, Freed
  <2>3. fts_pointer[e] < Len(nodes_table)
    BY <1>5, <1>8 DEF IInv, PointerInv
  <2>4. fts_pointer[e] + 1 \in DOMAIN nodes_table
    BY <1>2, <2>2, <2>3
  <2>5. fts_pointer'[e] = fts_pointer[e]
    BY <1>3, <2>2 DEF Freed
  <2>. QED  BY <1>2, <2>2, <2>3, <2>4, <2>5
<1>9. PointerInv'
  <2>1. ASSUME NEW e \in 1..n, fts_pointer'[e] >= 0
        PROVE  fts_pointer'[e] < Len(nodes_table')
    <3>1. CASE fts_pointer'[e] = pointer
      BY <2>1, <3>1
    <3>2. CASE fts_pointer'[e] # pointer
      <4>1. e \in 1..Len(entries) /\ fts_pointer'[e] = fts_pointer[e]
        BY <1>1, <1>2, <1>3, <3>2
      <4>. QED  BY <1>2, <1>7, <1>8, <2>1, <4>1
    <3>. QED  BY <3>1, <3>2
  <2>. QED  BY <1>5, <2>1 DEF PointerInv
<1>10. ASSUME NEW e \in 1..n, ScannedDirectory(e)'
       PROVE  /\ nodes_table'[fts_pointer'[e] + 1].parent =
                    IF ParentPointer(entries[e].parent)' = NULL THEN 0
                    ELSE fts_pointer'[entries'[e].parent]
              /\ Lists(Listing(e), e)'
  <2>1. CASE e = n
    <3>1. ParentPointer(p) # Freed
      BY <1>10, <2>1
    <3>2. /\ entries'[e].parent = p /\ fts_pointer'[e] = pointer
          /\ ParentPointer(p)' = ParentPointer(p)
      BY <1>3, <2>1, <3>1
    <3>3. ParentPointer(entries[e].parent)' = ParentPointer(p)
      BY <3>2 DEF ParentPointer
    <3>4. ParentPointer(p) # NULL => ParentPointer(p) = fts_pointer'[p]
      BY <3>2 DEF ParentPointer
    <3>5. /\ nodes_table'[pointer + 1].parent =
                IF ParentPointer(p) = NULL THEN 0 ELSE ParentPointer(p)
          /\ nodes_table'[pointer + 1].entries = <<>>
      BY <1>10, <2>1
    <3>6. Lists(<<>>, n)'
      <4>1. AddedUnder(n)' = {}
        BY <1>1, AddedMore
      <4>2. DOMAIN <<>> = {}
        OBVIOUS
      <4>. QED  BY <4>1, <4>2 DEF Lists
    <3>7. Listing(e)' = <<>>
      BY <3>2, <3>5 DEF Listing
    <3>8. Lists(Listing(e), e)'
      BY <2>1, <3>6, <3>7 DEF Lists
    <3>. QED  BY <3>2, <3>3, <3>4, <3>5, <3>8
  <2>2. CASE e # n
    <3>1. e \in 1..Len(entries)
      BY <1>1, <1>2, <2>2
    <3>2. ScannedDirectory(e)
      BY <1>4, <1>10, <3>1
    <3>3. /\ fts_pointer'[e] = fts_pointer[e] /\ entries'[e] = entries[e]
          /\ entries[e].parent \in 0..Len(entries)
      BY <1>3, <1>4, <1>8, <3>1, <3>2 DEF ScannedDirectory
    <3>4. nodes_table'[fts_pointer[e] + 1].parent =
              nodes_table[fts_pointer[e] + 1].parent
      BY <1>8, <3>1, <3>2 DEF ScannedDirectory, Grows
    <3>5. nodes_table[fts_pointer[e] + 1].parent =
              IF ParentPointer(entries[e].parent) = NULL THEN 0
              ELSE fts_pointer[entries[e].parent]
      BY <1>5, <3>1, <3>2 DEF IInv, LinkInv
    <3>6. PICK q \in 0..Len(entries) : q = entries[e].parent
      BY <3>3
    <3>11. ParentPointer(q) # Freed
      <4>1. fts_pointer[e] + 1 \in DOMAIN nodes_table
        BY <1>8, <3>1, <3>2 DEF ScannedDirectory
      <4>2. nodes_table[fts_pointer[e] + 1] \in Node
        BY <1>2, <4>1
      <4>3. nodes_table[fts_pointer[e] + 1].parent # Freed
        BY <4>2 DEF Node, Freed
      <4>. QED  BY <3>5, <3>6, <4>3 DEF ParentPointer, NULL, Freed
    <3>7. ParentPointer(q)' = ParentPointer(q) /\ entries'[e].parent = q
      BY <1>3, <3>3, <3>6, <3>11
    <3>8. ParentPointer(entries[e].parent)' = ParentPointer(q)
      BY <3>7 DEF ParentPointer
    <3>9. ParentPointer(q) # NULL => fts_pointer'[q] = fts_pointer[q]
      BY <1>2, <1>3, <3>6, <3>11 DEF ParentPointer, Root
    <3>10. Lists(Listing(e), e)'
      BY <1>5, <3>1, <3>2
    <3>. QED  BY <3>3, <3>4, <3>5, <3>6, <3>7, <3>8, <3>9, <3>10
  <2>. QED  BY <2>1, <2>2
<1>11. LinkInv'
  BY <1>5, <1>10 DEF LinkInv
<1>12. ListInv'
  BY <1>5, <1>10 DEF ListInv
<1>. QED  BY <1>3, <1>6, <1>9, <1>11, <1>12

LEMMA FirstPointer ==
    ASSUME IInv, NEW p \in 0..Len(entries), NEW item \in Items,
           NEW added \in BOOLEAN, NEW pointer \in Pointer,
           Read(p, item, added), Points(pointer)
    PROVE  entries' # <<>> /\ (fts_pointer'[1] =< 0 \/ Shared(fts_pointer[1])')
<1>1. /\ entries \in Seq(Source) /\ Len(entries) \in Nat
      /\ nodes_table \in Seq(Node) /\ fts_pointer \in Seq(Pointer)
      /\ Len(fts_pointer) = Len(entries)
  BY DEF IInv, TypeInv
<1>2. /\ entries' \in Seq(Source) /\ Len(entries') = Len(entries) + 1
      /\ \A e \in 1..Len(entries) :
            \/ fts_pointer'[e] = fts_pointer[e]
            \/ fts_pointer[e] = Freed /\ fts_pointer'[e] = pointer
      /\ fts_pointer'[Len(entries) + 1] = pointer
      /\ \A m \in Nat : Shared(m) => Shared(m)'
  BY ReadOne
<1>3. entries' # <<>>
  BY <1>1, <1>2
<1>4. CASE entries = <<>>
  <2>1. Len(entries) = 0 /\ Len(nodes_table) = 0
    BY <1>1, <1>4 DEF IInv, ReachInv
  <2>2. fts_pointer'[1] = pointer
    BY <1>2, <2>1
  <2>. QED  BY <1>3, <2>1, <2>2 DEF Points, NULL, Freed
<1>5. CASE entries # <<>>
  <2>1. /\ 1 \in 1..Len(entries)
        /\ fts_pointer[1] =< 0 \/ Shared(fts_pointer[1])
    BY <1>1, <1>5 DEF IInv, ReachInv
  <2>2. CASE fts_pointer'[1] # fts_pointer[1]
    <3>1. /\ fts_pointer'[1] = pointer /\ 1 # Len(entries) + 1
          /\ 1 \in DOMAIN entries' /\ Len(entries) + 1 \in DOMAIN entries'
      BY <1>1, <1>2, <2>1, <2>2
    <3>. QED  BY <1>2, <1>3, <3>1 DEF Shared
  <2>3. CASE fts_pointer'[1] = fts_pointer[1] /\ fts_pointer[1] =< 0
    BY <1>3, <2>3
  <2>4. CASE fts_pointer'[1] = fts_pointer[1] /\ ~(fts_pointer[1] =< 0)
    <3>1. fts_pointer[1] \in Nat
      <4>1. fts_pointer[1] \in Pointer
        BY <1>1, <2>1
      <4>. QED  BY <2>4, <4>1 DEF Pointer, NULL, Freed
    <3>2. PICK m \in Nat : m = fts_pointer[1]
      BY <3>1
    <3>3. Shared(m)'
      BY <1>2, <2>1, <2>4, <3>2
    <3>. QED  BY <1>3, <2>4, <3>2, <3>3 DEF Shared
  <2>. QED  BY <2>2, <2>3, <2>4
<1>. QED  BY <1>4, <1>5

-----------------------------------------------------------------------------
(***************************************************************************)
(* Every step keeps the invariant.                                         *)
(***************************************************************************)

\* An entry that becomes nothing: skipped, refused, or its node freed.
LEMMA NothingAdded ==
    ASSUME IInv, NEW p \in 0..Len(entries), NEW item \in Items,
           Read(p, item, FALSE), NEW pointer \in {NULL, Freed},
           fts_pointer' = Append(fts_pointer, pointer),
           UNCHANGED <<no_duplicates, nodes_table, nodes_id>>
    PROVE  IInv'
<1>1. pointer \in Pointer /\ ~(pointer >= 0) /\ Points(pointer)
  BY AppendPoints DEF IInv, Pointer, NULL, Freed
<1>2. /\ nodes_table \in Seq(Node) /\ Len(nodes_table) \in Nat
      /\ Len(entries) \in Nat /\ DOMAIN nodes_table = 1..Len(nodes_table)
      /\ nodes_table' = nodes_table /\ nodes_id' = nodes_id
      /\ no_duplicates' = no_duplicates
  BY DEF IInv, TypeInv
<1>3. Grows
  <2>1. PICK at : at = 0
    OBVIOUS
  <2>2. \A i \in DOMAIN nodes_table :
           /\ i \in DOMAIN nodes_table'
           /\ nodes_table'[i] = nodes_table[i]
           /\ i # at
    BY <1>2, <2>1
  <2>3. ButOneList(at, 0)
    BY <2>2 DEF ButOneList
  <2>. QED  BY <1>1, <2>3, GrowsBy
<1>4. PICK entry \in Entry : entry.name = Len(entries) + 1
  <2>1. [number |-> 0, type |-> "directory", name |-> Len(entries) + 1] \in Entry
    BY <1>2 DEF Entry, Types
  <2>. QED  BY <2>1
<1>5. ASSUME NEW q \in DOMAIN entries, ScannedDirectory(q)
      PROVE  Lists(Listing(q), q)'
  BY <1>1, <1>2, <1>3, <1>4, <1>5, ListsKept
<1>9. PICK m : m = Len(entries) + 1
  OBVIOUS
<1>10. ~ScannedDirectory(m)'
  <2>1. fts_pointer'[m] = pointer
    BY <1>1, <1>9, ReadOne
  <2>. QED  BY <1>1, <2>1 DEF ScannedDirectory
<1>6. TypeInv' /\ OrderInv' /\ PointerInv' /\ LinkInv' /\ ListInv'
  BY <1>1, <1>2, <1>3, <1>5, <1>9, <1>10, EntryRead
<1>7. DenseNumbers' /\ NoSharedContent'
  BY <1>2 DEF IInv, DenseNumbers, NoSharedContent
<1>8. ReachInv'
  <2>1. \A n \in 0..(Len(nodes_table) - 1) :
           \E e \in DOMAIN entries' :
               /\ fts_pointer'[e] = n
               /\ \/ HasEntry(n)' \/ Shared(n)'
                  \/ ParentPointer(entries[e].parent)' = NULL
    BY <1>1, <1>3, ReachKept
  <2>2. entries' # <<>> /\ (fts_pointer'[1] =< 0 \/ Shared(fts_pointer[1])')
    BY <1>1, FirstPointer
  <2>. QED  BY <1>2, <2>1, <2>2 DEF ReachInv
<1>. QED  BY <1>6, <1>7, <1>8 DEF IInv

\* A parent that is a directory was not freed.
LEMMA DirectoryNotFreed ==
    ASSUME IInv, NEW p, InDirectory(p)
    PROVE  ParentPointer(p) # Freed
<1>1. \A i \in DOMAIN nodes_table : nodes_table[i].number # Freed
  <2>1. ASSUME NEW i \in DOMAIN nodes_table
        PROVE  nodes_table[i].number # Freed
    <3>1. nodes_table[i] \in Node
      BY DEF IInv, TypeInv
    <3>. QED  BY <3>1 DEF Node, Freed
  <2>. QED  BY <2>1
<1>. QED  BY <1>1 DEF InDirectory, NULL, Freed

\* A duplicate: its directory lists the node of the first twin.
LEMMA AddDuplicateKeeps ==
    ASSUME IInv, NEW p \in 0..Len(entries), NEW item \in Items,
           AddDuplicate(p, item)
    PROVE  IInv'
<1>1. /\ Read(p, item, TRUE)
      /\ ParentPointer(p) # Freed
      /\ no_duplicates' = no_duplicates /\ nodes_id' = nodes_id
      /\ Freed \in Pointer /\ ~(Freed >= 0)
      /\ TRUE \in BOOLEAN
      /\ Points(Freed)
  <2>1. InDirectory(p) /\ fts_pointer' = Append(fts_pointer, Freed)
    BY DEF AddDuplicate
  <2>2. ParentPointer(p) # Freed
    BY <2>1, DirectoryNotFreed
  <2>3. Points(Freed)
    BY <2>1, AppendPoints DEF IInv
  <2>4. /\ Read(p, item, TRUE)
        /\ no_duplicates' = no_duplicates /\ nodes_id' = nodes_id
    BY DEF AddDuplicate
  <2>5. Freed \in Pointer /\ ~(Freed >= 0)
    BY DEF Pointer, Freed
  <2>. QED  BY <2>2, <2>3, <2>4, <2>5
<1>2. /\ nodes_table \in Seq(Node) /\ Len(nodes_table) \in Nat
      /\ Len(entries) \in Nat /\ DOMAIN nodes_table = 1..Len(nodes_table)
      /\ TypeInv /\ DenseNumbers
  BY DEF IInv, TypeInv
<1>3. PICK i \in DOMAIN nodes_table :
          /\ FirstTwin(item) = nodes_table[i]
          /\ nodes_table[i].type = item.type
          /\ nodes_table[i].content = item.content
  BY <1>2, TwinFound DEF AddDuplicate
<1>4. PICK number : number = nodes_table[i].number
  OBVIOUS
<1>5. number \in Nat /\ item.type # "special"
  <2>1. nodes_table[i] \in Node
    BY <1>2
  <2>. QED  BY <1>3, <1>4, <2>1 DEF Node, Types
<1>6. nodes_table' = LinkedIn(p, number, item)
  BY <1>3, <1>4 DEF AddDuplicate, LinkedIn
<1>7. PICK at : at = ParentPointer(p) + 1
  OBVIOUS
<1>8. PICK entry : entry = EntryOf(number, item)
  OBVIOUS
<1>9. /\ nodes_table' \in Seq(Node) /\ Len(nodes_table') = Len(nodes_table)
      /\ \A j \in 1..Len(nodes_table) :
            /\ nodes_table'[j].number = nodes_table[j].number
            /\ nodes_table'[j].type = nodes_table[j].type
            /\ nodes_table'[j].content = nodes_table[j].content
            /\ nodes_table'[j].parent = nodes_table[j].parent
            /\ j # at => nodes_table'[j].entries = nodes_table[j].entries
      /\ ParentPointer(p) # NULL =>
            /\ at \in 1..Len(nodes_table)
            /\ nodes_table'[at].entries = Append(nodes_table[at].entries, entry)
  <2>1. ParentPointer(p) # Freed /\ item.type # "special" /\ number \in Nat
    BY <1>1, <1>5
  <2>2. PICK table : table = LinkedIn(p, number, item)
    OBVIOUS
  <2>3. /\ table \in Seq(Node) /\ Len(table) = Len(nodes_table)
        /\ \A j \in 1..Len(nodes_table) :
              /\ table[j].number = nodes_table[j].number
              /\ table[j].type = nodes_table[j].type
              /\ table[j].content = nodes_table[j].content
              /\ table[j].parent = nodes_table[j].parent
              /\ j # at => table[j].entries = nodes_table[j].entries
        /\ ParentPointer(p) # NULL =>
              /\ at \in 1..Len(nodes_table)
              /\ table[at].entries = Append(nodes_table[at].entries, entry)
    BY <1>7, <1>8, <2>1, <2>2, LinkedInFacts, ZenonT(60)
  <2>4. nodes_table' = table
    BY <1>6, <2>2
  <2>. QED  BY <2>3, <2>4
<1>10. DOMAIN nodes_table' = 1..Len(nodes_table)
  BY <1>9
<1>11. /\ entry \in Entry /\ entry.name = Len(entries) + 1
       /\ entry.number = number /\ entry.type = item.type
  BY <1>5, <1>8, EntryType
<1>12. ASSUME NEW j \in 1..Len(nodes_table), j = at
       PROVE  nodes_table'[j].entries = Append(nodes_table[j].entries, entry)
  <2>1. ParentPointer(p) # NULL
    BY <1>2, <1>7, <1>12 DEF NULL
  <2>. QED  BY <1>9, <1>12, <2>1
<1>13. Grows
  <2>1. /\ Read(p, item, TRUE) /\ TRUE \in BOOLEAN /\ Freed \in Pointer
        /\ Points(Freed)
    BY <1>1
  <2>2. ButOneList(at, entry)
    BY <1>2, <1>9, <1>10, <1>12 DEF ButOneList
  <2>. QED  BY <2>1, <2>2, GrowsBy
<1>14. StandsFor(entry, entry.name)'
  <2>1. entries'[Len(entries) + 1].item = item
    BY <1>1, ReadOne
  <2>2. /\ i \in DOMAIN nodes_table'
        /\ nodes_table'[i].number = entry.number
        /\ nodes_table'[i].type = entry.type
        /\ entry.type = entries'[entry.name].item.type
        /\ nodes_table'[i].content = entries'[entry.name].item.content
    BY <1>2, <1>3, <1>4, <1>9, <1>10, <1>11, <2>1
  <2>. QED  BY <2>2 DEF StandsFor
<1>15. ASSUME NEW q \in DOMAIN entries, ScannedDirectory(q)
       PROVE  Lists(Listing(q), q)'
  BY <1>1, <1>2, <1>7, <1>9, <1>11, <1>13, <1>14, <1>15, ListsKept
<1>20. PICK m : m = Len(entries) + 1
  OBVIOUS
<1>21. ~ScannedDirectory(m)'
  <2>1. fts_pointer'[m] = Freed
    BY <1>1, <1>20, ReadOne
  <2>. QED  BY <1>1, <2>1 DEF ScannedDirectory
<1>16. TypeInv' /\ OrderInv' /\ PointerInv' /\ LinkInv' /\ ListInv'
  BY <1>1, <1>9, <1>13, <1>15, <1>20, <1>21, EntryRead
<1>17. DenseNumbers'
  BY <1>1, <1>2, <1>9, <1>10 DEF DenseNumbers
<1>18. NoSharedContent'
  BY <1>1, <1>2, <1>9, <1>10 DEF IInv, NoSharedContent
<1>19. ReachInv'
  <2>1. \A n \in 0..(Len(nodes_table) - 1) :
           \E e \in DOMAIN entries' :
               /\ fts_pointer'[e] = n
               /\ \/ HasEntry(n)' \/ Shared(n)'
                  \/ ParentPointer(entries[e].parent)' = NULL
    BY <1>1, <1>13, ReachKept
  <2>2. entries' # <<>> /\ (fts_pointer'[1] =< 0 \/ Shared(fts_pointer[1])')
    BY <1>1, FirstPointer
  <2>. QED  BY <1>9, <2>1, <2>2 DEF ReachInv
<1>. QED  BY <1>16, <1>17, <1>18, <1>19 DEF IInv

\* The node made of an entry: its number is the next one, and its parent the
\* directory that lists it.
LEMMA NewNodeFacts ==
    ASSUME IInv, NEW p \in 0..Len(entries), NEW item \in Items,
           item.type # "special", ParentPointer(p) # Freed
    PROVE  /\ NewNode(p, item) \in Node
           /\ NewNode(p, item).number = Len(nodes_table)
           /\ NewNode(p, item).type = item.type
           /\ NewNode(p, item).content = item.content
           /\ item.type = "directory" =>
                 NewNode(p, item).parent =
                     IF ParentPointer(p) = NULL THEN 0 ELSE ParentPointer(p)
           /\ NewNode(p, item).entries = <<>>
<1>1. /\ TypeInv /\ DenseNumbers /\ nodes_id = Len(nodes_table)
      /\ Len(nodes_table) \in Nat
      /\ item.type \in Types /\ item.content \in Held
  BY ItemFacts DEF IInv, DenseNumbers, TypeInv
<1>2. PICK parent : parent =
          IF item.type = "directory" /\ ParentPointer(p) # NULL
          THEN nodes_table[At(ParentPointer(p))].number ELSE 0
  OBVIOUS
<1>3. ASSUME ParentPointer(p) # NULL
      PROVE  /\ nodes_table[At(ParentPointer(p))].number = ParentPointer(p)
             /\ ParentPointer(p) \in Nat
  <2>1. ParentPointer(p) \in 0..(Len(nodes_table) - 1)
    BY <1>3, ParentNode
  <2>2. PICK d : d = ParentPointer(p)
    OBVIOUS
  <2>3. At(d) = d + 1 /\ d + 1 \in DOMAIN nodes_table /\ d \in Nat
    BY <1>1, <2>1, <2>2, NodeAt
  <2>4. nodes_table[d + 1].number = d
    BY <1>1, <2>3 DEF DenseNumbers
  <2>. QED  BY <2>2, <2>3, <2>4
<1>4. /\ parent \in Nat
      /\ item.type = "directory" =>
            parent = IF ParentPointer(p) = NULL THEN 0 ELSE ParentPointer(p)
  BY <1>2, <1>3
<1>5. NewNode(p, item) =
          [number |-> nodes_id, type |-> item.type, content |-> item.content,
           parent |-> parent, entries |-> <<>>]
  BY <1>2 DEF NewNode
<1>. QED  BY <1>1, <1>4, <1>5 DEF Node

\* An entry that becomes a node of its own.
LEMMA AddNodeKeeps ==
    ASSUME IInv, NEW p \in 0..Len(entries), NEW item \in Items,
           AddNode(p, item)
    PROVE  IInv'
<1>1. PICK pointer : pointer = Len(nodes_table)
  OBVIOUS
<1>2. /\ nodes_table \in Seq(Node) /\ Len(nodes_table) \in Nat
      /\ Len(entries) \in Nat /\ DOMAIN nodes_table = 1..Len(nodes_table)
      /\ TypeInv /\ DenseNumbers /\ nodes_id = pointer
      /\ pointer \in Nat /\ pointer \in Pointer
  BY <1>1 DEF IInv, TypeInv, DenseNumbers, Pointer
<1>3. /\ Read(p, item, TRUE) /\ TRUE \in BOOLEAN
      /\ ParentPointer(p) # Freed /\ item.type # "special"
      /\ Points(pointer)
      /\ no_duplicates' = no_duplicates /\ nodes_id' = pointer + 1
  BY <1>1, <1>2, DirectoryNotFreed, ReusePoints DEF AddNode
<1>4. PICK at : at = ParentPointer(p) + 1
  OBVIOUS
<1>5. PICK entry : entry = EntryOf(pointer, item)
  OBVIOUS
<1>6. PICK linked : linked = LinkedIn(p, pointer, item)
  OBVIOUS
<1>7. PICK node : node = NewNode(p, item)
  OBVIOUS
<1>8. nodes_table' = Append(linked, node)
  BY <1>2, <1>6, <1>7 DEF AddNode, LinkedIn
<1>9. /\ linked \in Seq(Node) /\ Len(linked) = pointer
      /\ \A j \in 1..pointer :
            /\ linked[j].number = nodes_table[j].number
            /\ linked[j].type = nodes_table[j].type
            /\ linked[j].content = nodes_table[j].content
            /\ linked[j].parent = nodes_table[j].parent
            /\ j # at => linked[j].entries = nodes_table[j].entries
      /\ ParentPointer(p) # NULL =>
            /\ at \in 1..pointer
            /\ linked[at].entries = Append(nodes_table[at].entries, entry)
  BY <1>1, <1>2, <1>3, <1>4, <1>5, <1>6, LinkedInFacts, ZenonT(60)
<1>10. /\ node \in Node /\ node.number = pointer
       /\ node.type = item.type /\ node.content = item.content
       /\ item.type = "directory" =>
             node.parent = IF ParentPointer(p) = NULL THEN 0
                           ELSE ParentPointer(p)
       /\ node.entries = <<>>
  BY <1>1, <1>3, <1>7, NewNodeFacts
<1>11. /\ nodes_table' \in Seq(Node) /\ Len(nodes_table') = pointer + 1
       /\ DOMAIN nodes_table' = 1..(pointer + 1)
       /\ nodes_table'[pointer + 1] = node
       /\ \A j \in 1..pointer : nodes_table'[j] = linked[j]
  BY <1>2, <1>8, <1>9, <1>10, AppendProperties
<1>12. /\ entry \in Entry /\ entry.name = Len(entries) + 1
       /\ entry.number = pointer /\ entry.type = item.type
  BY <1>2, <1>3, <1>5, EntryType
<1>13. ASSUME NEW j \in 1..pointer, j = at
       PROVE  linked[j].entries = Append(nodes_table[j].entries, entry)
  <2>1. ParentPointer(p) # NULL
    BY <1>2, <1>4, <1>13 DEF NULL
  <2>. QED  BY <1>9, <1>13, <2>1
<1>14. Grows
  <2>1. ButOneList(at, entry)
    <3>1. ASSUME NEW j \in 1..pointer
          PROVE  /\ j \in DOMAIN nodes_table'
                 /\ nodes_table'[j] = linked[j]
      BY <1>2, <1>11
    <3>2. DOMAIN nodes_table = 1..pointer
      BY <1>1, <1>2
    <3>. QED  BY <1>9, <1>13, <3>1, <3>2 DEF ButOneList
  <2>. QED  BY <1>2, <1>3, <2>1, GrowsBy
<1>15. entries'[Len(entries) + 1].item = item
       /\ entries'[Len(entries) + 1].parent = p
  BY <1>2, <1>3, ReadOne
<1>16. StandsFor(entry, entry.name)'
  <2>1. /\ pointer + 1 \in DOMAIN nodes_table'
        /\ nodes_table'[pointer + 1].number = entry.number
        /\ nodes_table'[pointer + 1].type = entry.type
        /\ entry.type = entries'[entry.name].item.type
        /\ nodes_table'[pointer + 1].content = entries'[entry.name].item.content
    BY <1>2, <1>10, <1>11, <1>12, <1>15
  <2>. QED  BY <2>1 DEF StandsFor
<1>17. /\ \A j \in DOMAIN nodes_table :
             j # at => nodes_table'[j].entries = nodes_table[j].entries
       /\ ParentPointer(p) # NULL =>
             nodes_table'[at].entries = Append(nodes_table[at].entries, entry)
  BY <1>1, <1>2, <1>9, <1>11
<1>18. ASSUME NEW q \in DOMAIN entries, ScannedDirectory(q)
       PROVE  Lists(Listing(q), q)'
  BY <1>2, <1>3, <1>4, <1>12, <1>14, <1>16, <1>17, <1>18, ListsKept
<1>19. TypeInv' /\ OrderInv' /\ PointerInv' /\ LinkInv' /\ ListInv'
  <2>1. PICK n : n = Len(entries) + 1
    OBVIOUS
  <2>2. /\ pointer < Len(nodes_table')
        /\ ScannedDirectory(n)' =>
              /\ nodes_table'[pointer + 1].parent =
                    IF ParentPointer(p) = NULL THEN 0 ELSE ParentPointer(p)
              /\ nodes_table'[pointer + 1].entries = <<>>
    BY <1>1, <1>2, <1>10, <1>11, <1>15, <2>1 DEF ScannedDirectory
  <2>. QED  BY <1>2, <1>3, <1>11, <1>14, <1>18, <2>1, <2>2, EntryRead
<1>20. DenseNumbers'
  <2>1. \A j \in 1..pointer : nodes_table'[j].number = j - 1
    BY <1>1, <1>2, <1>9, <1>11 DEF DenseNumbers
  <2>. QED  BY <1>2, <1>3, <1>10, <1>11, <2>1 DEF DenseNumbers
<1>21. NoSharedContent'
  <2>1. SUFFICES ASSUME ~no_duplicates, NEW i \in 1..(pointer + 1),
                        NEW k \in 1..(pointer + 1), i # k,
                        nodes_table'[i].type = nodes_table'[k].type,
                        nodes_table'[i].type # "directory"
                 PROVE  nodes_table'[i].content # nodes_table'[k].content
    BY <1>3, <1>11 DEF NoSharedContent
  <2>2. \A j \in 1..pointer :
            /\ nodes_table'[j].type = nodes_table[j].type
            /\ nodes_table'[j].content = nodes_table[j].content
    BY <1>9, <1>11
  <2>3. item.type # "directory" =>
           \A j \in 1..pointer : ~(/\ nodes_table[j].type = item.type
                                   /\ nodes_table[j].content = item.content)
    BY <1>1, <1>2, <2>1 DEF AddNode, IsDuplicate, Twins
  <2>4. CASE i \in 1..pointer /\ k \in 1..pointer
    BY <1>1, <1>2, <2>1, <2>2, <2>4 DEF IInv, NoSharedContent
  <2>5. CASE i = pointer + 1 /\ k \in 1..pointer
    BY <1>10, <1>11, <2>1, <2>2, <2>3, <2>5
  <2>6. CASE k = pointer + 1 /\ i \in 1..pointer
    BY <1>10, <1>11, <2>1, <2>2, <2>3, <2>6
  <2>. QED  BY <1>2, <2>1, <2>4, <2>5, <2>6
<1>22. ReachInv'
  <2>1. ASSUME NEW n \in 0..pointer
        PROVE  \E e \in DOMAIN entries' :
                  /\ fts_pointer'[e] = n
                  /\ \/ HasEntry(n)' \/ Shared(n)'
                     \/ ParentPointer(entries[e].parent)' = NULL
    <3>1. CASE n \in 0..(Len(nodes_table) - 1)
      BY <1>2, <1>3, <1>14, <3>1, ReachKept
    <3>2. CASE n = pointer
      <4>1. PICK e : e = Len(entries) + 1
        OBVIOUS
      <4>2. /\ e \in DOMAIN entries' /\ fts_pointer'[e] = n
            /\ entries'[e].parent = p /\ ParentPointer(p)' = ParentPointer(p)
        <5>1. /\ entries' \in Seq(Source) /\ Len(entries') = Len(entries) + 1
              /\ fts_pointer'[Len(entries) + 1] = pointer
              /\ \A q \in 0..Len(entries) :
                    ParentPointer(q) # Freed => ParentPointer(q)' = ParentPointer(q)
          BY <1>2, <1>3, ReadOne
        <5>2. e \in DOMAIN entries'
          BY <1>2, <4>1, <5>1
        <5>. QED  BY <1>3, <1>15, <3>2, <4>1, <5>1, <5>2
      <4>3. CASE ParentPointer(p) = NULL
        <5>1. ParentPointer(entries[e].parent)' = NULL
          BY <4>2, <4>3 DEF ParentPointer
        <5>. QED  BY <4>2, <5>1
      <4>4. CASE ParentPointer(p) # NULL
        <5>1. at \in DOMAIN nodes_table /\ at \in DOMAIN nodes_table'
          BY <1>1, <1>2, <1>9, <1>11, <4>4
        <5>2. nodes_table[at].entries \in Seq(Entry)
          <6>1. nodes_table[at] \in Node
            BY <1>2, <5>1
          <6>. QED  BY <6>1 DEF Node
        <5>3. PICK list \in Seq(Entry) : list = nodes_table[at].entries
          BY <5>2
        <5>4. nodes_table'[at].entries = Append(list, entry)
          BY <1>17, <4>4, <5>3
        <5>5. /\ Len(list) + 1 \in DOMAIN Append(list, entry)
              /\ Append(list, entry)[Len(list) + 1] = entry
          BY <1>12
        <5>7. nodes_table'[at].number # n
          <6>1. at \in 1..pointer /\ nodes_table'[at].number = at - 1
            BY <1>2, <1>9, <1>11, <4>4 DEF DenseNumbers
          <6>. QED  BY <3>2, <6>1
        <5>6. HasEntry(n)'
          BY <1>12, <3>2, <5>1, <5>4, <5>5, <5>7 DEF HasEntry
        <5>. QED  BY <4>2, <5>6
      <4>. QED  BY <4>3, <4>4
    <3>. QED  BY <1>1, <1>2, <3>1, <3>2
  <2>2. entries' # <<>> /\ (fts_pointer'[1] =< 0 \/ Shared(fts_pointer[1])')
    BY <1>2, <1>3, FirstPointer
  <2>3. Len(nodes_table') - 1 = pointer
    BY <1>2, <1>11
  <2>. QED  BY <2>1, <2>2, <2>3 DEF ReachInv
<1>. QED  BY <1>19, <1>20, <1>21, <1>22 DEF IInv

\* A directory that is given its freed parent's memory.
LEMMA OwnParentKeeps ==
    ASSUME IInv, NEW p \in 0..Len(entries), NEW item \in Items,
           OwnParent(p, item)
    PROVE  IInv'
<1>1. PICK pointer : pointer = Len(nodes_table)
  OBVIOUS
<1>2. /\ nodes_table \in Seq(Node) /\ Len(nodes_table) \in Nat
      /\ Len(entries) \in Nat /\ DOMAIN nodes_table = 1..Len(nodes_table)
      /\ TypeInv /\ DenseNumbers /\ nodes_id = pointer
      /\ pointer \in Nat /\ pointer \in Pointer
      /\ entries \in Seq(Source) /\ DOMAIN entries = 1..Len(entries)
      /\ fts_pointer \in Seq(Pointer) /\ Len(fts_pointer) = Len(entries)
  BY <1>1 DEF IInv, TypeInv, DenseNumbers, Pointer
<1>3. PICK reused \in SUBSET Dangling(p) :
          p \in reused /\ fts_pointer' = Pointers(reused)
  BY DEF OwnParent
<1>4. /\ Read(p, item, TRUE) /\ TRUE \in BOOLEAN
      /\ ParentPointer(p) = Freed /\ item.type = "directory"
      /\ Points(pointer)
      /\ no_duplicates' = no_duplicates /\ nodes_id' = pointer + 1
  BY <1>1, <1>2, <1>3, ReusePoints DEF OwnParent
<1>5. PICK entry : entry = EntryOf(pointer, item)
  OBVIOUS
<1>6. PICK node : node = [number |-> pointer, type |-> item.type,
                          content |-> item.content, parent |-> pointer,
                          entries |-> <<entry>>]
  OBVIOUS
<1>7. nodes_table' = Append(nodes_table, node)
  BY <1>2, <1>5, <1>6 DEF OwnParent, EntryOf
<1>8. entry \in Entry /\ entry.name = Len(entries) + 1
  BY <1>2, <1>4, <1>5, EntryType
<1>9. node \in Node /\ node.number = pointer /\ node.type = "directory"
  <2>1. item.content \in Held /\ item.type \in Types
    BY <1>4, ItemFacts
  <2>2. <<entry>> \in Seq(Entry)
    BY <1>8
  <2>. QED  BY <1>2, <1>4, <1>6, <2>1, <2>2 DEF Node
<1>10. /\ nodes_table' \in Seq(Node) /\ Len(nodes_table') = pointer + 1
       /\ DOMAIN nodes_table' = 1..(pointer + 1)
       /\ nodes_table'[pointer + 1] = node
       /\ \A j \in 1..pointer : nodes_table'[j] = nodes_table[j]
  BY <1>1, <1>2, <1>7, <1>9, AppendProperties
<1>11. Grows
  <2>1. ASSUME NEW i \in DOMAIN nodes_table
        PROVE  /\ i \in DOMAIN nodes_table'
               /\ nodes_table'[i] = nodes_table[i]
               /\ i # 0
    BY <1>1, <1>2, <1>10
  <2>2. ButOneList(0, entry)
    BY <2>1 DEF ButOneList
  <2>. QED  BY <1>2, <1>4, <2>2, GrowsBy
<1>12. ASSUME NEW q \in DOMAIN entries, ScannedDirectory(q)
       PROVE  Lists(Listing(q), q)'
  <2>1. \A i \in DOMAIN nodes_table :
           nodes_table'[i].entries = nodes_table[i].entries
    BY <1>1, <1>2, <1>10
  <2>. QED  BY <1>2, <1>4, <1>8, <1>11, <1>12, <2>1, ListsKept
<1>13. Shared(pointer)'
  <2>1. p \in 1..Len(entries) /\ fts_pointer'[p] = pointer
    <3>1. p \in 1..Len(fts_pointer)
      BY <1>2, <1>3 DEF Dangling
    <3>2. p \in DOMAIN [f \in DOMAIN fts_pointer |->
                           IF f \in reused THEN nodes_id ELSE fts_pointer[f]]
      BY <1>2, <3>1
    <3>3. PICK taken : taken = [f \in DOMAIN fts_pointer |->
                                  IF f \in reused THEN nodes_id
                                  ELSE fts_pointer[f]]
      OBVIOUS
    <3>4. taken \in Seq(Pointer) /\ Len(taken) = Len(fts_pointer)
      <4>1. taken \in [1..Len(fts_pointer) -> Pointer]
        <5>1. \A f \in 1..Len(fts_pointer) : fts_pointer[f] \in Pointer
          BY <1>2
        <5>2. DOMAIN fts_pointer = 1..Len(fts_pointer)
          BY <1>2
        <5>. QED  BY <1>2, <3>3, <5>1, <5>2
      <4>. QED  BY <1>2, <4>1, IsASeq
    <3>5. taken[p] = pointer
      BY <1>2, <1>3, <3>1, <3>3
    <3>6. fts_pointer' = Append(taken, pointer)
      BY <1>2, <1>3, <3>3 DEF Pointers
    <3>. QED  BY <1>2, <3>1, <3>4, <3>5, <3>6, AppendProperties
  <2>2. /\ entries' \in Seq(Source) /\ Len(entries') = Len(entries) + 1
        /\ fts_pointer'[Len(entries) + 1] = pointer
    BY <1>2, <1>4, ReadOne
  <2>3. /\ p \in DOMAIN entries' /\ Len(entries) + 1 \in DOMAIN entries'
        /\ p # Len(entries) + 1
    BY <1>2, <2>1, <2>2
  <2>. QED  BY <2>1, <2>2, <2>3 DEF Shared
<1>14. TypeInv' /\ OrderInv' /\ PointerInv' /\ LinkInv' /\ ListInv'
  <2>4. PICK m : m = Len(entries) + 1
    OBVIOUS
  <2>1. fts_pointer'[m] = pointer
    BY <1>2, <1>4, <2>4, ReadOne
  <2>2. ~ScannedDirectory(m)'
    BY <1>13, <2>1 DEF ScannedDirectory, Shared
  <2>3. pointer < Len(nodes_table')
    BY <1>2, <1>10
  <2>. QED  BY <1>2, <1>4, <1>10, <1>11, <1>12, <2>2, <2>3, <2>4, EntryRead
<1>15. DenseNumbers'
  <2>1. \A j \in 1..pointer : nodes_table'[j].number = j - 1
    BY <1>1, <1>2, <1>10 DEF DenseNumbers
  <2>. QED  BY <1>2, <1>4, <1>9, <1>10, <2>1 DEF DenseNumbers
<1>16. NoSharedContent'
  <2>1. \A j \in 1..(pointer + 1) :
           nodes_table'[j].type # "directory" =>
               j \in 1..pointer /\ nodes_table'[j] = nodes_table[j]
    BY <1>2, <1>9, <1>10
  <2>. QED  BY <1>1, <1>2, <1>4, <1>10, <2>1 DEF IInv, NoSharedContent
<1>17. ReachInv'
  <2>1. ASSUME NEW n \in 0..pointer
        PROVE  \E e \in DOMAIN entries' :
                  /\ fts_pointer'[e] = n
                  /\ \/ HasEntry(n)' \/ Shared(n)'
                     \/ ParentPointer(entries[e].parent)' = NULL
    <3>1. CASE n \in 0..(Len(nodes_table) - 1)
      BY <1>2, <1>4, <1>11, <3>1, ReachKept
    <3>2. CASE n = pointer
      BY <1>13, <3>2 DEF Shared
    <3>. QED  BY <1>1, <1>2, <3>1, <3>2
  <2>2. entries' # <<>> /\ (fts_pointer'[1] =< 0 \/ Shared(fts_pointer[1])')
    BY <1>2, <1>4, FirstPointer
  <2>3. Len(nodes_table') - 1 = pointer
    BY <1>2, <1>10
  <2>. QED  BY <2>1, <2>2, <2>3 DEF ReachInv
<1>. QED  BY <1>14, <1>15, <1>16, <1>17 DEF IInv

LEMMA InitInv == Init => IInv
<1>. SUFFICES ASSUME Init
              PROVE  IInv
  OBVIOUS
<1>1. /\ entries = <<>> /\ nodes_table = <<>> /\ fts_pointer = <<>>
      /\ nodes_id = 0 /\ no_duplicates \in BOOLEAN
  BY DEF Init
<1>2. /\ DOMAIN entries = {} /\ DOMAIN nodes_table = {}
      /\ Len(nodes_table) = 0
  BY <1>1
<1>3. TypeInv
  BY <1>1 DEF TypeInv
<1>4. DenseNumbers /\ NoSharedContent
  BY <1>1, <1>2 DEF DenseNumbers, NoSharedContent
<1>5. OrderInv /\ PointerInv /\ ListInv /\ LinkInv
  BY <1>2 DEF OrderInv, PointerInv, ListInv, LinkInv
<1>6. ReachInv
  BY <1>1, <1>2 DEF ReachInv
<1>. QED  BY <1>3, <1>4, <1>5, <1>6 DEF IInv

\* The end of the scan, and a stutter, leave what the invariant is about.
LEMMA UnchangedKeeps ==
    ASSUME IInv, UNCHANGED <<no_duplicates, entries, fts_pointer, nodes_table,
                             nodes_id>>
    PROVE  IInv'
<1>1. TypeInv' /\ DenseNumbers' /\ NoSharedContent'
  BY DEF IInv, TypeInv, DenseNumbers, NoSharedContent
<1>2. OrderInv' /\ PointerInv'
  BY DEF IInv, OrderInv, PointerInv
<1>3. ListInv'
  <2>1. ASSUME NEW q \in DOMAIN entries, ScannedDirectory(q)
        PROVE  Lists(Listing(q), q)'
    <3>1. PICK list : list = Listing(q)
      OBVIOUS
    <3>2. Lists(list, q)
      BY <2>1, <3>1 DEF IInv, ListInv
    <3>3. Listing(q)' = list /\ AddedUnder(q)' = AddedUnder(q)
      BY <3>1 DEF Listing, AddedUnder
    <3>4. Grows
      BY DEF Grows
    <3>5. Lists(list, q)'
      BY <3>2, <3>3, <3>4, ListKept
    <3>. QED  BY <3>3, <3>5 DEF Lists
  <2>. QED  BY <2>1 DEF ListInv, ScannedDirectory, Shared
<1>4. LinkInv'
  BY DEF IInv, LinkInv, ScannedDirectory, Shared, ParentPointer
<1>5. ReachInv'
  BY DEF IInv, ReachInv, HasEntry, Shared, ParentPointer
<1>. QED  BY <1>1, <1>2, <1>3, <1>4, <1>5 DEF IInv

LEMMA StepInv ==
    ASSUME IInv, [Next]_vars
    PROVE  IInv'
<1>1. CASE \E p \in 0..Len(entries), item \in Items :
              \/ AddNode(p, item) \/ AddDuplicate(p, item)
              \/ NoNode(p, item) \/ Bail(p, item)
              \/ BailSpecial(p, item) \/ ParentIsNoDirectory(p, item)
              \/ OwnParent(p, item) \/ FreedParent(p, item)
  <2>1. PICK p \in 0..Len(entries), item \in Items :
            \/ AddNode(p, item) \/ AddDuplicate(p, item)
            \/ NoNode(p, item) \/ Bail(p, item)
            \/ BailSpecial(p, item) \/ ParentIsNoDirectory(p, item)
            \/ OwnParent(p, item) \/ FreedParent(p, item)
    BY <1>1
  <2>2. CASE AddNode(p, item)
    BY <2>2, AddNodeKeeps
  <2>3. CASE AddDuplicate(p, item)
    BY <2>3, AddDuplicateKeeps
  <2>4. CASE NoNode(p, item)
    BY <2>4, NothingAdded DEF NoNode
  <2>5. CASE Bail(p, item)
    BY <2>5, NothingAdded DEF Bail
  <2>6. CASE BailSpecial(p, item)
    BY <2>6, NothingAdded DEF BailSpecial
  <2>7. CASE FreedParent(p, item)
    BY <2>7, NothingAdded DEF FreedParent
  <2>8. CASE ParentIsNoDirectory(p, item)
    BY <2>8, NothingAdded DEF ParentIsNoDirectory
  <2>9. CASE OwnParent(p, item)
    BY <2>9, OwnParentKeeps
  <2>. QED  BY <2>1, <2>2, <2>3, <2>4, <2>5, <2>6, <2>7, <2>8, <2>9
<1>2. CASE ScanEnds
  BY <1>2, UnchangedKeeps DEF ScanEnds
<1>3. CASE UNCHANGED vars
  BY <1>3, UnchangedKeeps DEF vars
<1>. QED  BY <1>1, <1>2, <1>3 DEF Next

-----------------------------------------------------------------------------
(***************************************************************************)
(* The theorems.                                                           *)
(***************************************************************************)

\* Whatever sources_scan reads and whatever fails on the way, the invariant
\* holds between any two entries.
THEOREM Invariance == Spec => []IInv
<1>1. Init => IInv
  BY InitInv
<1>2. IInv /\ [Next]_vars => IInv'
  BY StepInv
<1>. QED  BY <1>1, <1>2, PTL DEF Spec

\* The nodes of the table are numbered 0, 1, 2, ... in the order node_new
\* adds them, and nodes_id is their count.
THEOREM NumbersStayDense == Spec => []DenseNumbers
<1>1. IInv => DenseNumbers
  BY DEF IInv
<1>. QED  BY <1>1, Invariance, PTL

\* Every scanned directory lists what was added under it, each entry once, in
\* the order fts_read returned them, with a node of that entry's content.
THEOREM DirectoriesListTheirEntries == Spec => []DirectoryFaithful
<1>1. IInv => DirectoryFaithful
  <2>1. SUFFICES ASSUME IInv, NEW p \in DOMAIN entries, ScannedDirectory(p)
                 PROVE  LET listed == nodes_table[At(fts_pointer[p])].entries
                            added == {e \in DOMAIN entries :
                                         /\ entries[e].parent = p
                                         /\ entries[e].added}
                        IN  /\ {listed[k].name : k \in DOMAIN listed} = added
                            /\ \A k \in DOMAIN listed :
                                  StandsFor(listed[k], listed[k].name)
                            /\ \A k, l \in DOMAIN listed :
                                  k < l => listed[k].name < listed[l].name
    BY DEF DirectoryFaithful
  <2>2. PICK n : n = fts_pointer[p]
    OBVIOUS
  <2>3. n \in 0..(Len(nodes_table) - 1)
    BY <2>1, <2>2, ListingType
  <2>4. At(n) = n + 1
    BY <2>1, <2>3, NodeAt DEF IInv
  <2>5. PICK list : list = nodes_table[At(n)].entries
    OBVIOUS
  <2>6. Lists(list, p)
    BY <2>1, <2>2, <2>4, <2>5 DEF IInv, ListInv, Listing
  <2>. QED  BY <2>2, <2>5, <2>6 DEF Lists, AddedUnder
<1>. QED  BY <1>1, Invariance, PTL

\* Without -n no two files and no two symbolic links of the same content have
\* a node each.
THEOREM ContentIsStoredOnce == Spec => []NoSharedContent
<1>1. IInv => NoSharedContent
  BY DEF IInv
<1>. QED  BY <1>1, Invariance, PTL

\* A directory's node holds the number of the directory that lists it.
THEOREM DirectoriesKnowTheirParent == Spec => []ParentLinks
<1>1. IInv => ParentLinks
  <2>1. SUFFICES ASSUME IInv, NEW e \in DOMAIN entries, ScannedDirectory(e)
                 PROVE  nodes_table[At(fts_pointer[e])].parent =
                            IF ParentPointer(entries[e].parent) = NULL THEN 0
                            ELSE fts_pointer[entries[e].parent]
    BY DEF ParentLinks
  <2>2. PICK n : n = fts_pointer[e]
    OBVIOUS
  <2>3. n \in 0..(Len(nodes_table) - 1)
    BY <2>1, <2>2, ListingType
  <2>4. At(n) = n + 1
    BY <2>1, <2>3, NodeAt DEF IInv
  <2>. QED  BY <2>1, <2>2, <2>4 DEF IInv, LinkInv
<1>. QED  BY <1>1, Invariance, PTL

\* With one source, a directory, node 0 is the root and every other node is
\* listed somewhere, unless a directory's own node was never allocated.
THEOREM RootListsTheRest == Spec => []RootReachesAll
<1>1. IInv => RootReachesAll
  <2>1. SUFFICES ASSUME IInv,
                        {e \in DOMAIN entries : entries[e].parent = Root} = {1},
                        ScannedDirectory(1),
                        {e \in DOMAIN entries :
                            /\ entries[e].item.type = "directory"
                            /\ fts_pointer[e] = NULL} = {}
                 PROVE  /\ fts_pointer[1] = 0
                        /\ \A i \in DOMAIN nodes_table :
                              nodes_table[i].number # 0 =>
                                  \/ HasEntry(nodes_table[i].number)
                                  \/ Shared(nodes_table[i].number)
    BY DEF RootReachesAll
  <2>2. /\ entries \in Seq(Source) /\ fts_pointer \in Seq(Pointer)
        /\ Len(fts_pointer) = Len(entries) /\ Len(entries) \in Nat
        /\ nodes_table \in Seq(Node) /\ DenseNumbers
    BY <2>1 DEF IInv, TypeInv
  <2>3. fts_pointer[1] = 0
    <3>1. 1 \in DOMAIN entries /\ fts_pointer[1] >= 0
      BY <2>1 DEF ScannedDirectory
    <3>2. fts_pointer[1] =< 0
      BY <2>1, <3>1 DEF IInv, ReachInv, ScannedDirectory
    <3>3. fts_pointer[1] \in Int
      BY <2>2, <3>1 DEF Pointer, NULL, Freed
    <3>. QED  BY <3>1, <3>2, <3>3
  <2>4. ASSUME NEW i \in DOMAIN nodes_table, nodes_table[i].number # 0
        PROVE  \/ HasEntry(nodes_table[i].number)
               \/ Shared(nodes_table[i].number)
    <3>1. PICK n : n = nodes_table[i].number
      OBVIOUS
    <3>2. n \in 0..(Len(nodes_table) - 1) /\ n # 0
      BY <2>2, <2>4, <3>1 DEF DenseNumbers
    <3>3. PICK e \in DOMAIN entries :
              /\ fts_pointer[e] = n
              /\ \/ HasEntry(n) \/ Shared(n)
                 \/ ParentPointer(entries[e].parent) = NULL
      BY <2>1, <3>2 DEF IInv, ReachInv
    <3>4. ParentPointer(entries[e].parent) # NULL
      <4>1. entries[e].parent # Root
        BY <2>1, <2>3, <3>2, <3>3
      <4>2. entries[e] \in Source
        BY <2>2
      <4>3. PICK q : q = entries[e].parent
        OBVIOUS
      <4>4. /\ q \in Nat /\ q # Root /\ q < e
            /\ entries[q].item.type = "directory"
        BY <2>1, <4>1, <4>2, <4>3 DEF IInv, OrderInv, Source
      <4>5. q \in DOMAIN entries
        BY <2>2, <4>4 DEF Root
      <4>6. fts_pointer[q] # NULL
        BY <2>1, <4>4, <4>5
      <4>. QED  BY <4>3, <4>4, <4>6 DEF ParentPointer
    <3>. QED  BY <3>1, <3>3, <3>4
  <2>. QED  BY <2>3, <2>4
<1>. QED  BY <1>1, Invariance, PTL
=============================================================================
