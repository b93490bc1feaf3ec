---------------------------- MODULE DirReadProofs ----------------------------
(***************************************************************************)
(* Theorems about module DirRead, for directories with any entries, bit    *)
(* fields of any widths, buffers of any room, and any number of failures   *)
(* and of calls of seekdir.                                                *)
(***************************************************************************)
EXTENDS DirRead, SequenceTheorems, WellFoundedInduction, TLAPS

(***************************************************************************)
(* Natural numbers and steps                                               *)
(***************************************************************************)
\* A set of natural numbers that is not empty has a least one.
LEMMA LeastNat ==
    ASSUME NEW T, T \subseteq Nat, T # {}
    PROVE  \E least \in T : \A n \in T : least =< n
<1>. DEFINE Less == OpToRel(<, Nat)
<1>1. PICK least \in T : \A n \in T : ~ (<<n, least>> \in Less)
  BY NatLessThanWellFounded, WFMin
<1>2. ASSUME NEW n \in T
      PROVE  <<n, least>> \in Less <=> n < least
  BY DEF OpToRel
<1>. HIDE DEF Less
<1>3. ASSUME NEW n \in T
      PROVE  least =< n
  <2>1. ~(n < least)
    BY <1>1, <1>2
  <2>2. least \in Nat /\ n \in Nat
    OBVIOUS
  <2>. QED  BY <2>1, <2>2
<1>. QED  BY <1>3

\* What n steps make of a start, one after the other.
Iterates(f, start, step, n) ==
    /\ f[0] = start
    /\ \A k \in 1..n : f[k] = step[k][f[k - 1]]

LEMMA Iteration ==
    ASSUME NEW n \in Nat, NEW S, NEW start \in S,
           NEW step \in [1..n -> [S -> S]]
    PROVE  \E f \in [0..n -> S] : Iterates(f, start, step, n)
<1>. DEFINE Steps(f, m) == /\ f \in [0..m -> S]
                           /\ f[0] = start
                           /\ \A k \in 1..m : f[k] = step[k][f[k - 1]]
<1>1. ASSUME \E m \in 0..n : ~\E f : Steps(f, m)
      PROVE  FALSE
  <2>. HIDE DEF Steps
  <2>1. PICK least \in 0..n : /\ ~\E f : Steps(f, least)
                              /\ \A m \in 0..n : m < least => \E f : Steps(f, m)
    <3>1. PICK T : T = {m \in 0..n : ~\E f : Steps(f, m)}
      OBVIOUS
    <3>2. T \subseteq Nat
      BY <3>1
    <3>3. T # {}
      BY <1>1, <3>1, Zenon
    <3>4. PICK least \in T : \A m \in T : least =< m
      BY <3>2, <3>3, LeastNat
    <3>5. \A m \in 0..n : m < least => m \notin T
      BY <3>2, <3>4
    <3>. QED  BY <3>1, <3>4, <3>5
  <2>2. least # 0
    <3>1. Steps([k \in 0..0 |-> start], 0)
      BY DEF Steps
    <3>. QED  BY <2>1, <3>1
  <2>3. least - 1 \in 0..n /\ least - 1 < least
    BY <2>2
  <2>4. PICK f : Steps(f, least - 1)
    BY <2>1, <2>3
  <2>. USE DEF Steps
  <2>. DEFINE g == [k \in 0..least |-> IF k = least THEN step[least][f[least - 1]]
                                      ELSE f[k]]
  <2>5. step[least][f[least - 1]] \in S
    BY <2>1, <2>2, <2>4
  <2>6. Steps(g, least)
    <3>1. g \in [0..least -> S]
      BY <2>1, <2>2, <2>4, <2>5
    <3>2. g[0] = start
      BY <2>1, <2>2, <2>4
    <3>3. ASSUME NEW k \in 1..least
          PROVE  g[k] = step[k][g[k - 1]]
      BY <2>1, <2>2, <2>4
    <3>. QED  BY <3>1, <3>2, <3>3
  <2>. HIDE DEF Steps
  <2>. QED  BY <2>1, <2>6
<1>2. \E f : Steps(f, n)
  <2>. HIDE DEF Steps
  <2>. QED  BY <1>1
<1>. QED  BY <1>2 DEF Iterates

\* What grows from each index to the next grows from every one to a later one.
LEMMA Increasing ==
    ASSUME NEW n \in Nat, NEW f \in [1..n -> Int],
           \A i \in 1..n : i < n => f[i] < f[i + 1]
    PROVE  \A i, j \in 1..n : i < j => f[i] < f[j]
<1>. SUFFICES ASSUME NEW i \in 1..n
              PROVE  \A j \in 1..n : i < j => f[i] < f[j]
  OBVIOUS
<1>. PICK T : T = {j \in 1..n : i < j /\ ~(f[i] < f[j])}
  OBVIOUS
<1>1. ASSUME T # {}
      PROVE  FALSE
  <2>. T \subseteq Nat
    OBVIOUS
  <2>1. PICK least \in T : \A m \in T : least =< m
    BY <1>1, LeastNat
  <2>2. least - 1 \in 1..n /\ i =< least - 1 /\ least - 1 \notin T
    BY <2>1
  <2>3. f[i] =< f[least - 1]
    BY <2>2
  <2>4. f[least - 1] < f[least]
    BY <2>1, <2>2
  <2>. QED  BY <2>1, <2>2, <2>3, <2>4
<1>. QED  BY <1>1

\* What starts in a set and never leaves it in one step stays in it.
LEMMA StaysIn ==
    ASSUME NEW n \in Nat, NEW S, NEW f, f[0] \in S,
           \A k \in 1..n : f[k - 1] \in S => f[k] \in S
    PROVE  \A k \in 0..n : f[k] \in S
<1>. PICK T : T = {k \in 0..n : f[k] \notin S}
  OBVIOUS
<1>1. ASSUME T # {}
      PROVE  FALSE
  <2>. T \subseteq Nat
    OBVIOUS
  <2>1. PICK least \in T : \A m \in T : least =< m
    BY <1>1, LeastNat
  <2>2. least - 1 \in 0..n /\ least \in 1..n /\ least - 1 \notin T
    BY <2>1
  <2>. QED  BY <2>1, <2>2
<1>. QED  BY <1>1

Item == [name : Seq(1..255), number : Nat]

\* A directory as mkfs stores it.
Stored ==
    /\ entries \in Seq([name : Names, number : Nat])
    /\ header \in Nat \ {0}
    /\ width \in Nat \ {0}
    /\ \A d, e \in DOMAIN entries :
          d < e => fts_compare(entries[d].name, entries[e].name)

(***************************************************************************)
(* Where the entries are                                                   *)
(***************************************************************************)
LEMMA EntryFacts ==
    ASSUME Stored
    PROVE  /\ Len(entries) \in Nat
           /\ DOMAIN entries = 1..Len(entries)
           /\ entries \in Seq(Item)
           /\ \A e \in 1..Len(entries) :
                 /\ entries[e] \in Item
                 /\ entries[e].name \in Names
                 /\ entries[e].name \in Seq(1..255)
                 /\ Len(entries[e].name) \in Nat \ {0}
                 /\ entries[e].number \in Nat
                 /\ EntrySize(e) \in Nat \ {0}
<1>1. Names \subseteq Seq(1..255) /\ <<>> \notin Names
  BY DirAssumption
<1>2. entries \in Seq([name : Names, number : Nat]) /\ width \in Nat \ {0}
  BY DEF Stored
<1>3. Len(entries) \in Nat /\ DOMAIN entries = 1..Len(entries)
  BY <1>2, LenProperties
<1>4. [name : Names, number : Nat] \subseteq Item
  BY <1>1 DEF Item
<1>5. entries \in Seq(Item)
  BY <1>2, <1>4, SeqMonotonic
<1>6. ASSUME NEW e \in 1..Len(entries)
      PROVE  /\ entries[e] \in Item
             /\ entries[e].name \in Names
             /\ entries[e].name \in Seq(1..255)
             /\ Len(entries[e].name) \in Nat \ {0}
             /\ entries[e].number \in Nat
             /\ EntrySize(e) \in Nat \ {0}
  <2>1. entries[e] \in [name : Names, number : Nat]
    BY <1>2, ElementOfSeq
  <2>2. entries[e].name \in Names /\ entries[e].number \in Nat
    BY <2>1
  <2>3. entries[e].name \in Seq(1..255) /\ entries[e].name # <<>>
    BY <1>1, <2>2
  <2>4. Len(entries[e].name) \in Nat \ {0}
    BY <2>3, EmptySeq, Zenon
  <2>5. EntrySize(e) \in Nat \ {0}
    BY <1>2, <2>4 DEF EntrySize
  <2>. QED  BY <1>4, <2>1, <2>2, <2>3, <2>4, <2>5
<1>. QED  BY <1>3, <1>5, <1>6

LEMMA OffsetEquations ==
    ASSUME Stored
    PROVE  /\ Offset[1] = header
           /\ \A e \in 1..Len(entries) : Offset[e + 1] = Offset[e] + EntrySize(e)
           /\ \A e \in 1..(Len(entries) + 1) : Offset[e] \in Nat
<1>1. PICK n : n = Len(entries) /\ n \in Nat
  BY EntryFacts
<1>2. header \in Nat
  BY DEF Stored
<1>3. \A e \in 1..n : EntrySize(e) \in Nat
  BY <1>1, EntryFacts
<1>4. PICK step : step = [e \in 1..n |-> [x \in Nat |-> x + EntrySize(e)]]
  OBVIOUS
<1>5. step \in [1..n -> [Nat -> Nat]]
  BY <1>3, <1>4
<1>6. PICK f \in [0..n -> Nat] : Iterates(f, header, step, n)
  BY <1>1, <1>2, <1>5, Iteration
<1>7. PICK g : g = [e \in 1..(n + 1) |-> f[e - 1]]
  OBVIOUS
<1>8. \A e \in 1..(n + 1) : g[e] \in Nat
  BY <1>1, <1>6, <1>7
<1>9. \A e \in 1..n : f[e] = f[e - 1] + EntrySize(e)
  <2>1. \A e \in 1..n : f[e - 1] \in Nat
    <3>1. \A e \in 1..n : e - 1 \in 0..n
      BY <1>1
    <3>. QED  BY <1>6, <3>1
  <2>2. \A e \in 1..n : \A x \in Nat : step[e][x] = x + EntrySize(e)
    BY <1>4
  <2>. QED  BY <1>6, <2>1, <2>2 DEF Iterates
<1>10. ASSUME NEW e \in 1..(n + 1)
       PROVE  g[e] = IF e = 1 THEN header ELSE g[e - 1] + EntrySize(e - 1)
  <2>1. CASE e = 1
    BY <1>1, <1>6, <1>7, <2>1 DEF Iterates
  <2>2. CASE e # 1
    <3>1. e - 1 \in 1..n /\ e - 1 \in 1..(n + 1)
      BY <1>1, <2>2
    <3>2. g[e] = f[e - 1] /\ g[e - 1] = f[(e - 1) - 1]
      BY <1>7, <3>1
    <3>3. f[e - 1] = f[(e - 1) - 1] + EntrySize(e - 1)
      BY <1>9, <3>1
    <3>. QED  BY <2>2, <3>2, <3>3
  <2>. QED  BY <2>1, <2>2
<1>11. g = [e \in 1..Len(entries) + 1 |->
               IF e = 1 THEN header ELSE g[e - 1] + EntrySize(e - 1)]
  BY <1>1, <1>7, <1>10
<1>12. Offset = [e \in 1..Len(entries) + 1 |->
                    IF e = 1 THEN header ELSE Offset[e - 1] + EntrySize(e - 1)]
  BY <1>11, Zenon DEF Offset
<1>13. ASSUME NEW e \in 1..n
       PROVE  Offset[e + 1] = Offset[e] + EntrySize(e)
  <2>1. e + 1 \in 1..Len(entries) + 1 /\ e + 1 # 1 /\ (e + 1) - 1 = e
    BY <1>1
  <2>. QED  BY <1>12, <2>1
<1>14. Offset[1] = header
  <2>1. 1 \in 1..Len(entries) + 1
    BY <1>1
  <2>. QED  BY <1>12, <2>1
<1>. DEFINE Bad == {e \in 1..(n + 1) : Offset[e] \notin Nat}
<1>15. ASSUME \E e \in 1..(n + 1) : Offset[e] \notin Nat
       PROVE  FALSE
  <2>1. Bad \subseteq Nat /\ Bad # {}
    BY <1>15
  <2>. HIDE DEF Bad
  <2>2. PICK e \in Bad : \A d \in Bad : e =< d
    BY <2>1, LeastNat
  <2>. USE DEF Bad
  <2>3. e # 1
    BY <1>2, <1>14
  <2>4. e - 1 \in 1..n /\ e - 1 \notin Bad
    BY <1>1, <2>2, <2>3
  <2>5. Offset[e - 1] \in Nat
    BY <1>1, <2>4
  <2>6. Offset[e] = Offset[e - 1] + EntrySize(e - 1)
    BY <1>13, <2>4
  <2>. QED  BY <1>3, <2>4, <2>5, <2>6
<1>. QED  BY <1>1, <1>13, <1>14, <1>15

\* Every item's position is after those of the items before it.
LEMMA PositionsGrow ==
    ASSUME Stored
    PROVE  /\ \A i \in 1..(Len(entries) + 3) : PositionOf(i) \in Nat
           /\ \A i, j \in 1..(Len(entries) + 3) :
                 i < j => PositionOf(i) < PositionOf(j)
<1>1. PICK n : n = Len(entries) /\ n \in Nat
  BY EntryFacts
<1>2. /\ Offset[1] = header /\ header \in Nat \ {0}
      /\ \A e \in 1..n : Offset[e + 1] = Offset[e] + EntrySize(e)
      /\ \A e \in 1..(n + 1) : Offset[e] \in Nat
      /\ \A e \in 1..n : EntrySize(e) \in Nat \ {0}
  BY <1>1, EntryFacts, OffsetEquations DEF Stored
<1>3. ASSUME NEW i \in 1..(n + 3)
      PROVE  PositionOf(i) \in Nat
  <2>1. CASE i =< 2
    BY <1>1, <2>1 DEF PositionOf
  <2>2. CASE ~(i =< 2)
    <3>1. i - 2 \in 1..(n + 1)
      BY <1>1, <2>2
    <3>2. Offset[i - 2] \in Nat
      BY <1>2, <3>1
    <3>. QED  BY <2>2, <3>2 DEF PositionOf
  <2>. QED  BY <2>1, <2>2
<1>4. ASSUME NEW i \in 1..(n + 3), i < n + 3
      PROVE  PositionOf(i) < PositionOf(i + 1)
  <2>1. CASE i =< 1
    BY <1>1, <2>1 DEF PositionOf
  <2>2. CASE i = 2
    <3>1. PositionOf(i + 1) = 3 + header /\ PositionOf(i) = 1
      BY <1>2, <2>2 DEF PositionOf
    <3>. QED  BY <1>2, <3>1
  <2>3. CASE i > 2
    <3>1. i - 2 \in 1..n /\ (i + 1) - 2 = (i - 2) + 1
      BY <1>1, <1>4, <2>3
    <3>2. PositionOf(i) = 3 + Offset[i - 2]
      BY <1>1, <2>3 DEF PositionOf
    <3>3. PositionOf(i + 1) = 3 + Offset[(i - 2) + 1]
      BY <1>1, <2>3, <3>1 DEF PositionOf
    <3>4. Offset[(i - 2) + 1] = Offset[i - 2] + EntrySize(i - 2)
      BY <1>2, <3>1
    <3>5. Offset[i - 2] \in Nat /\ EntrySize(i - 2) \in Nat \ {0}
      BY <1>1, <1>2, <3>1
    <3>. QED  BY <3>2, <3>3, <3>4, <3>5
  <2>. QED  BY <1>1, <2>1, <2>2, <2>3
<1>5. PICK f : f = [i \in 1..(n + 3) |-> PositionOf(i)]
  OBVIOUS
<1>6. n + 3 \in Nat /\ f \in [1..(n + 3) -> Int]
  BY <1>1, <1>3, <1>5
<1>7. \A i \in 1..(n + 3) : i < n + 3 => f[i] < f[i + 1]
  <2>1. \A i \in 1..(n + 3) : i < n + 3 => i + 1 \in 1..(n + 3)
    BY <1>1
  <2>. QED  BY <1>4, <1>5, <2>1
<1>8. \A i, j \in 1..(n + 3) : i < j => f[i] < f[j]
  BY <1>6, <1>7, Increasing
<1>. QED  BY <1>1, <1>3, <1>5, <1>8

(***************************************************************************)
(* Looking a name up                                                       *)
(***************************************************************************)
\* A name that comes first begins with no greater a byte.
LEMMA FirstBytes ==
    ASSUME NEW a \in Seq(1..255), NEW b \in Seq(1..255),
           Len(a) # 0, Len(b) # 0, fts_compare(a, b)
    PROVE  a[1] \in 1..255 /\ b[1] \in 1..255 /\ a[1] =< b[1]
<1>1. Len(a) \in Nat \ {0} /\ Len(b) \in Nat \ {0}
  BY LenProperties
<1>2. a[1] \in 1..255 /\ b[1] \in 1..255
  <2>1. 1 \in 1..Len(a) /\ 1 \in 1..Len(b)
    BY <1>1
  <2>. QED  BY <2>1, ElementOfSeq
<1>3. PICK k \in 1..Len(b) : /\ \A i \in 1..k - 1 : a[i] = b[i]
                             /\ k =< Len(a) => a[k] < b[k]
  BY DEF fts_compare
<1>4. \A x, y \in 1..255 : x < y \/ x = y => x =< y
  OBVIOUS
<1>5. CASE k = 1
  <2>1. a[1] < b[1]
    BY <1>1, <1>3, <1>5
  <2>. QED  BY <1>2, <1>4, <2>1, Zenon
<1>6. CASE k # 1
  <2>1. 1 \in 1..k - 1
    BY <1>1, <1>3, <1>6
  <2>2. a[1] = b[1]
    BY <1>3, <2>1
  <2>. QED  BY <1>2, <1>4, <2>2, Zenon
<1>. QED  BY <1>5, <1>6

LEMMA LookupAnswers ==
    ASSUME Stored, NEW name \in Names
    PROVE  \/ \E e \in DOMAIN entries :
                 entries[e].name = name /\ LookupResult(name) = entries[e].number
           \/ /\ LookupResult(name) = ENOENT
              /\ \A e \in DOMAIN entries : entries[e].name # name
<1>. DEFINE Stops == {e \in DOMAIN entries :
                         BreaksAt(name, e) \/ entries[e].name = name}
<1>1. CASE Stops = {}
  <2>1. LookupResult(name) = ENOENT
    BY <1>1 DEF LookupResult
  <2>. QED  BY <1>1, <2>1
<1>2. CASE Stops # {}
  <2>1. DOMAIN entries \subseteq Nat
    BY EntryFacts
  <2>2. Stops \subseteq Nat
    BY <2>1
  <2>3. PICK least \in Stops : \A y \in Stops : least =< y
    <3>. HIDE DEF Stops
    <3>. QED  BY <1>2, <2>2, LeastNat
  <2>4. PICK e : e = CHOOSE x \in Stops : \A y \in Stops : x =< y
    OBVIOUS
  <2>5. e \in Stops /\ \A y \in Stops : e =< y
    <3>. HIDE DEF Stops
    <3>. QED  BY <2>3, <2>4
  <2>6. LookupResult(name) = IF BreaksAt(name, e) THEN ENOENT
                             ELSE entries[e].number
    BY <1>2, <2>4 DEF LookupResult
  <2>7. e \in DOMAIN entries
    BY <2>5
  <2>8. CASE ~BreaksAt(name, e)
    BY <2>5, <2>6, <2>8
  <2>9. CASE BreaksAt(name, e)
    <3>1. ASSUME NEW d \in DOMAIN entries, entries[d].name = name
          PROVE  FALSE
      <4>1. e =< d /\ e \in Nat /\ d \in Nat
        BY <2>1, <2>5, <3>1
      <4>2. entries[e].name \in Seq(1..255) /\ Len(entries[e].name) # 0
            /\ name \in Seq(1..255) /\ Len(name) # 0
        BY <2>7, <3>1, EntryFacts
      <4>3. entries[e].name[1] =< name[1] /\ name[1] \in 1..255
            /\ entries[e].name[1] \in 1..255
        <5>1. CASE e = d
          <6>1. entries[e].name = name
            BY <3>1, <5>1
          <6>2. 1 \in 1..Len(name)
            BY <4>2, LenProperties
          <6>3. name[1] \in 1..255
            BY <4>2, <6>2, ElementOfSeq
          <6>. QED  BY <6>1, <6>3
        <5>2. CASE e # d
          <6>1. e < d
            BY <4>1, <5>2
          <6>2. fts_compare(entries[e].name, name)
            BY <2>7, <3>1, <6>1 DEF Stored
          <6>3. PICK a \in Seq(1..255), b \in Seq(1..255) :
                   a = entries[e].name /\ b = name
            BY <4>2
          <6>4. Len(a) # 0 /\ Len(b) # 0 /\ fts_compare(a, b)
            BY <4>2, <6>2, <6>3
          <6>5. a[1] \in 1..255 /\ b[1] \in 1..255 /\ a[1] =< b[1]
            BY <6>4, FirstBytes
          <6>. QED  BY <6>3, <6>5
        <5>. QED  BY <5>1, <5>2
      <4>4. \A byte, first \in 1..255 :
               byte =< first => ~(first < Char(byte))
        BY DEF Char
      <4>5. name[1] < Char(entries[e].name[1])
        BY <2>9 DEF BreaksAt
      <4>. QED  BY <4>3, <4>4, <4>5
    <3>. QED  BY <2>6, <2>9, <3>1
  <2>. QED  BY <2>8, <2>9
<1>. QED  BY <1>1, <1>2

(***************************************************************************)
(* Reading on from a position                                              *)
(***************************************************************************)
Call == [pos : Nat, room : Nat, batch : Seq(Item), stop : BOOLEAN]

\* The call took the items from the i-th up to some j-th, at which it is.
ReadsFrom(i, c) ==
    \E j \in i..(Len(entries) + 3) :
       c.batch = SubSeq(Listing, i, j - 1) /\ c.pos = PositionOf(j)

LEMMA ListingFacts ==
    ASSUME Stored
    PROVE  /\ Listing \in Seq(Item)
           /\ Len(Listing) = Len(entries) + 2
           /\ Listing[1] = Dots[1] /\ Listing[2] = Dots[2]
           /\ \A e \in 1..Len(entries) : Listing[e + 2] = entries[e]
<1>1. /\ Dots \in Seq(Item) /\ Len(Dots) = 2
      /\ Dots[1] \in Item /\ Dots[2] \in Item
  <2>1. <<46>> \in Seq(1..255) /\ <<46, 46>> \in Seq(1..255)
    OBVIOUS
  <2>2. [name |-> <<46>>, number |-> 0] \in Item
        /\ [name |-> <<46, 46>>, number |-> 0] \in Item
    BY <2>1 DEF Item
  <2>. QED  BY <2>2 DEF Dots
<1>2. entries \in Seq(Item) /\ Len(entries) \in Nat
  BY EntryFacts
<1>3. /\ Dots \o entries \in Seq(Item)
      /\ Len(Dots \o entries) = Len(Dots) + Len(entries)
      /\ \A i \in 1..(Len(Dots) + Len(entries)) :
            (Dots \o entries)[i] = IF i <= Len(Dots) THEN Dots[i]
                                   ELSE entries[i - Len(Dots)]
  BY <1>1, <1>2, ConcatProperties
<1>4. /\ 1 \in 1..(2 + Len(entries)) /\ 2 \in 1..(2 + Len(entries))
      /\ \A e \in 1..Len(entries) :
            e + 2 \in 1..(2 + Len(entries)) /\ ~(e + 2 =< 2) /\ (e + 2) - 2 = e
  BY <1>2
<1>. QED  BY <1>1, <1>2, <1>3, <1>4 DEF Listing

\* filldir takes the item and the position moves on, or it refuses it.
Takes(c, d, item, length) ==
    /\ d \in Call
    /\ \/ d.stop /\ d.pos = c.pos /\ d.batch = c.batch
       \/ /\ ~d.stop
          /\ d.pos = c.pos + length
          /\ d.batch = Append(c.batch, item)

LEMMA FilldirTakes ==
    ASSUME NEW c \in Call, NEW item \in Item, NEW length \in Nat
    PROVE  Takes(c, Filldir(c, item, length), item, length)
<1>. PICK d : d = Filldir(c, item, length)
  OBVIOUS
<1>1. /\ c.pos \in Nat /\ c.room \in Nat /\ c.batch \in Seq(Item)
      /\ c.stop \in BOOLEAN
      /\ c = [pos |-> c.pos, room |-> c.room, batch |-> c.batch, stop |-> c.stop]
  BY DEF Call
<1>2. CASE c.stop
  BY <1>1, <1>2 DEF Filldir, Takes
<1>3. CASE ~c.stop /\ c.room = 0
  <2>1. d = [pos |-> c.pos, room |-> c.room, batch |-> c.batch, stop |-> TRUE]
    BY <1>1, <1>3 DEF Filldir
  <2>. QED  BY <1>1, <2>1 DEF Call, Takes
<1>4. CASE ~c.stop /\ c.room # 0
  <2>1. d = [pos |-> c.pos + length, room |-> c.room - 1,
             batch |-> Append(c.batch, item), stop |-> c.stop]
    BY <1>1, <1>4 DEF Filldir
  <2>2. c.pos + length \in Nat /\ c.room - 1 \in Nat
    BY <1>1, <1>4
  <2>3. Append(c.batch, item) \in Seq(Item)
    BY <1>1, AppendProperties
  <2>. QED  BY <1>1, <1>4, <2>1, <2>2, <2>3 DEF Call, Takes
<1>. QED  BY <1>2, <1>3, <1>4

LEMMA AppendNext ==
    ASSUME Stored, NEW i \in 1..(Len(entries) + 3), NEW j \in i..(Len(entries) + 2)
    PROVE  Append(SubSeq(Listing, i, j - 1), Listing[j]) = SubSeq(Listing, i, j)
<1>1. PICK list : list = Listing
  OBVIOUS
<1>2. list \in Seq(Item) /\ Len(list) = Len(entries) + 2 /\ Len(entries) \in Nat
  BY <1>1, ListingFacts, EntryFacts
<1>3. i \in 1..Len(list) /\ j \in i..Len(list) /\ j \in 1..Len(list)
      /\ i \in Int /\ j - 1 \in Int
  BY <1>2
<1>4. SubSeq(list, i, j) = SubSeq(list, i, j - 1) \o <<list[j]>>
  BY <1>2, <1>3, SubSeqRecursiveSecond
<1>5. list[j] \in Item
  BY <1>2, <1>3, ElementOfSeq
<1>6. SubSeq(list, i, j - 1) \in Seq(Item)
  <2>1. \A k \in i..(j - 1) : k \in 1..Len(list)
    BY <1>3
  <2>2. \A k \in i..(j - 1) : list[k] \in Item
    BY <1>2, <2>1, ElementOfSeq
  <2>. QED  BY <1>3, <2>2, SubSeqProperties
<1>7. Append(SubSeq(list, i, j - 1), list[j])
         = SubSeq(list, i, j - 1) \o <<list[j]>>
  BY <1>5, <1>6, AppendIsConcat
<1>. QED  BY <1>1, <1>4, <1>7

\* One turn of the loop reads on from the item the call is at.
LEMMA EmitEntryReads ==
    ASSUME Stored, NEW i \in 1..(Len(entries) + 3), NEW e \in 1..Len(entries),
           NEW c \in Call, ReadsFrom(i, c)
    PROVE  EmitEntry(c, e) \in Call /\ ReadsFrom(i, EmitEntry(c, e))
<1>1. PICK j \in i..(Len(entries) + 3) :
         c.batch = SubSeq(Listing, i, j - 1) /\ c.pos = PositionOf(j)
  BY DEF ReadsFrom
<1>2. CASE c.pos # Offset[e] + 3
  BY <1>2 DEF EmitEntry
<1>3. CASE c.pos = Offset[e] + 3
  <2>1. /\ Len(entries) \in Nat /\ entries[e] \in Item
        /\ EntrySize(e) \in Nat /\ Listing[e + 2] = entries[e]
        /\ Offset[e] \in Nat /\ Offset[e + 1] = Offset[e] + EntrySize(e)
    BY EntryFacts, ListingFacts, OffsetEquations
  <2>2. PositionOf(e + 2) = Offset[e] + 3
    BY <2>1 DEF PositionOf
  <2>3. PositionOf(e + 3) = (Offset[e] + 3) + EntrySize(e)
    BY <2>1 DEF PositionOf
  <2>4. j = e + 2
    <3>1. /\ j \in 1..(Len(entries) + 3) /\ e + 2 \in 1..(Len(entries) + 3)
          /\ PositionOf(j) = PositionOf(e + 2)
      BY <1>1, <1>3, <2>1, <2>2
    <3>2. /\ PositionOf(j) \in Nat
          /\ j < e + 2 => PositionOf(j) < PositionOf(e + 2)
          /\ e + 2 < j => PositionOf(e + 2) < PositionOf(j)
      BY <3>1, PositionsGrow
    <3>. QED  BY <3>1, <3>2
  <2>5. PICK d : d = Filldir(c, entries[e], EntrySize(e))
    OBVIOUS
  <2>6. EmitEntry(c, e) = d
    BY <1>3, <2>5 DEF EmitEntry
  <2>7. /\ d \in Call
        /\ \/ d.pos = c.pos /\ d.batch = c.batch
           \/ /\ d.pos = c.pos + EntrySize(e)
              /\ d.batch = Append(c.batch, entries[e])
    <3>1. Takes(c, d, entries[e], EntrySize(e))
      BY <2>1, <2>5, FilldirTakes
    <3>. QED  BY <3>1 DEF Takes
  <2>8. CASE d.pos = c.pos /\ d.batch = c.batch
    BY <1>1, <2>6, <2>7, <2>8 DEF ReadsFrom
  <2>9. CASE d.pos = c.pos + EntrySize(e) /\ d.batch = Append(c.batch, entries[e])
    <3>1. j \in i..(Len(entries) + 2) /\ j + 1 \in i..(Len(entries) + 3)
          /\ (j + 1) - 1 = j /\ j + 1 = e + 3
      BY <2>1, <2>4
    <3>2. d.batch = SubSeq(Listing, i, (j + 1) - 1)
      BY <1>1, <2>1, <2>4, <2>9, <3>1, AppendNext
    <3>3. d.pos = PositionOf(j + 1)
      BY <1>3, <2>3, <2>9, <3>1
    <3>. QED  BY <2>6, <2>7, <3>1, <3>2, <3>3 DEF ReadsFrom
  <2>. QED  BY <2>7, <2>8, <2>9
<1>. QED  BY <1>2, <1>3

\* From ".." on: the entries follow the header.
LEMMA SecondDot ==
    ASSUME Stored, NEW i \in 1..2, NEW c \in Call, ~c.stop, c.pos = 1,
           c.batch = SubSeq(Listing, i, 1),
           NEW d, d = SkipHeader(Filldir(c, Dots[2], 2))
    PROVE  d \in Call /\ ReadsFrom(i, d)
<1>1. /\ Len(entries) \in Nat /\ header \in Nat \ {0} /\ Listing[2] = Dots[2]
      /\ Dots[2] \in Item
  <2>1. <<46, 46>> \in Seq(1..255)
    OBVIOUS
  <2>2. Dots[2] \in Item
    BY <2>1 DEF Dots, Item
  <2>. QED  BY <2>2, EntryFacts, ListingFacts DEF Stored
<1>2. PICK taken : taken = Filldir(c, Dots[2], 2)
  OBVIOUS
<1>3. /\ taken \in Call
      /\ \/ taken.stop /\ taken.pos = 1 /\ taken.batch = c.batch
         \/ /\ ~taken.stop
            /\ taken.pos = 3
            /\ taken.batch = Append(c.batch, Dots[2])
  <2>1. /\ taken \in Call
        /\ \/ taken.stop /\ taken.pos = c.pos /\ taken.batch = c.batch
           \/ /\ ~taken.stop
              /\ taken.pos = c.pos + 2
              /\ taken.batch = Append(c.batch, Dots[2])
    <3>1. Takes(c, taken, Dots[2], 2)
      BY <1>1, <1>2, FilldirTakes
    <3>. QED  BY <3>1 DEF Takes
  <2>2. c.pos = 1 /\ c.pos + 2 = 3
    OBVIOUS
  <2>. QED  BY <2>1, <2>2
<1>4. CASE taken.stop /\ taken.pos = 1 /\ taken.batch = c.batch
  <2>1. d = taken
    BY <1>2, <1>4 DEF SkipHeader
  <2>2. PositionOf(2) = 1 /\ 2 \in i..(Len(entries) + 3) /\ 2 - 1 = 1
    BY <1>1 DEF PositionOf
  <2>. QED  BY <1>3, <1>4, <2>1, <2>2 DEF ReadsFrom
<1>5. CASE ~taken.stop /\ taken.pos = 3 /\ taken.batch = Append(c.batch, Dots[2])
  <2>1. d = [taken EXCEPT !.pos = @ + header]
    BY <1>1, <1>2, <1>5 DEF SkipHeader
  <2>2. d \in Call /\ d.pos = 3 + header /\ d.batch = taken.batch
    <3>1. /\ taken.pos \in Nat /\ taken.room \in Nat
          /\ taken.batch \in Seq(Item) /\ taken.stop \in BOOLEAN
          /\ taken = [pos |-> taken.pos, room |-> taken.room,
                      batch |-> taken.batch, stop |-> taken.stop]
      BY <1>3 DEF Call
    <3>2. d = [pos |-> taken.pos + header, room |-> taken.room,
               batch |-> taken.batch, stop |-> taken.stop]
      BY <2>1, <3>1
    <3>3. taken.pos + header \in Nat
      BY <1>1, <3>1
    <3>4. d \in Call
      BY <3>1, <3>2, <3>3 DEF Call
    <3>5. d.pos = taken.pos + header /\ d.batch = taken.batch
      BY <3>2
    <3>. QED  BY <1>5, <3>4, <3>5
  <2>3. PositionOf(3) = 3 + header
    BY OffsetEquations DEF PositionOf
  <2>4. 3 \in i..(Len(entries) + 3) /\ 3 - 1 = 2
    BY <1>1
  <2>5. d.batch = SubSeq(Listing, i, 2)
    <3>1. i \in 1..(Len(entries) + 3) /\ 2 \in i..(Len(entries) + 2)
          /\ 2 - 1 = 1
      BY <1>1
    <3>2. Append(SubSeq(Listing, i, 2 - 1), Listing[2]) = SubSeq(Listing, i, 2)
      BY <3>1, AppendNext
    <3>. QED  BY <1>1, <1>5, <2>2, <3>1, <3>2
  <2>. QED  BY <2>2, <2>3, <2>4, <2>5 DEF ReadsFrom
<1>. QED  BY <1>3, <1>4, <1>5

LEMMA LoopStarts ==
    ASSUME Stored, NEW i \in 1..(Len(entries) + 3), pos = PositionOf(i),
           NEW room \in Nat,
           NEW d, d = SkipHeader(EmitDots([pos |-> pos, room |-> room,
                                           batch |-> <<>>, stop |-> FALSE]))
    PROVE  d \in Call /\ ReadsFrom(i, d)
<1>1. PICK c : c = [pos |-> pos, room |-> room, batch |-> <<>>, stop |-> FALSE]
  OBVIOUS
<1>2. pos \in Nat
  BY PositionsGrow
<1>3. c \in Call /\ c.pos = pos /\ c.batch = <<>> /\ ~c.stop
  <2>1. <<>> \in Seq(Item)
    BY EmptySeq
  <2>. QED  BY <1>1, <1>2, <2>1 DEF Call
<1>4. Len(entries) \in Nat /\ header \in Nat \ {0}
  BY EntryFacts DEF Stored
<1>5. ASSUME NEW k \in Int
      PROVE  SubSeq(Listing, k, k - 1) = <<>>
  BY SubSeqEmpty
<1>6. CASE i = 1
  <2>1. pos = 0
    BY <1>6 DEF PositionOf
  <2>2. Dots[1] \in Item
    <3>1. <<46>> \in Seq(1..255)
      OBVIOUS
    <3>. QED  BY <3>1 DEF Dots, Item
  <2>3. PICK dot : dot = Filldir(c, Dots[1], 1)
    OBVIOUS
  <2>4. /\ dot \in Call
        /\ \/ dot.stop /\ dot.pos = 0 /\ dot.batch = <<>>
           \/ /\ ~dot.stop
              /\ dot.pos = 1
              /\ dot.batch = Append(<<>>, Dots[1])
    <3>1. Takes(c, dot, Dots[1], 1)
      BY <1>3, <2>2, <2>3, FilldirTakes
    <3>. QED  BY <1>3, <2>1, <3>1 DEF Takes
  <2>5. EmitDots(c) = IF dot.pos \in 1..2 THEN Filldir(dot, Dots[2], 2) ELSE dot
    BY <1>3, <2>1, <2>3 DEF EmitDots
  <2>6. CASE dot.stop /\ dot.pos = 0 /\ dot.batch = <<>>
    <3>1. d = dot
      BY <1>1, <2>5, <2>6 DEF SkipHeader
    <3>2. 1 \in i..(Len(entries) + 3)
      BY <1>4, <1>6
    <3>3. d.batch = SubSeq(Listing, i, 1 - 1)
      <4>1. SubSeq(Listing, 1, 1 - 1) = <<>>
        BY <1>5
      <4>. QED  BY <1>6, <2>6, <3>1, <4>1
    <3>4. d.pos = PositionOf(1)
      BY <1>6, <2>1, <2>6, <3>1
    <3>. QED  BY <2>4, <3>1, <3>2, <3>3, <3>4 DEF ReadsFrom
  <2>7. CASE ~dot.stop /\ dot.pos = 1 /\ dot.batch = Append(<<>>, Dots[1])
    <3>1. d = SkipHeader(Filldir(dot, Dots[2], 2))
      BY <1>1, <2>5, <2>7
    <3>2. dot.batch = SubSeq(Listing, i, 1)
      <4>1. 1 \in 1..(Len(entries) + 3) /\ 1 \in 1..(Len(entries) + 2)
        BY <1>4
      <4>2. Append(SubSeq(Listing, 1, 1 - 1), Listing[1]) = SubSeq(Listing, 1, 1)
        BY <4>1, AppendNext
      <4>3. SubSeq(Listing, 1, 1 - 1) = <<>>
        BY <1>5
      <4>. QED  BY <1>6, <2>7, <4>2, <4>3, ListingFacts
    <3>. QED  BY <1>6, <2>4, <2>7, <3>1, <3>2, SecondDot
  <2>. QED  BY <2>4, <2>6, <2>7
<1>7. CASE i = 2
  <2>1. pos = 1
    BY <1>7 DEF PositionOf
  <2>2. EmitDots(c) = Filldir(c, Dots[2], 2)
    BY <1>3, <2>1 DEF EmitDots
  <2>3. c.batch = SubSeq(Listing, i, 1)
    <3>1. SubSeq(Listing, 2, 2 - 1) = <<>> /\ 2 - 1 = 1
      BY <1>5
    <3>. QED  BY <1>3, <1>7, <3>1
  <2>4. d = SkipHeader(Filldir(c, Dots[2], 2))
    BY <1>1, <2>2
  <2>5. i \in 1..2 /\ c.pos = 1
    BY <1>3, <1>7, <2>1
  <2>. QED  BY <1>3, <2>3, <2>4, <2>5, SecondDot
<1>8. CASE i > 2
  <2>1. pos >= 3 + header
    <3>1. PositionOf(3) = 3 + header
      BY OffsetEquations DEF PositionOf
    <3>2. 3 \in 1..(Len(entries) + 3) /\ (i = 3 \/ 3 < i)
      BY <1>4, <1>8
    <3>3. i = 3 \/ PositionOf(3) < PositionOf(i)
      BY <3>2, PositionsGrow
    <3>. QED  BY <1>2, <1>4, <3>1, <3>3
  <2>2. EmitDots(c) = c
    BY <1>2, <1>3, <1>4, <2>1 DEF EmitDots
  <2>3. d = c
    BY <1>1, <1>2, <1>3, <1>4, <2>1, <2>2 DEF SkipHeader
  <2>4. i \in i..(Len(entries) + 3) /\ i \in Int
    BY <1>4
  <2>5. d.batch = SubSeq(Listing, i, i - 1)
    BY <1>3, <1>5, <2>3, <2>4
  <2>. QED  BY <1>3, <2>3, <2>4, <2>5 DEF ReadsFrom
<1>. QED  BY <1>4, <1>6, <1>7, <1>8

\* A whole call.
LEMMA EmittedReads ==
    ASSUME Stored, NEW i \in 1..(Len(entries) + 3), pos = PositionOf(i),
           NEW room \in Nat
    PROVE  Emitted(room) \in Call /\ ReadsFrom(i, Emitted(room))
<1>1. PICK n : n = Len(entries) /\ n \in Nat
  BY EntryFacts
<1>2. PICK S : S = {c \in Call : ReadsFrom(i, c)}
  OBVIOUS
<1>3. PICK start : start = SkipHeader(EmitDots([pos |-> pos, room |-> room,
                                         batch |-> <<>>, stop |-> FALSE]))
  OBVIOUS
<1>4. start \in S
  BY <1>2, <1>3, LoopStarts
<1>5. \A e \in 1..n : \A c \in S : EmitEntry(c, e) \in S
  BY <1>1, <1>2, EmitEntryReads
<1>6. PICK step : step = [e \in 1..n |-> [c \in S |-> EmitEntry(c, e)]]
  OBVIOUS
<1>7. step \in [1..n -> [S -> S]]
  BY <1>5, <1>6
<1>8. PICK f \in [0..n -> S] : Iterates(f, start, step, n)
  BY <1>1, <1>4, <1>7, Iteration
<1>9. \A e \in 1..n : f[e] = EmitEntry(f[e - 1], e)
  <2>1. \A e \in 1..n : f[e - 1] \in S
    <3>1. \A e \in 1..n : e - 1 \in 0..n
      BY <1>1
    <3>. QED  BY <1>8, <3>1
  <2>2. \A e \in 1..n : \A c \in S : step[e][c] = EmitEntry(c, e)
    BY <1>6
  <2>. QED  BY <1>8, <2>1, <2>2 DEF Iterates
<1>10. \A e \in 0..n : f[e] = IF e = 0 THEN start ELSE EmitEntry(f[e - 1], e)
  <2>1. \A e \in 0..n : e = 0 \/ e \in 1..n
    BY <1>1
  <2>. QED  BY <1>8, <1>9, <2>1 DEF Iterates
<1>11. f = [e \in 0..Len(entries) |->
               IF e = 0
               THEN SkipHeader(EmitDots([pos |-> pos, room |-> room,
                                         batch |-> <<>>, stop |-> FALSE]))
               ELSE EmitEntry(f[e - 1], e)]
  BY <1>1, <1>3, <1>8, <1>10
<1>12. PICK After :
          /\ After = [e \in 0..Len(entries) |->
                IF e = 0
                THEN SkipHeader(EmitDots([pos |-> pos, room |-> room,
                                          batch |-> <<>>, stop |-> FALSE]))
                ELSE EmitEntry(After[e - 1], e)]
          /\ Emitted(room) = After[Len(entries)]
  BY <1>11, Zenon DEF Emitted
<1>13. After[0] \in S
  <2>1. 0 \in 0..Len(entries)
    BY <1>1
  <2>. QED  BY <1>3, <1>4, <1>12, <2>1
<1>14. ASSUME NEW k \in 1..n, After[k - 1] \in S
       PROVE  After[k] \in S
  <2>1. k \in 0..Len(entries) /\ k # 0
    BY <1>1
  <2>2. After[k] = EmitEntry(After[k - 1], k)
    BY <1>12, <2>1
  <2>. QED  BY <1>5, <1>14, <2>2
<1>15. \A k \in 0..n : After[k] \in S
  BY <1>1, <1>13, <1>14, StaysIn
<1>16. Emitted(room) \in S
  <2>1. n \in 0..n
    BY <1>1
  <2>. QED  BY <1>1, <1>12, <1>15, <2>1
<1>. QED  BY <1>2, <1>16

(***************************************************************************)
(* The inductive invariant                                                 *)
(***************************************************************************)
\* The position is always an item's or the end's.
AtItem == \E i \in 1..(Len(entries) + 3) : pos = PositionOf(i)

Inv == Stored /\ AtItem /\ LookupAgrees

\* No operation changes the directory.
LEMMA DirectoryStays ==
    ASSUME UNCHANGED directory, NEW i
    PROVE  PositionOf(i)' = PositionOf(i)
<1>1. entries' = entries /\ header' = header /\ width' = width
  BY DEF directory
<1>2. Offset' = Offset
  BY <1>1 DEF Offset, EntrySize
<1>. QED  BY <1>1, <1>2 DEF PositionOf

LEMMA StoredStays ==
    ASSUME Stored, UNCHANGED directory
    PROVE  Stored'
  BY DEF Stored, directory, fts_compare

LEMMA InitInv == Init => Inv
<1>. SUFFICES ASSUME Init
              PROVE  Inv
  OBVIOUS
<1>0. PICK n \in 0..MaxEntries : \E names \in [1..n -> Names] :
         Sorted(names) /\ entries = [e \in 1..n |-> [name |-> names[e], number |-> e]]
  BY DEF Init
<1>1. PICK names \in [1..n -> Names] :
         Sorted(names) /\ entries = [e \in 1..n |-> [name |-> names[e], number |-> e]]
  BY <1>0
<1>2. n \in Nat
  BY DirAssumption
<1>3. \A e \in 1..n : /\ entries[e] = [name |-> names[e], number |-> e]
                      /\ entries[e] \in [name : Names, number : Nat]
  BY <1>1, <1>2
<1>4. entries \in Seq([name : Names, number : Nat]) /\ DOMAIN entries = 1..n
  BY <1>1, <1>2, <1>3
<1>5. ASSUME NEW d \in DOMAIN entries, NEW e \in DOMAIN entries, d < e
      PROVE  fts_compare(entries[d].name, entries[e].name)
  <2>1. d \in 1..n /\ e \in 1..n
    BY <1>4
  <2>2. fts_compare(names[d], names[e])
    BY <1>1, <1>5, <2>1 DEF Sorted
  <2>3. /\ entries[d] = [name |-> names[d], number |-> d]
        /\ entries[e] = [name |-> names[e], number |-> e]
    BY <1>3, <2>1
  <2>. QED  BY <2>2, <2>3
<1>6. Stored
  BY <1>4, <1>5, DirAssumption DEF Init, Stored
<1>7. AtItem
  <2>1. pos = PositionOf(1)
    BY DEF Init, PositionOf
  <2>2. 1 \in 1..(Len(entries) + 3)
    BY <1>6, EntryFacts
  <2>. QED  BY <2>1, <2>2 DEF AtItem
<1>8. LookupAgrees
  BY DEF Init, LookupAgrees
<1>. QED  BY <1>6, <1>7, <1>8 DEF Inv

\* The position after a step is the position of an item before it.
LEMMA AtItemStays ==
    ASSUME UNCHANGED directory, NEW i \in 1..(Len(entries) + 3),
           pos' = PositionOf(i)
    PROVE  AtItem'
<1>1. entries' = entries
  BY DEF directory
<1>2. PositionOf(i)' = PositionOf(i)
  BY DirectoryStays
<1>. QED  BY <1>1, <1>2 DEF AtItem

\* What each step reads of the listing: the items from the i-th, up to a j-th.
LEMMA ReaddirReads ==
    ASSUME Stored, NEW i \in 1..(Len(entries) + 3), pos = PositionOf(i),
           NEW room \in 0..MaxRoom, Readdir(room)
    PROVE  \E j \in i..(Len(entries) + 3) :
              batch' = SubSeq(Listing, i, j - 1) /\ pos' = PositionOf(j)
<1>1. CASE AtEnd
  <2>1. i \in i..(Len(entries) + 3) /\ i \in Int
    BY EntryFacts
  <2>2. SubSeq(Listing, i, i - 1) = <<>>
    BY <2>1, SubSeqEmpty
  <2>3. batch' = <<>> /\ pos' = pos
    BY <1>1 DEF Readdir
  <2>. QED  BY <2>1, <2>2, <2>3
<1>2. CASE ~AtEnd
  <2>1. room \in Nat
    BY DirAssumption
  <2>2. ReadsFrom(i, Emitted(room))
    BY <2>1, EmittedReads
  <2>3. batch' = Emitted(room).batch /\ pos' = Emitted(room).pos
    BY <1>2 DEF Readdir
  <2>. QED  BY <2>2, <2>3 DEF ReadsFrom
<1>. QED  BY <1>1, <1>2

LEMMA NextInv == Inv /\ [Next]_vars => Inv'
<1>. SUFFICES ASSUME Inv, [Next]_vars
              PROVE  Inv'
  OBVIOUS
<1>1. Stored /\ LookupAgrees
  BY DEF Inv
<1>2. PICK i \in 1..(Len(entries) + 3) : pos = PositionOf(i)
  BY DEF Inv, AtItem
<1>3. UNCHANGED directory
  BY DEF Next, vars, Readdir, ReaddirFails, Seek, Lookup, LookupFails
<1>4. entries' = entries
  BY <1>3 DEF directory
<1>5. Stored'
  BY <1>1, <1>3, StoredStays
<1>6. AtItem'
  <2>1. ASSUME pos' = pos
        PROVE  AtItem'
    BY <1>2, <1>3, <2>1, AtItemStays
  <2>2. ASSUME NEW room \in 0..MaxRoom, Readdir(room)
        PROVE  AtItem'
    <3>1. PICK j \in i..(Len(entries) + 3) : pos' = PositionOf(j)
      BY <1>1, <1>2, <2>2, ReaddirReads
    <3>2. j \in 1..(Len(entries) + 3)
      BY <1>1, EntryFacts
    <3>. QED  BY <1>3, <3>1, <3>2, AtItemStays
  <2>3. ASSUME NEW p \in Positions, Seek(p)
        PROVE  AtItem'
    <3>1. PICK k \in 1..Len(Listing) + 1 : PositionOf(k) = p
      BY DEF Positions
    <3>2. k \in 1..(Len(entries) + 3)
      BY <1>1, EntryFacts, ListingFacts
    <3>3. pos' = PositionOf(k)
      BY <2>3, <3>1 DEF Seek
    <3>. QED  BY <1>3, <3>2, <3>3, AtItemStays
  <2>4. CASE ReaddirFails
    BY <2>1, <2>4 DEF ReaddirFails
  <2>5. ASSUME NEW name \in Names, Lookup(name) \/ LookupFails(name)
        PROVE  AtItem'
    BY <2>1, <2>5 DEF Lookup, LookupFails
  <2>6. CASE UNCHANGED vars
    BY <2>1, <2>6 DEF vars
  <2>. QED  BY <2>2, <2>3, <2>4, <2>5, <2>6 DEF Next
<1>7. LookupAgrees'
  <2>1. CASE looked' = looked
    BY <1>1, <1>4, <2>1 DEF LookupAgrees
  <2>2. CASE looked' = NoLookup
    BY <2>2 DEF LookupAgrees
  <2>3. ASSUME NEW name \in Names, Lookup(name)
        PROVE  LookupAgrees'
    <3>1. looked' = <<name, LookupResult(name)>>
      BY <2>3 DEF Lookup
    <3>2. \/ \E e \in DOMAIN entries :
                entries[e].name = name /\ LookupResult(name) = entries[e].number
          \/ /\ LookupResult(name) = ENOENT
             /\ \A e \in DOMAIN entries : entries[e].name # name
      BY <1>1, LookupAnswers
    <3>. QED  BY <1>4, <3>1, <3>2 DEF LookupAgrees
  <2>4. ASSUME NEW name \in Names, LookupFails(name)
        PROVE  LookupAgrees'
    BY <2>4 DEF LookupFails, LookupAgrees
  <2>5. ASSUME NEW room, Readdir(room)
        PROVE  LookupAgrees'
    BY <2>2, <2>5 DEF Readdir
  <2>6. ASSUME NEW p, Seek(p)
        PROVE  LookupAgrees'
    BY <2>2, <2>6 DEF Seek
  <2>7. CASE ReaddirFails
    BY <2>2, <2>7 DEF ReaddirFails
  <2>8. CASE UNCHANGED vars
    BY <2>1, <2>8 DEF vars
  <2>. QED  BY <2>3, <2>4, <2>5, <2>6, <2>7, <2>8 DEF Next
<1>. QED  BY <1>5, <1>6, <1>7 DEF Inv

THEOREM Invariance == Spec => []Inv
  BY InitInv, NextInv, PTL DEF Spec

\* lookup (super.c:799) answers with the node of the entry of that name, and
\* with ENOENT only for a name no entry has: stopping at the first entry that
\* begins with a greater char, which may be negative, misses none.
THEOREM LookupFinds == Spec => []LookupAgrees
<1>1. Inv => LookupAgrees
  BY DEF Inv
<1>. QED  BY <1>1, Invariance, PTL

(***************************************************************************)
(* The calls of readdir implement DirCursor                                *)
(***************************************************************************)
LEMMA CursorAt ==
    ASSUME Stored, NEW i \in 1..(Len(entries) + 3), NEW p, p = PositionOf(i)
    PROVE  ItemAt(p) = i
<1>1. Len(Listing) + 1 = Len(entries) + 3
  BY EntryFacts, ListingFacts
<1>2. p \in Positions
  BY <1>1 DEF Positions
<1>3. PICK k : k = CHOOSE x \in 1..Len(Listing) + 1 : PositionOf(x) = p
  OBVIOUS
<1>4. k \in 1..(Len(entries) + 3) /\ PositionOf(k) = p
  BY <1>1, <1>3
<1>5. k = i
  <2>1. PositionOf(i) \in Nat
        /\ (k < i => PositionOf(k) < PositionOf(i))
        /\ (i < k => PositionOf(i) < PositionOf(k))
    BY <1>4, PositionsGrow
  <2>. QED  BY <1>4, <2>1
<1>. QED  BY <1>2, <1>3, <1>5 DEF ItemAt

\* The cursor after a step, told by the directory before it.
LEMMA CursorMoves ==
    ASSUME Stored, UNCHANGED directory, NEW j \in 1..(Len(entries) + 3),
           pos' = PositionOf(j)
    PROVE  ItemAt(pos)' = j
<1>1. entries' = entries /\ header' = header /\ width' = width
  BY DEF directory
<1>2. Offset' = Offset /\ Listing' = Listing
  BY <1>1 DEF Offset, EntrySize, Listing
<1>3. ItemAt(pos)' = ItemAt(pos')
  BY <1>2 DEF ItemAt, Positions, PositionOf
<1>. QED  BY <1>3, CursorAt

\* Every step reads on from the cursor or goes back to a place told.
LEMMA StepRefines == Inv /\ [Next]_vars => [Cursor!Next]_(Cursor!vars)
<1>. SUFFICES ASSUME Inv, [Next]_vars
              PROVE  [Cursor!Next]_(Cursor!vars)
  OBVIOUS
<1>1. Stored
  BY DEF Inv
<1>2. PICK i \in 1..(Len(entries) + 3) : pos = PositionOf(i)
  BY DEF Inv, AtItem
<1>3. UNCHANGED directory
  BY DEF Next, vars, Readdir, ReaddirFails, Seek, Lookup, LookupFails
<1>4. Listing' = Listing
  BY <1>3 DEF directory, Listing
<1>5. Len(Listing) = Len(entries) + 2 /\ Len(entries) \in Nat
  BY <1>1, EntryFacts, ListingFacts
<1>6. ItemAt(pos) = i
  BY <1>1, <1>2, CursorAt
<1>7. ASSUME NEW j \in i..(Len(entries) + 3), pos' = PositionOf(j),
             batch' = SubSeq(Listing, i, j - 1)
      PROVE  Cursor!Next
  <2>1. ItemAt(pos)' = j
    <3>1. j \in 1..(Len(entries) + 3)
      BY <1>5
    <3>. QED  BY <1>1, <1>3, <1>7, <3>1, CursorMoves
  <2>2. PICK k : k = j - i
    OBVIOUS
  <2>3. k \in 0..Len(Listing) - i + 1 /\ i + k - 1 = j - 1 /\ j = i + k
    BY <1>5, <2>2
  <2>4. Cursor!Read(k)
    BY <1>4, <1>6, <1>7, <2>1, <2>3 DEF Cursor!Read
  <2>. QED  BY <1>6, <2>3, <2>4 DEF Cursor!Next
<1>8. ASSUME batch' = <<>>, pos' = pos
      PROVE  Cursor!Next
  <2>1. i \in i..(Len(entries) + 3) /\ i \in Int
    BY <1>5
  <2>2. SubSeq(Listing, i, i - 1) = <<>>
    BY <2>1, SubSeqEmpty
  <2>. QED  BY <1>2, <1>7, <1>8, <2>1, <2>2
<1>9. ASSUME NEW room \in 0..MaxRoom, Readdir(room)
      PROVE  Cursor!Next
  <2>1. \E j \in i..(Len(entries) + 3) :
           batch' = SubSeq(Listing, i, j - 1) /\ pos' = PositionOf(j)
    BY <1>1, <1>2, <1>9, ReaddirReads
  <2>. QED  BY <1>7, <2>1
<1>10. ASSUME NEW p \in Positions, Seek(p)
       PROVE  Cursor!Next
  <2>1. PICK k \in 1..Len(Listing) + 1 : PositionOf(k) = p
    BY DEF Positions
  <2>2. k \in 1..(Len(entries) + 3)
    BY <1>5
  <2>3. pos' = PositionOf(k) /\ batch' = <<>>
    BY <1>10, <2>1 DEF Seek
  <2>4. ItemAt(pos)' = k
    BY <1>1, <1>3, <2>2, <2>3, CursorMoves
  <2>5. Cursor!Seek(k)
    BY <1>4, <2>3, <2>4 DEF Cursor!Seek
  <2>. QED  BY <2>5 DEF Cursor!Next
<1>11. CASE ReaddirFails
  BY <1>8, <1>11 DEF ReaddirFails
<1>12. ASSUME NEW name \in Names, Lookup(name) \/ LookupFails(name)
       PROVE  Cursor!Next
  BY <1>8, <1>12 DEF Lookup, LookupFails
<1>13. CASE UNCHANGED vars
  <2>1. pos' = PositionOf(i) /\ batch' = batch
    BY <1>2, <1>13 DEF vars
  <2>2. ItemAt(pos)' = ItemAt(pos)
    BY <1>1, <1>3, <1>6, <2>1, CursorMoves
  <2>. QED  BY <1>4, <2>1, <2>2 DEF Cursor!vars
<1>. QED  BY <1>9, <1>10, <1>11, <1>12, <1>13 DEF Next

LEMMA InitRefines == Init => Cursor!Init
<1>. SUFFICES ASSUME Init
              PROVE  Cursor!Init
  OBVIOUS
<1>1. Stored
  BY InitInv DEF Inv
<1>2. 1 \in 1..(Len(entries) + 3) /\ pos = PositionOf(1)
  BY <1>1, EntryFacts DEF Init, PositionOf
<1>3. ItemAt(pos) = 1
  BY <1>1, <1>2, CursorAt
<1>. QED  BY <1>3 DEF Init, Cursor!Init

\* The calls of readdir (super.c:589) are a cursor over "." , ".." and the
\* entries: each returns the ones that follow the position, none twice and none
\* left out, whatever room the calls before had, whichever of them failed and
\* wherever seekdir went.
THEOREM Listed == Spec => ImplementsCursor
  BY InitRefines, StepRefines, Invariance, PTL
     DEF Spec, Cursor!Spec, ImplementsCursor
=============================================================================
