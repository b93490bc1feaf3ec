----------------------------- MODULE UnfsProofs -----------------------------
(***************************************************************************)
(* Theorems about module Unfs, for images and leftovers of every kind, for *)
(* root and for other users, and for any number of failures.               *)
(***************************************************************************)
EXTENDS Unfs, SequenceTheorems, WellFoundedInduction, TLAPS

(***************************************************************************)
(* Natural numbers and steps                                               *)
(***************************************************************************)
\* A set of natural numbers that is not empty has a least one.
LEMMA LeastNat ==
    ASSUME NEW T, T \subseteq Nat, T # {}
    PROVE  \E least \in T : \A n \in T : least =< n
<1>. DEFINE Less == OpToRel(<, Nat)
<1>1. PICK least \in T : \A n \in T : ~ (<<n, least>> \in Less)
  BY NatLessThanWellFounded, WFMin
<1>2. ASSUME NEW n \in T
      PROVE  <<n, least>> \in Less <=> n < least
  BY DEF OpToRel
<1>. HIDE DEF Less
<1>3. ASSUME NEW n \in T
      PROVE  least =< n
  <2>1. ~(n < least)
    BY <1>1, <1>2
  <2>2. least \in Nat /\ n \in Nat
    OBVIOUS
  <2>. QED  BY <2>1, <2>2
<1>. QED  BY <1>3

\* What n steps make of a start, one after the other.
Iterates(f, start, step, n) ==
    /\ f[0] = start
    /\ \A k \in 1..n : f[k] = step[k][f[k - 1]]

LEMMA Iteration ==
    ASSUME NEW n \in Nat, NEW S, NEW start \in S,
           NEW step \in [1..n -> [S -> S]]
    PROVE  \E f \in [0..n -> S] : Iterates(f, start, step, n)
<1>. DEFINE Steps(f, m) == /\ f \in [0..m -> S]
                           /\ f[0] = start
                           /\ \A k \in 1..m : f[k] = step[k][f[k - 1]]
<1>1. ASSUME \E m \in 0..n : ~\E f : Steps(f, m)
      PROVE  FALSE
  <2>. HIDE DEF Steps
  <2>1. PICK least \in 0..n : /\ ~\E f : Steps(f, least)
                              /\ \A m \in 0..n : m < least => \E f : Steps(f, m)
    <3>1. PICK T : T = {m \in 0..n : ~\E f : Steps(f, m)}
      OBVIOUS
    <3>2. T \subseteq Nat
      BY <3>1
    <3>3. T # {}
      BY <1>1, <3>1, Zenon
    <3>4. PICK least \in T : \A m \in T : least =< m
      BY <3>2, <3>3, LeastNat
    <3>5. \A m \in 0..n : m < least => m \notin T
      BY <3>2, <3>4
    <3>. QED  BY <3>1, <3>4, <3>5
  <2>2. least # 0
    <3>1. Steps([k \in 0..0 |-> start], 0)
      BY DEF Steps
    <3>. QED  BY <2>1, <3>1
  <2>3. least - 1 \in 0..n /\ least - 1 < least
    BY <2>2
  <2>4. PICK f : Steps(f, least - 1)
    BY <2>1, <2>3
  <2>. USE DEF Steps
  <2>. DEFINE g == [k \in 0..least |-> IF k = least THEN step[least][f[least - 1]]
                                      ELSE f[k]]
  <2>5. step[least][f[least - 1]] \in S
    BY <2>1, <2>2, <2>4
  <2>6. Steps(g, least)
    <3>1. g \in [0..least -> S]
      BY <2>1, <2>2, <2>4, <2>5
    <3>2. g[0] = start
      BY <2>1, <2>2, <2>4
    <3>3. ASSUME NEW k \in 1..least
          PROVE  g[k] = step[k][g[k - 1]]
      BY <2>1, <2>2, <2>4
    <3>. QED  BY <3>1, <3>2, <3>3
  <2>. HIDE DEF Steps
  <2>. QED  BY <2>1, <2>6
<1>2. \E f : Steps(f, n)
  <2>. HIDE DEF Steps
  <2>. QED  BY <1>1
<1>. QED  BY <1>2 DEF Iterates

\* What starts in a set and never leaves it in one step stays in it.
LEMMA StaysIn ==
    ASSUME NEW n \in Nat, NEW S, NEW f, f[0] \in S,
           \A k \in 1..n : f[k - 1] \in S => f[k] \in S
    PROVE  \A k \in 0..n : f[k] \in S
<1>. PICK T : T = {k \in 0..n : f[k] \notin S}
  OBVIOUS
<1>1. ASSUME T # {}
      PROVE  FALSE
  <2>. T \subseteq Nat
    OBVIOUS
  <2>1. PICK least \in T : \A m \in T : least =< m
    BY <1>1, LeastNat
  <2>2. least - 1 \in 0..n /\ least \in 1..n /\ least - 1 \notin T
    BY <2>1
  <2>. QED  BY <2>1, <2>2
<1>. QED  BY <1>1

(***************************************************************************)
(* Paths and the stack                                                     *)
(***************************************************************************)
Parts == Names \cup {Up}
Frames == [node : Nat, name : Names \cup {Dot}, e : Nat]

LEMMA ParentFacts ==
    ASSUME NEW S, NEW s \in Seq(S)
    PROVE  /\ ParentOf(s) \in Seq(S)
           /\ Len(s) # 0 => Len(ParentOf(s)) = Len(s) - 1
<1>1. Len(s) \in Nat
  BY LenProperties
<1>2. CASE s = <<>>
  <2>1. Len(s) = 0
    BY <1>2
  <2>. QED  BY <1>2, <2>1 DEF ParentOf
<1>3. CASE s # <<>>
  <2>1. ParentOf(s) = SubSeq(s, 1, Len(s) - 1)
    BY <1>3 DEF ParentOf, Front
  <2>2. Len(s) \in Nat \ {0}
    BY <1>3, EmptySeq, Zenon
  <2>3. \A i \in 1..(Len(s) - 1) : s[i] \in S
    BY <2>2, ElementOfSeq
  <2>4. /\ SubSeq(s, 1, Len(s) - 1) \in Seq(S)
        /\ Len(SubSeq(s, 1, Len(s) - 1))
              = IF 1 =< Len(s) - 1 THEN Len(s) - 1 - 1 + 1 ELSE 0
    BY <2>2, <2>3, SubSeqProperties
  <2>5. \A n \in Nat \ {0} : (IF 1 =< n - 1 THEN n - 1 - 1 + 1 ELSE 0) = n - 1
    OBVIOUS
  <2>. QED  BY <2>1, <2>2, <2>4, <2>5
<1>. QED  BY <1>2, <1>3

LEMMA ParentOfAppend ==
    ASSUME NEW S, NEW s \in Seq(S), NEW x \in S
    PROVE  ParentOf(Append(s, x)) = s
<1>1. /\ Append(s, x) \in Seq(S) /\ Append(s, x) # <<>>
      /\ Len(Append(s, x)) = Len(s) + 1
      /\ \A i \in 1..Len(s) : Append(s, x)[i] = s[i]
      /\ Len(s) \in Nat
  BY AppendProperties, LenProperties
<1>2. PICK t : t = ParentOf(Append(s, x))
  OBVIOUS
<1>3. t = SubSeq(Append(s, x), 1, Len(s))
  <2>1. t = SubSeq(Append(s, x), 1, Len(Append(s, x)) - 1)
    BY <1>1, <1>2 DEF ParentOf, Front
  <2>2. Len(Append(s, x)) - 1 = Len(s)
    BY <1>1
  <2>. QED  BY <2>1, <2>2
<1>4. \A i \in 1..Len(s) : Append(s, x)[i] \in S
  BY <1>1, ElementOfSeq
<1>5. /\ t \in Seq(S)
      /\ Len(t) = IF 1 <= Len(s) THEN Len(s) - 1 + 1 ELSE 0
      /\ \A i \in 1..(Len(s) - 1 + 1) : t[i] = Append(s, x)[1 + i - 1]
  <2>1. 1 \in Int /\ Len(s) \in Int
    BY <1>1
  <2>. QED  BY <1>3, <1>4, <2>1, SubSeqProperties
<1>6. Len(t) = Len(s) /\ \A i \in 1..Len(t) : t[i] = s[i]
  <2>1. Len(t) = Len(s)
    BY <1>1, <1>5
  <2>2. ASSUME NEW i \in 1..Len(s)
        PROVE  t[i] = s[i]
    <3>1. i \in 1..(Len(s) - 1 + 1) /\ 1 + i - 1 = i
      BY <1>1
    <3>. QED  BY <1>1, <1>5, <3>1
  <2>. QED  BY <2>1, <2>2
<1>. QED  BY <1>2, <1>5, <1>6, SeqEqual

LEMMA ConcatAppend ==
    ASSUME NEW S, NEW s \in Seq(S), NEW t \in Seq(S), NEW x \in S
    PROVE  s \o Append(t, x) = Append(s \o t, x)
<1>1. <<x>> \in Seq(S)
  OBVIOUS
<1>2. Append(t, x) = t \o <<x>>
  BY AppendIsConcat
<1>3. s \o t \in Seq(S)
  BY ConcatProperties
<1>4. Append(s \o t, x) = (s \o t) \o <<x>>
  BY <1>3, AppendIsConcat
<1>5. (s \o t) \o <<x>> = s \o (t \o <<x>>)
  BY <1>1, ConcatAssociative
<1>. QED  BY <1>2, <1>4, <1>5

LEMMA OutputFacts ==
    /\ MaxFailures \in Nat
    /\ Output \in Seq(Parts) /\ Len(Output) = MaxFailures + 2
    /\ Output # <<>>
    /\ ParentOf(Output) \in Seq(Parts) /\ Len(ParentOf(Output)) = MaxFailures + 1
<1>1. MaxFailures \in Nat
  BY UnfsAssumption
<1>2. Output \in Seq(Parts) /\ Len(Output) = MaxFailures + 2
  <2>1. MaxFailures + 2 \in Nat /\ Up \in Parts
    BY <1>1 DEF Parts
  <2>. QED  BY <2>1 DEF Output
<1>3. Output # <<>>
  BY <1>1, <1>2
<1>4. ParentOf(Output) \in Seq(Parts) /\ Len(ParentOf(Output)) = Len(Output) - 1
  BY <1>1, <1>2, ParentFacts
<1>. QED  BY <1>1, <1>2, <1>3, <1>4


(***************************************************************************)
(* Looking up a name                                                       *)
(***************************************************************************)
\* A name that is not a link's leads to the path that has it.
LEMMA LeadsDirect ==
    ASSUME NEW files, NEW dir, NEW name \in Names \cup {Dot},
           ~IsLink(files, PathOf(dir, name))
    PROVE  /\ Leads(files, dir, name) \subseteq {PathOf(dir, name)}
           /\ name = Dot \/ Searchable(files, dir) =>
                 Leads(files, dir, name) = {PathOf(dir, name)}
<1>. DEFINE start == [at |-> dir, left |-> IF name = Dot THEN <<>> ELSE <<name>>]
            end == [at |-> PathOf(dir, name), left |-> <<>>]
            ends == IF name = Dot \/ Searchable(files, dir) THEN {end} ELSE {}
            F(f) == [k \in 0..MaxParts |->
                        IF k = 0 THEN {start}
                        ELSE UNION {LookUp(files, walk) : walk \in f[k - 1]}]
            walks == [k \in 0..MaxParts |-> IF k = 0 THEN {start} ELSE ends]
<1>1. MaxParts \in Nat \ {0}
  BY UnfsAssumption
<1>2. LookUp(files, end) = {end}
  BY DEF LookUp
<1>3. LookUp(files, start) = ends
  <2>1. CASE name = Dot
    <3>1. start = end
      BY <2>1 DEF PathOf
    <3>. QED  BY <1>2, <2>1, <3>1
  <2>2. CASE name # Dot
    <3>1. /\ name \notin {Slash, DotDot} /\ name \in Names
          /\ PathOf(dir, name) = Append(dir, name)
      BY <2>2, UnfsAssumption DEF PathOf
    <3>2. /\ start.left = <<name>> /\ start.at = dir /\ start.left # <<>>
          /\ Head(start.left) = name /\ Tail(start.left) = <<>>
      BY <2>2
    <3>3. [[start EXCEPT !.at = Append(dir, name)] EXCEPT !.left = Tail(@)] = end
      <4>1. \A left, path :
               [[at |-> dir, left |-> left] EXCEPT !.at = path]
                  = [at |-> path, left |-> left]
        OBVIOUS
      <4>2. [start EXCEPT !.at = Append(dir, name)]
               = [at |-> Append(dir, name), left |-> start.left]
        BY <3>2, <4>1
      <4>3. [[at |-> Append(dir, name), left |-> start.left]
                EXCEPT !.left = Tail(@)] = end
        <5>1. \A at, left, rest :
                 [[at |-> at, left |-> left] EXCEPT !.left = rest]
                    = [at |-> at, left |-> rest]
          OBVIOUS
        <5>2. end = [at |-> Append(dir, name), left |-> Tail(start.left)]
          BY <3>1, <3>2
        <5>3. [at |-> Append(dir, name), left |-> start.left].left = start.left
          OBVIOUS
        <5>. HIDE DEF start, end
        <5>. QED  BY <5>1, <5>2, <5>3
      <4>. QED  BY <4>2, <4>3
    <3>. HIDE DEF start
    <3>4. CASE Searchable(files, dir)
      BY <3>1, <3>2, <3>3, <3>4 DEF LookUp
    <3>5. CASE ~Searchable(files, dir)
      BY <2>2, <3>1, <3>2, <3>5 DEF LookUp
    <3>. QED  BY <3>4, <3>5
  <2>. QED  BY <2>1, <2>2
<1>. HIDE DEF start, end
<1>4. UNION {LookUp(files, walk) : walk \in ends} = ends
  BY <1>2
<1>5. UNION {LookUp(files, walk) : walk \in {start}} = ends
  BY <1>3
<1>. HIDE DEF ends
<1>6. walks = F(walks)
  <2>1. ASSUME NEW k \in 0..MaxParts
        PROVE  walks[k] = F(walks)[k]
    <3>1. CASE k = 0
      BY <3>1
    <3>2. CASE k = 1
      <4>1. walks[0] = {start} /\ walks[1] = ends
        BY <1>1
      <4>2. F(walks)[1] = UNION {LookUp(files, walk) : walk \in walks[1 - 1]}
        <5>. HIDE DEF walks
        <5>. QED  BY <1>1
      <4>. HIDE DEF F, walks
      <4>. QED  BY <1>5, <3>2, <4>1, <4>2
    <3>3. CASE k # 0 /\ k # 1
      <4>1. k - 1 \in 0..MaxParts /\ k - 1 # 0
        BY <1>1, <3>3
      <4>2. walks[k - 1] = ends /\ walks[k] = ends
        BY <3>3, <4>1
      <4>. QED  BY <1>4, <3>3, <4>2
    <3>. QED  BY <3>1, <3>2, <3>3
  <2>2. DOMAIN walks = 0..MaxParts /\ DOMAIN F(walks) = 0..MaxParts
    OBVIOUS
  <2>. QED  BY <2>1, <2>2
<1>7. \A f : f = F(f) => f[MaxParts] = ends
  <2>. SUFFICES ASSUME NEW f, f = F(f)
                PROVE  f[MaxParts] = ends
    OBVIOUS
  <2>1. f[0] = {start}
    <3>1. F(f)[0] = {start}
      BY <1>1
    <3>. HIDE DEF F
    <3>. QED  BY <3>1
  <2>2. ASSUME NEW k \in 1..MaxParts
        PROVE  f[k] = UNION {LookUp(files, walk) : walk \in f[k - 1]}
    <3>1. F(f)[k] = UNION {LookUp(files, walk) : walk \in f[k - 1]}
      BY <1>1
    <3>. HIDE DEF F
    <3>. QED  BY <3>1
  <2>3. ASSUME NEW k \in 1..MaxParts, f[k - 1] \in {{start}, ends}
        PROVE  f[k] \in {{start}, ends}
    BY <1>4, <1>5, <2>2, <2>3
  <2>4. f[MaxParts - 1] \in {{start}, ends}
    <3>1. PICK S : S = {{start}, ends}
      OBVIOUS
    <3>2. f[0] \in S /\ MaxParts \in Nat
      BY <1>1, <2>1, <3>1
    <3>3. \A k \in 1..MaxParts : f[k - 1] \in S => f[k] \in S
      BY <2>3, <3>1
    <3>. HIDE DEF F, walks
    <3>4. \A k \in 0..MaxParts : f[k] \in S
      BY <3>2, <3>3, StaysIn
    <3>5. MaxParts - 1 \in 0..MaxParts
      BY <1>1
    <3>. QED  BY <3>1, <3>4, <3>5
  <2>5. MaxParts \in 1..MaxParts
    BY <1>1
  <2>. QED  BY <1>4, <1>5, <2>2, <2>4, <2>5
<1>8. Walks(files, start) = ends
  <2>1. Walks(files, start) = (CHOOSE f : f = F(f))[MaxParts]
    BY DEF Walks
  <2>. HIDE DEF F, walks
  <2>. QED  BY <1>6, <1>7, <2>1
<1>9. Leads(files, dir, name) =
         {walk.at : walk \in {w \in Walks(files, start) : w.left = <<>>}}
  BY DEF Leads, start
<1>10. end.left = <<>> /\ end.at = PathOf(dir, name)
  BY DEF end
<1>. QED  BY <1>8, <1>9, <1>10 DEF ends

(***************************************************************************)
(* What does not depend on the file system                                 *)
(***************************************************************************)
Shape ==
    /\ image \in Images
    /\ privileged \in BOOLEAN
    /\ stack \in Seq(Frames)
    /\ strayed \in BOOLEAN
    /\ failures \in 0..MaxFailures
    /\ lost \in 0..failures
    /\ phase \in {"main", "traverse", "done", "stranded", "failed"}

Table(frame) == image[frame.node].entries

\* Each loop goes over a directory, and is at the entry behind the one whose
\* loop is above it; the lowest is the root's.
Loops(s) ==
    /\ s # <<>> => s[1].name = Dot /\ s[1].node = 0
    /\ \A i \in 1..Len(s) :
          /\ s[i].node \in DOMAIN image
          /\ image[s[i].node].type = "directory"
          /\ s[i].e \in 1..(Len(Table(s[i])) + 1)
    /\ \A i \in 1..(Len(s) - 1) :
          /\ s[i].e > 1
          /\ s[i + 1].name = Table(s[i])[s[i].e - 1].name
          /\ s[i + 1].node = Table(s[i])[s[i].e - 1].number

StackInv == Loops(stack)

\* A call is made for the root, or by the innermost loop for the last entry.
CallInv ==
    call # <<>> =>
        IF stack = <<>> THEN call = <<0, Dot>>
        ELSE /\ Top.e > 1
             /\ call = <<Entries[Top.e - 1].number, Entries[Top.e - 1].name>>

CwdInv ==
    ~strayed =>
        /\ cwd \in Seq(Parts)
        /\ stack # <<>> =>
              /\ Len(cwd) = Len(Output) + Len(stack) - 1 - lost
              /\ lost = 0 => cwd = Output \o NamesOf(stack)
        /\ stack = <<>> /\ call # <<>> => cwd = Output /\ lost = 0

PhaseInv ==
    /\ phase # "traverse" => stack = <<>> /\ call = <<>>
    /\ phase = "main" => /\ lost = 0 /\ reported = {} /\ ~strayed
                         /\ cwd = ParentOf(Output)

WalkInv == Shape /\ StackInv /\ CallInv /\ CwdInv /\ PhaseInv

\* p is q, or below it.
Under(p, q) == Len(q) =< Len(p) /\ \A k \in 1..Len(q) : p[k] = q[k]

\* The directories from the working directory up can be searched.
Way(dir) == \A q \in Seq(Parts) : Under(dir, q) => Searchable(fs, q)
WayInv ==
    ~strayed /\ (phase = "main" \/ stack # <<>> \/ call # <<>>) => Way(cwd)

LEMMA ImageFacts ==
    ASSUME image \in Images, NEW n \in DOMAIN image
    PROVE  /\ \E m \in Nat : DOMAIN image = 0..m
           /\ n \in Nat /\ 0 \in DOMAIN image
           /\ image[n].type \in Types
           /\ image[n].mode \in SUBSET Permissions
           /\ image[n].owner \in Owners
           /\ image[n].target \in Targets
           /\ image[n].type = "symbolic_link" => image[n].mode = Permissions
           /\ image[n].entries \in Seq([name : Names, number : DOMAIN image])
           /\ Len(image[n].entries) \in Nat
           /\ DOMAIN image[n].entries = 1..Len(image[n].entries)
           /\ \A e \in 1..Len(image[n].entries) :
                 /\ image[n].entries[e].name \in Names
                 /\ image[n].entries[e].number \in DOMAIN image
           /\ \A d, e \in 1..Len(image[n].entries) :
                 image[n].entries[d].name = image[n].entries[e].name => d = e
<1>1. PICK m \in Nat : DOMAIN image = 0..m
  <2>1. /\ Cardinality(DOMAIN image) \in Nat \ {0}
        /\ DOMAIN image = 0..Cardinality(DOMAIN image) - 1
    BY ImagesAssumption
  <2>. QED  BY <2>1
<1>2. /\ image[n].type \in Types
      /\ image[n].mode \in SUBSET Permissions
      /\ image[n].owner \in Owners
      /\ image[n].target \in Targets
      /\ image[n].type = "symbolic_link" => image[n].mode = Permissions
      /\ image[n].entries \in Seq([name : Names, number : DOMAIN image])
      /\ \A d, e \in DOMAIN image[n].entries :
            image[n].entries[d].name = image[n].entries[e].name => d = e
  BY ImagesAssumption
<1>3. /\ Len(image[n].entries) \in Nat
      /\ DOMAIN image[n].entries = 1..Len(image[n].entries)
  BY <1>2, LenProperties
<1>4. \A e \in 1..Len(image[n].entries) :
         image[n].entries[e] \in [name : Names, number : DOMAIN image]
  BY <1>2, ElementOfSeq
<1>5. \A e \in 1..Len(image[n].entries) :
         /\ image[n].entries[e].name \in Names
         /\ image[n].entries[e].number \in DOMAIN image
  BY <1>4
<1>6. n \in Nat /\ 0 \in DOMAIN image
  BY <1>1
<1>7. \A d, e \in 1..Len(image[n].entries) :
         image[n].entries[d].name = image[n].entries[e].name => d = e
  BY <1>2, <1>3
<1>. QED  BY <1>1, <1>2, <1>3, <1>5, <1>6, <1>7, Zenon

LEMMA FrontFacts ==
    ASSUME NEW S, NEW s \in Seq(S), s # <<>>
    PROVE  /\ Len(s) \in Nat \ {0}
           /\ s[Len(s)] \in S
           /\ Front(s) \in Seq(S)
           /\ Len(Front(s)) = Len(s) - 1
           /\ \A i \in 1..(Len(s) - 1) : Front(s)[i] = s[i]
           /\ s = Append(Front(s), s[Len(s)])
<1>1. Len(s) \in Nat \ {0}
  BY EmptySeq, Zenon
<1>2. \A i \in 1..Len(s) : s[i] \in S
  BY ElementOfSeq
<1>3. s[Len(s)] \in S
  BY <1>1, <1>2
<1>4. PICK f : f = Front(s)
  OBVIOUS
<1>5. /\ f \in Seq(S)
      /\ Len(f) = IF 1 <= Len(s) - 1 THEN Len(s) - 1 - 1 + 1 ELSE 0
      /\ \A i \in 1..(Len(s) - 1 - 1 + 1) : f[i] = s[1 + i - 1]
  <2>1. \A i \in 1..(Len(s) - 1) : s[i] \in S
    BY <1>1, <1>2
  <2>2. 1 \in Int /\ Len(s) - 1 \in Int
    BY <1>1
  <2>3. f = SubSeq(s, 1, Len(s) - 1)
    BY <1>4 DEF Front
  <2>. QED  BY <2>1, <2>2, <2>3, SubSeqProperties
<1>6. Len(f) = Len(s) - 1
  <2>1. \A n \in Nat \ {0} : (IF 1 <= n - 1 THEN n - 1 - 1 + 1 ELSE 0) = n - 1
    OBVIOUS
  <2>. QED  BY <1>1, <1>5, <2>1
<1>7. ASSUME NEW i \in 1..(Len(s) - 1)
      PROVE  f[i] = s[i]
  <2>1. i \in 1..(Len(s) - 1 - 1 + 1) /\ 1 + i - 1 = i
    BY <1>1
  <2>. QED  BY <1>5, <2>1
<1>8. s = Append(f, s[Len(s)])
  <2>1. PICK t : t = Append(f, s[Len(s)])
    OBVIOUS
  <2>2. /\ t \in Seq(S) /\ Len(t) = Len(f) + 1
        /\ \A i \in 1..Len(f) : t[i] = f[i]
        /\ t[Len(f) + 1] = s[Len(s)]
    BY <1>3, <1>5, <2>1, AppendProperties
  <2>3. Len(t) = Len(s) /\ Len(f) + 1 = Len(s)
    BY <1>1, <1>6, <2>2
  <2>4. ASSUME NEW i \in 1..Len(s)
        PROVE  t[i] = s[i]
    <3>1. CASE i = Len(s)
      BY <2>2, <2>3, <3>1
    <3>2. CASE i # Len(s)
      <4>1. i \in 1..(Len(s) - 1) /\ i \in 1..Len(f)
        BY <1>1, <1>6, <3>2
      <4>. QED  BY <1>7, <2>2, <4>1
    <3>. QED  BY <3>1, <3>2
  <2>. QED  BY <2>1, <2>2, <2>3, <2>4, SeqEqual
<1>. QED  BY <1>1, <1>3, <1>4, <1>5, <1>6, <1>7, <1>8

\* The name of every loop but the root's is an entry's.
LEMMA NamesFacts ==
    ASSUME image \in Images, NEW s \in Seq(Frames), Loops(s), s # <<>>
    PROVE  /\ Len(s) \in Nat \ {0}
           /\ NamesOf(s) \in Seq(Names)
           /\ Len(NamesOf(s)) = Len(s) - 1
           /\ \A i \in 1..(Len(s) - 1) :
                 NamesOf(s)[i] = s[i + 1].name /\ s[i + 1].name \in Names
<1>1. Len(s) \in Nat \ {0}
  BY FrontFacts
<1>2. ASSUME NEW i \in 1..(Len(s) - 1)
      PROVE  s[i + 1].name \in Names
  <2>1. /\ i \in 1..Len(s)
        /\ s[i].node \in DOMAIN image
        /\ s[i].e \in 1..(Len(Table(s[i])) + 1)
        /\ s[i].e > 1
        /\ s[i + 1].name = Table(s[i])[s[i].e - 1].name
    BY <1>1 DEF Loops
  <2>2. Len(Table(s[i])) \in Nat
        /\ \A e \in 1..Len(Table(s[i])) : Table(s[i])[e].name \in Names
    BY <2>1, ImageFacts DEF Table
  <2>3. s[i].e - 1 \in 1..Len(Table(s[i]))
    BY <2>1, <2>2
  <2>. QED  BY <2>1, <2>2, <2>3
<1>3. NamesOf(s) = [i \in 1..(Len(s) - 1) |-> s[i + 1].name]
  BY DEF NamesOf
<1>4. NamesOf(s) \in [1..(Len(s) - 1) -> Names]
  BY <1>2, <1>3
<1>5. NamesOf(s) \in Seq(Names) /\ Len(NamesOf(s)) = Len(s) - 1
  <2>1. Len(s) - 1 \in Nat
    BY <1>1
  <2>. QED  BY <1>4, <2>1
<1>. QED  BY <1>1, <1>2, <1>3, <1>5

LEMMA NamesAppend ==
    ASSUME NEW s \in Seq(Frames), s # <<>>, NEW frame \in Frames,
           NamesOf(s) \in Seq(Names), frame.name \in Names
    PROVE  NamesOf(Append(s, frame)) = Append(NamesOf(s), frame.name)
<1>1. Len(s) \in Nat \ {0}
  BY FrontFacts
<1>2. PICK t : t = Append(s, frame)
  OBVIOUS
<1>3. /\ t \in Seq(Frames) /\ Len(t) = Len(s) + 1
      /\ \A i \in 1..Len(s) : t[i] = s[i]
      /\ t[Len(s) + 1] = frame
  BY <1>2, AppendProperties
<1>4. PICK a : a = Append(NamesOf(s), frame.name)
  OBVIOUS
<1>5. Len(NamesOf(s)) = Len(s) - 1
  <2>1. NamesOf(s) = [i \in 1..(Len(s) - 1) |-> s[i + 1].name]
    BY DEF NamesOf
  <2>2. DOMAIN NamesOf(s) = 1..(Len(s) - 1)
    BY <2>1
  <2>3. DOMAIN NamesOf(s) = 1..Len(NamesOf(s)) /\ Len(NamesOf(s)) \in Nat
    BY LenProperties
  <2>. QED  BY <1>1, <2>2, <2>3
<1>6. /\ a \in Seq(Names) /\ Len(a) = Len(NamesOf(s)) + 1
      /\ \A i \in 1..Len(NamesOf(s)) : a[i] = NamesOf(s)[i]
      /\ a[Len(NamesOf(s)) + 1] = frame.name
  BY <1>4, AppendProperties
<1>7. Len(a) = Len(s) /\ Len(NamesOf(s)) + 1 = Len(s) /\ Len(t) - 1 = Len(s)
  BY <1>1, <1>3, <1>5, <1>6
<1>8. NamesOf(t) = [i \in 1..Len(s) |-> t[i + 1].name]
  BY <1>7 DEF NamesOf
<1>9. a = [i \in 1..Len(s) |-> a[i]]
  BY <1>6, <1>7, LenProperties
<1>10. ASSUME NEW i \in 1..Len(s)
       PROVE  a[i] = t[i + 1].name
  <2>1. CASE i = Len(s)
    BY <1>3, <1>6, <1>7, <2>1
  <2>2. CASE i # Len(s)
    <3>1. i \in 1..(Len(s) - 1) /\ i + 1 \in 1..Len(s)
      BY <1>1, <2>2
    <3>2. a[i] = NamesOf(s)[i]
      BY <1>5, <1>6, <3>1
    <3>3. NamesOf(s)[i] = s[i + 1].name
      BY <3>1 DEF NamesOf
    <3>. QED  BY <1>3, <3>1, <3>2, <3>3
  <2>. QED  BY <2>1, <2>2
<1>11. a = NamesOf(t)
  BY <1>8, <1>9, <1>10
<1>. QED  BY <1>2, <1>4, <1>11

(***************************************************************************)
(* The steps                                                               *)
(***************************************************************************)
\* A directory is in its parent.
LEMMA ParentUnder ==
    ASSUME NEW S, NEW s \in Seq(S)
    PROVE  /\ ParentOf(s) \in Seq(S) /\ Under(s, ParentOf(s))
           /\ \A q \in Seq(S) : Under(ParentOf(s), q) => Under(s, q)
<1>1. CASE s = <<>>
  <2>1. ParentOf(s) = s /\ Len(s) \in Nat
    BY <1>1, LenProperties DEF ParentOf
  <2>. QED  BY <2>1 DEF Under
<1>2. CASE s # <<>>
  <2>1. PICK f : f = ParentOf(s)
    OBVIOUS
  <2>2. /\ Len(s) \in Nat \ {0} /\ f \in Seq(S) /\ Len(f) = Len(s) - 1
        /\ \A i \in 1..(Len(s) - 1) : f[i] = s[i]
    BY <1>2, <2>1, FrontFacts DEF ParentOf
  <2>3. Under(s, f)
    BY <2>2 DEF Under
  <2>4. ASSUME NEW q \in Seq(S), Under(f, q)
        PROVE  Under(s, q)
    <3>1. Len(q) =< Len(s) - 1 /\ \A k \in 1..Len(q) : f[k] = q[k]
      BY <2>2, <2>4 DEF Under
    <3>2. Len(q) \in Nat
      BY LenProperties
    <3>. QED  BY <2>2, <3>1, <3>2 DEF Under
  <2>. QED  BY <2>1, <2>2, <2>3, <2>4
<1>. QED  BY <1>1, <1>2

LEMMA TopFacts ==
    ASSUME WalkInv, stack # <<>>
    PROVE  /\ Len(stack) \in Nat \ {0}
           /\ Top \in Frames /\ Top = stack[Len(stack)]
           /\ Top.node \in DOMAIN image /\ image[Top.node].type = "directory"
           /\ Entries = Table(Top)
           /\ Len(Entries) \in Nat
           /\ Top.e \in 1..(Len(Entries) + 1)
           /\ \A e \in 1..Len(Entries) : /\ Entries[e].name \in Names
                                         /\ Entries[e].number \in DOMAIN image
<1>1. stack \in Seq(Frames) /\ image \in Images /\ Loops(stack)
  BY DEF WalkInv, Shape, StackInv
<1>2. Len(stack) \in Nat \ {0} /\ stack[Len(stack)] \in Frames
  BY <1>1, FrontFacts
<1>3. /\ Top = stack[Len(stack)] /\ Entries = Table(Top)
  BY DEF Top, Entries, Table
<1>4. /\ Top.node \in DOMAIN image /\ image[Top.node].type = "directory"
      /\ Top.e \in 1..(Len(Table(Top)) + 1)
  <2>1. Len(stack) \in 1..Len(stack)
    BY <1>2
  <2>. QED  BY <1>1, <1>3, <2>1 DEF Loops
<1>5. /\ Len(image[Top.node].entries) \in Nat
      /\ \A e \in 1..Len(image[Top.node].entries) :
            /\ image[Top.node].entries[e].name \in Names
            /\ image[Top.node].entries[e].number \in DOMAIN image
  BY <1>1, <1>4, ImageFacts
<1>. QED  BY <1>2, <1>3, <1>4, <1>5 DEF Table

\* What the call in progress is for.
LEMMA CallFacts ==
    ASSUME WalkInv, call # <<>>
    PROVE  /\ phase = "traverse"
           /\ call[1] \in DOMAIN image /\ call[1] \in Nat
           /\ Node = image[call[1]]
           /\ stack = <<>> => call[1] = 0 /\ call[2] = Dot
           /\ stack # <<>> => /\ Top.e - 1 \in 1..Len(Entries)
                              /\ call[1] = Entries[Top.e - 1].number
                              /\ call[2] = Entries[Top.e - 1].name
                              /\ call[2] \in Names
<1>1. phase = "traverse" /\ image \in Images
  BY DEF WalkInv, PhaseInv, Shape
<1>2. 0 \in DOMAIN image /\ DOMAIN image \subseteq Nat
  <2>1. /\ Cardinality(DOMAIN image) \in Nat \ {0}
        /\ DOMAIN image = 0..Cardinality(DOMAIN image) - 1
    BY <1>1, ImagesAssumption
  <2>. QED  BY <2>1
<1>3. CASE stack = <<>>
  <2>1. call = <<0, Dot>>
    BY <1>3 DEF WalkInv, CallInv
  <2>. QED  BY <1>1, <1>2, <1>3, <2>1 DEF Node
<1>4. CASE stack # <<>>
  <2>1. /\ Top.e > 1
        /\ call = <<Entries[Top.e - 1].number, Entries[Top.e - 1].name>>
    BY <1>4 DEF WalkInv, CallInv
  <2>2. Top.e - 1 \in 1..Len(Entries)
    BY <1>4, <2>1, TopFacts
  <2>3. call[1] = Entries[Top.e - 1].number /\ call[2] = Entries[Top.e - 1].name
    BY <2>1
  <2>4. Entries[Top.e - 1].number \in DOMAIN image
        /\ Entries[Top.e - 1].name \in Names
    BY <1>4, <2>2, TopFacts
  <2>. QED  BY <1>1, <1>2, <1>4, <2>2, <2>3, <2>4 DEF Node
<1>. QED  BY <1>3, <1>4
\* The way up is open.
LEMMA WayFacts ==
    ASSUME WalkInv, WayInv, ~strayed, stack # <<>> \/ call # <<>>
    PROVE  /\ Searchable(fs, cwd) /\ Searchable(fs, ParentOf(cwd))
           /\ UpFrom(fs, cwd) = ParentOf(cwd)
<1>1. cwd \in Seq(Parts) /\ Way(cwd)
  BY DEF WalkInv, CwdInv, WayInv
<1>2. Under(cwd, cwd)
  <2>1. Len(cwd) \in Nat
    BY <1>1, LenProperties
  <2>. QED  BY <2>1 DEF Under
<1>3. ParentOf(cwd) \in Seq(Parts) /\ Under(cwd, ParentOf(cwd))
  BY <1>1, ParentUnder
<1>. QED  BY <1>1, <1>2, <1>3 DEF Way, UpFrom


\* A call that ends where the loop was, or one directory too high.
LEMMA CallEnds ==
    ASSUME WalkInv, call # <<>>, call' = <<>>, UNCHANGED <<given, stack, phase>>,
           \/ failures' = failures
           \/ failures < MaxFailures /\ failures' = failures + 1,
           lost' = lost \/ (failures' = failures + 1 /\ lost' = lost + 1),
           strayed' \in BOOLEAN, strayed => strayed',
           ~strayed' =>
              \/ lost' = lost /\ cwd' = cwd
              \/ stack = <<>> /\ cwd' = ParentOf(cwd)
              \/ lost' = lost + 1 /\ cwd' = ParentOf(cwd)
    PROVE  WalkInv'
<1>1. /\ failures \in 0..MaxFailures /\ lost \in 0..failures
      /\ stack \in Seq(Frames) /\ MaxFailures \in Nat
  BY OutputFacts DEF WalkInv, Shape
<1>2. failures' \in 0..MaxFailures /\ lost' \in 0..failures'
  BY <1>1
<1>3. Shape'
  <2>1. UNCHANGED <<image, privileged, stack, phase>>
    BY DEF given
  <2>. QED  BY <1>2, <2>1 DEF WalkInv, Shape
<1>4. StackInv'
  BY DEF WalkInv, StackInv, Loops, Table, given
<1>5. CallInv'
  BY DEF CallInv
<1>6. ASSUME ~strayed'
      PROVE  /\ cwd' \in Seq(Parts)
             /\ stack # <<>> =>
                   /\ Len(cwd') = Len(Output) + Len(stack) - 1 - lost'
                   /\ lost' = 0 => cwd' = Output \o NamesOf(stack)
  <2>1. /\ cwd \in Seq(Parts)
        /\ stack # <<>> =>
              /\ Len(cwd) = Len(Output) + Len(stack) - 1 - lost
              /\ lost = 0 => cwd = Output \o NamesOf(stack)
    BY <1>6 DEF WalkInv, CwdInv
  <2>2. ParentOf(cwd) \in Seq(Parts)
        /\ (Len(cwd) # 0 => Len(ParentOf(cwd)) = Len(cwd) - 1)
    BY <2>1, ParentFacts
  <2>3. cwd' \in Seq(Parts)
    BY <1>6, <2>1, <2>2
  <2>4. ASSUME stack # <<>>
        PROVE  /\ Len(cwd') = Len(Output) + Len(stack) - 1 - lost'
               /\ lost' = 0 => cwd' = Output \o NamesOf(stack)
    <3>1. Len(Output) = MaxFailures + 2 /\ Len(stack) \in Nat \ {0}
      BY <2>4, OutputFacts, TopFacts
    <3>2. CASE lost' = lost /\ cwd' = cwd
      BY <2>1, <2>4, <3>2
    <3>3. CASE lost' = lost + 1 /\ cwd' = ParentOf(cwd)
      <4>1. lost \in Nat /\ lost =< MaxFailures
        BY <1>1
      <4>2. Len(cwd) # 0
        BY <1>1, <2>1, <2>4, <3>1, <4>1
      <4>3. Len(cwd') = Len(cwd) - 1
        BY <2>2, <3>3, <4>2
      <4>. QED  BY <1>1, <2>1, <2>4, <3>1, <3>3, <4>1, <4>3
    <3>. QED  BY <1>6, <2>4, <3>2, <3>3
  <2>. QED  BY <2>3, <2>4
<1>7. CwdInv'
  BY <1>6 DEF CwdInv, Output, NamesOf
<1>8. PhaseInv'
  BY CallFacts DEF PhaseInv
<1>. QED  BY <1>3, <1>4, <1>5, <1>7, <1>8 DEF WalkInv

\* The directory that is made and entered, if its name is not a link's.
LEMMA EnteredFacts ==
    ASSUME WalkInv, call # <<>>, CanMake, ~strayed, ~IsLink(fs, Path),
           NEW dir \in Entered
    PROVE  /\ dir = Path /\ Searchable(MadeDirectory, Path)
           /\ call[2] \in Names => UpFrom(MadeDirectory, dir) = cwd
<1>1. call[2] \in Names \cup {Dot}
  BY CallFacts
<1>2. ~IsLink(MadeDirectory, Path)
  BY DEF IsLink, MadeDirectory, With, NewDirectory, Exists
<1>3. dir \in Leads(MadeDirectory, cwd, call[2]) /\ Searchable(MadeDirectory, dir)
  BY DEF Entered
<1>4. dir = PathOf(cwd, call[2])
  BY <1>1, <1>2, <1>3, LeadsDirect DEF Path
<1>. QED
  <2>1. ASSUME call[2] \in Names
        PROVE  UpFrom(MadeDirectory, dir) = cwd
    <3>1. dir = Append(cwd, call[2]) /\ call[2] \in Parts
      BY <1>4, <2>1, UnfsAssumption DEF PathOf, Parts
    <3>2. ParentOf(dir) = cwd
      BY <3>1, ParentOfAppend DEF WalkInv, CwdInv
    <3>3. Searchable(MadeDirectory, cwd)
      BY DEF CanMake, Searchable, MadeDirectory, With, Exists
    <3>. QED  BY <1>3, <3>2, <3>3 DEF UpFrom
  <2>. QED  BY <1>3, <1>4, <2>1 DEF Path

LEMMA EnterDirectoryWalk ==
    ASSUME WalkInv, EnterDirectory
    PROVE  WalkInv'
<1>1. /\ call # <<>> /\ Node.type = "directory"
      /\ strayed' = (strayed \/ IsLink(fs, Path)) /\ call' = <<>>
      /\ CanMake /\ cwd' \in Entered
      /\ stack' = Append(stack, [node |-> call[1], name |-> call[2], e |-> 1])
      /\ UNCHANGED <<image, privileged, lost, failures, phase>>
  BY DEF EnterDirectory, Calling, given, Trust
<1>2. PICK frame : frame = [node |-> call[1], name |-> call[2], e |-> 1]
  OBVIOUS
<1>3. /\ call[1] \in DOMAIN image /\ call[1] \in Nat /\ Node = image[call[1]]
      /\ phase = "traverse"
      /\ stack = <<>> => call[1] = 0 /\ call[2] = Dot
      /\ stack # <<>> => call[2] \in Names
  BY <1>1, CallFacts
<1>4. frame \in Frames /\ frame.node = call[1] /\ frame.name = call[2] /\ frame.e = 1
  BY <1>2, <1>3 DEF Frames
<1>5. /\ stack \in Seq(Frames) /\ image \in Images
      /\ Loops(stack) /\ lost \in Nat /\ strayed \in BOOLEAN
  BY OutputFacts DEF WalkInv, Shape, StackInv
<1>6. /\ stack' \in Seq(Frames) /\ Len(stack') = Len(stack) + 1 /\ stack' # <<>>
      /\ \A i \in 1..Len(stack) : stack'[i] = stack[i]
      /\ stack'[Len(stack) + 1] = frame
      /\ Len(stack) \in Nat
  BY <1>1, <1>2, <1>4, <1>5, AppendProperties, LenProperties
<1>7. Path = IF call[2] = Dot THEN cwd ELSE Append(cwd, call[2])
  BY DEF Path, PathOf
<1>8. Dot \notin Names
  BY UnfsAssumption
<1>9. Shape'
  BY <1>1, <1>5, <1>6 DEF WalkInv, Shape
<1>10. Loops(stack')
  <2>1. stack'[1].name = Dot /\ stack'[1].node = 0
    <3>1. CASE stack = <<>>
      <4>1. Len(stack) + 1 = 1
        BY <3>1
      <4>. QED  BY <1>3, <1>4, <1>6, <3>1, <4>1
    <3>2. CASE stack # <<>>
      <4>1. 1 \in 1..Len(stack)
        BY <1>5, <3>2, FrontFacts
      <4>. QED  BY <1>5, <1>6, <3>2, <4>1 DEF Loops
    <3>. QED  BY <3>1, <3>2
  <2>2. ASSUME NEW i \in 1..Len(stack')
        PROVE  /\ stack'[i].node \in DOMAIN image
               /\ image[stack'[i].node].type = "directory"
               /\ stack'[i].e \in 1..(Len(Table(stack'[i])) + 1)
    <3>1. CASE i = Len(stack) + 1
      <4>1. Len(Table(frame)) \in Nat
        BY <1>3, <1>4, <1>5, ImageFacts DEF Table
      <4>2. 1 \in 1..(Len(Table(frame)) + 1)
        BY <4>1
      <4>. QED  BY <1>1, <1>3, <1>4, <1>6, <3>1, <4>2
    <3>2. CASE i # Len(stack) + 1
      <4>1. i \in 1..Len(stack)
        BY <1>6, <3>2
      <4>. QED  BY <1>5, <1>6, <4>1 DEF Loops
    <3>. QED  BY <3>1, <3>2
  <2>3. ASSUME NEW i \in 1..(Len(stack') - 1)
        PROVE  /\ stack'[i].e > 1
               /\ stack'[i + 1].name = Table(stack'[i])[stack'[i].e - 1].name
               /\ stack'[i + 1].node = Table(stack'[i])[stack'[i].e - 1].number
    <3>1. i \in 1..Len(stack) /\ stack'[i] = stack[i]
      BY <1>6
    <3>2. CASE i = Len(stack)
      <4>1. stack # <<>>
        BY <3>1, <3>2
      <4>2. /\ Top.e - 1 \in 1..Len(Entries) /\ Entries = Table(Top)
            /\ Top = stack[Len(stack)] /\ Top.e \in Nat
            /\ call[1] = Entries[Top.e - 1].number
            /\ call[2] = Entries[Top.e - 1].name
        BY <1>1, <4>1, CallFacts, TopFacts
      <4>3. Top.e > 1
        BY <4>2
      <4>. QED  BY <1>4, <1>6, <3>1, <3>2, <4>2, <4>3
    <3>3. CASE i # Len(stack)
      <4>1. i \in 1..(Len(stack) - 1) /\ i + 1 \in 1..Len(stack)
        BY <1>6, <3>1, <3>3
      <4>2. stack'[i + 1] = stack[i + 1]
        BY <1>6, <4>1
      <4>. QED  BY <1>5, <3>1, <4>1, <4>2 DEF Loops
    <3>. QED  BY <3>2, <3>3
  <2>. QED  BY <2>1, <2>2, <2>3 DEF Loops
<1>11. StackInv'
  BY <1>1, <1>10 DEF StackInv, Loops, Table
<1>12. CallInv'
  BY <1>1 DEF CallInv
<1>13. ASSUME ~strayed'
       PROVE  /\ cwd' \in Seq(Parts)
              /\ Len(cwd') = Len(Output) + Len(stack') - 1 - lost
              /\ lost = 0 => cwd' = Output \o NamesOf(stack')
  <2>0. /\ ~strayed /\ cwd' = Path /\ cwd \in Seq(Parts)
    <3>1. ~strayed /\ ~IsLink(fs, Path)
      BY <1>1, <1>13
    <3>. QED  BY <1>1, <3>1, EnteredFacts DEF WalkInv, CwdInv
  <2>1. CASE stack = <<>>
    <3>1. cwd' = Output /\ lost = 0
      BY <1>1, <1>3, <1>7, <2>0, <2>1 DEF WalkInv, CwdInv
    <3>2. Len(stack') = 1 /\ Len(Output) \in Nat
      <4>1. Len(stack) = 0
        BY <2>1
      <4>. QED  BY <1>6, <4>1, OutputFacts
    <3>3. NamesOf(stack') = <<>>
      BY <3>2 DEF NamesOf
    <3>4. Output \o <<>> = Output
      BY OutputFacts, ConcatEmptySeq
    <3>. QED  BY <1>1, <3>1, <3>2, <3>3, <3>4, OutputFacts
  <2>2. CASE stack # <<>>
    <3>1. /\ Len(cwd) = Len(Output) + Len(stack) - 1 - lost
          /\ lost = 0 => cwd = Output \o NamesOf(stack)
      BY <2>0, <2>2 DEF WalkInv, CwdInv
    <3>2. call[2] \in Names /\ call[2] \in Parts
      BY <1>3, <2>2 DEF Parts
    <3>3. cwd' = Append(cwd, call[2])
      BY <2>0, <1>7, <1>8, <3>2
    <3>4. Len(cwd') = Len(cwd) + 1 /\ cwd' \in Seq(Parts)
      BY <2>0, <3>2, <3>3, AppendProperties
    <3>5. /\ NamesOf(stack) \in Seq(Names)
          /\ NamesOf(stack') = Append(NamesOf(stack), call[2])
      <4>1. NamesOf(stack) \in Seq(Names)
        BY <1>5, <2>2, NamesFacts
      <4>2. NamesOf(Append(stack, frame)) = Append(NamesOf(stack), frame.name)
        BY <1>4, <1>5, <2>2, <3>2, <4>1, NamesAppend
      <4>. QED  BY <1>1, <1>2, <1>4, <4>1, <4>2
    <3>6. Output \o Append(NamesOf(stack), call[2])
             = Append(Output \o NamesOf(stack), call[2])
      <4>1. NamesOf(stack) \in Seq(Parts)
        BY <3>5, SeqMonotonic DEF Parts
      <4>. QED  BY <3>2, <4>1, OutputFacts, ConcatAppend
    <3>7. Len(cwd') = Len(Output) + Len(stack') - 1 - lost
      BY <1>5, <1>6, <3>1, <3>4, OutputFacts
    <3>. QED  BY <3>1, <3>3, <3>4, <3>5, <3>6, <3>7
  <2>. QED  BY <2>1, <2>2
<1>14. CwdInv'
  BY <1>1, <1>6, <1>13 DEF CwdInv, Output, NamesOf
<1>15. PhaseInv'
  BY <1>1, <1>3 DEF PhaseInv
<1>. QED  BY <1>9, <1>11, <1>12, <1>14, <1>15 DEF WalkInv

LEMMA AdvancedFacts ==
    ASSUME WalkInv, stack # <<>>, HasEntry
    PROVE  /\ Advanced \in Seq(Frames) /\ Len(Advanced) = Len(stack)
           /\ Advanced # <<>>
           /\ \A i \in 1..(Len(stack) - 1) : Advanced[i] = stack[i]
           /\ Advanced[Len(stack)] = [node |-> Top.node, name |-> Top.name,
                                      e |-> Top.e + 1]
           /\ \A i \in 1..Len(stack) : /\ Advanced[i].node = stack[i].node
                                       /\ Advanced[i].name = stack[i].name
           /\ Loops(Advanced)
           /\ NamesOf(Advanced) = NamesOf(stack)
           /\ Top.e \in 1..Len(Entries)
<1>1. /\ stack \in Seq(Frames) /\ Len(stack) \in Nat \ {0} /\ Loops(stack)
      /\ Top \in Frames /\ Top = stack[Len(stack)] /\ Entries = Table(Top)
      /\ Len(Entries) \in Nat
      /\ Top.e \in 1..(Len(Entries) + 1)
  BY TopFacts DEF WalkInv, Shape, StackInv
<1>2. PICK n : n = Len(stack) /\ n \in Nat \ {0}
  BY <1>1
<1>3. Top.e \in 1..Len(Entries)
  BY <1>1 DEF HasEntry
<1>4. PICK frame : frame = [node |-> Top.node, name |-> Top.name, e |-> Top.e + 1]
  OBVIOUS
<1>5. /\ frame \in Frames /\ frame.node = Top.node /\ frame.name = Top.name
      /\ frame.e = Top.e + 1
  <2>1. Top.node \in Nat /\ Top.name \in Names \cup {Dot} /\ Top.e + 1 \in Nat
    BY <1>1, <1>3 DEF Frames
  <2>. QED  BY <1>4, <2>1 DEF Frames
<1>6. Advanced = [stack EXCEPT ![n] = frame]
  <2>1. Top = [node |-> Top.node, name |-> Top.name, e |-> Top.e]
    BY <1>1 DEF Frames
  <2>2. [Top EXCEPT !.e = Top.e + 1] = frame
    BY <1>4, <2>1
  <2>. QED  BY <1>1, <1>2, <2>2 DEF Advanced
<1>7. n \in 1..n
  BY <1>2
<1>8. /\ Advanced \in Seq(Frames) /\ Len(Advanced) = n
      /\ \A j \in 1..n : Advanced[j] = IF j = n THEN frame ELSE stack[j]
  BY <1>1, <1>2, <1>5, <1>6, <1>7, ExceptSeq
<1>9. \A j \in 1..(n - 1) : j \in 1..n /\ j # n
  BY <1>2
<1>10. \A i \in 1..(n - 1) : Advanced[i] = stack[i]
  BY <1>8, <1>9
<1>11. Advanced[n] = frame
  BY <1>7, <1>8
<1>12. Advanced # <<>>
  <2>1. Len(Advanced) # 0
    BY <1>2, <1>8
  <2>. QED  BY <2>1
<1>13. \A i \in 1..n : /\ Advanced[i].node = stack[i].node
                       /\ Advanced[i].name = stack[i].name
  BY <1>1, <1>2, <1>5, <1>8
<1>14. Loops(Advanced)
  <2>1. Advanced[1].name = Dot /\ Advanced[1].node = 0
    <3>1. 1 \in 1..n /\ stack # <<>>
      BY <1>2
    <3>. QED  BY <1>1, <1>13, <3>1 DEF Loops
  <2>2. ASSUME NEW i \in 1..n
        PROVE  /\ Advanced[i].node \in DOMAIN image
               /\ image[Advanced[i].node].type = "directory"
               /\ Advanced[i].e \in 1..(Len(Table(Advanced[i])) + 1)
    <3>1. CASE i = n
      <4>1. Table(frame) = Entries
        BY <1>1, <1>5 DEF Table
      <4>2. Top.e + 1 \in 1..(Len(Entries) + 1)
        BY <1>1, <1>3
      <4>3. Top.node \in DOMAIN image /\ image[Top.node].type = "directory"
        BY TopFacts
      <4>. QED  BY <1>5, <1>11, <3>1, <4>1, <4>2, <4>3
    <3>2. CASE i # n
      BY <1>1, <1>2, <1>8, <3>2 DEF Loops
    <3>. QED  BY <3>1, <3>2
  <2>3. ASSUME NEW i \in 1..(n - 1)
        PROVE  /\ Advanced[i].e > 1
               /\ Advanced[i + 1].name = Table(Advanced[i])[Advanced[i].e - 1].name
               /\ Advanced[i + 1].node = Table(Advanced[i])[Advanced[i].e - 1].number
    <3>1. i + 1 \in 1..n
      BY <1>2
    <3>2. /\ stack[i].e > 1
          /\ stack[i + 1].name = Table(stack[i])[stack[i].e - 1].name
          /\ stack[i + 1].node = Table(stack[i])[stack[i].e - 1].number
      BY <1>1, <1>2 DEF Loops
    <3>. QED  BY <1>10, <1>13, <3>1, <3>2
  <2>. QED  BY <1>8, <2>1, <2>2, <2>3 DEF Loops
<1>15. NamesOf(Advanced) = NamesOf(stack)
  <2>1. \A i \in 1..(n - 1) : i + 1 \in 1..n
    BY <1>2
  <2>2. \A i \in 1..(n - 1) : Advanced[i + 1].name = stack[i + 1].name
    BY <1>13, <2>1
  <2>. QED  BY <1>2, <1>8, <2>2 DEF NamesOf
<1>. QED  BY <1>2, <1>3, <1>4, <1>8, <1>10, <1>11, <1>12, <1>13, <1>14, <1>15

LEMMA AdvanceWalk ==
    ASSUME WalkInv, NextEntry \/ SkipEntry
    PROVE  WalkInv'
<1>1. /\ InLoop /\ HasEntry /\ stack' = Advanced
      /\ UNCHANGED <<image, privileged, cwd, lost, strayed, phase>>
      /\ \/ call' = call
         \/ call' = <<Entries[Top.e].number, Entries[Top.e].name>>
      /\ \/ failures' = failures
         \/ failures < MaxFailures /\ failures' = failures + 1
  BY DEF NextEntry, SkipEntry, Fail, given, tally, astray
<1>2. stack # <<>> /\ call = <<>> /\ phase = "traverse"
  BY <1>1 DEF InLoop
<1>3. /\ Advanced \in Seq(Frames) /\ Len(Advanced) = Len(stack)
      /\ Advanced # <<>> /\ Loops(Advanced)
      /\ Advanced[Len(stack)] = [node |-> Top.node, name |-> Top.name,
                                 e |-> Top.e + 1]
      /\ NamesOf(Advanced) = NamesOf(stack)
      /\ Top.e \in 1..Len(Entries)
  BY <1>1, <1>2, AdvancedFacts
<1>4. Shape'
  <2>1. failures' \in 0..MaxFailures /\ lost \in 0..failures'
    BY <1>1, OutputFacts DEF WalkInv, Shape
  <2>. QED  BY <1>1, <1>3, <2>1 DEF WalkInv, Shape
<1>5. StackInv'
  BY <1>1, <1>3 DEF StackInv, Loops, Table
<1>6. CallInv'
  <2>1. CASE call' = call
    BY <1>2, <2>1 DEF CallInv
  <2>2. CASE call' = <<Entries[Top.e].number, Entries[Top.e].name>>
    <3>1. Top' = [node |-> Top.node, name |-> Top.name, e |-> Top.e + 1]
      BY <1>1, <1>3 DEF Top
    <3>2. Top.e \in Nat /\ Len(Entries) \in Nat
      BY <1>2, TopFacts
    <3>3. /\ Top'.e = Top.e + 1 /\ Top'.node = Top.node
      BY <3>1
    <3>4. Entries' = Entries
      BY <1>1, <3>3 DEF Entries
    <3>5. Top'.e > 1 /\ Top'.e - 1 = Top.e
      BY <1>3, <3>2, <3>3
    <3>. QED  BY <1>1, <1>3, <2>2, <3>4, <3>5 DEF CallInv
  <2>. QED  BY <1>1, <2>1, <2>2
<1>7. CwdInv'
  BY <1>1, <1>2, <1>3 DEF WalkInv, CwdInv, Output, NamesOf
<1>8. PhaseInv'
  BY <1>1, <1>2 DEF PhaseInv
<1>. QED  BY <1>4, <1>5, <1>6, <1>7, <1>8 DEF WalkInv

\* The loop below the innermost one.
LEMMA LeftFacts ==
    ASSUME WalkInv, stack # <<>>
    PROVE  /\ Front(stack) \in Seq(Frames) /\ Len(Front(stack)) = Len(stack) - 1
           /\ \A i \in 1..(Len(stack) - 1) : Front(stack)[i] = stack[i]
           /\ Loops(Front(stack))
           /\ stack = Append(Front(stack), Top)
           /\ Len(stack) > 1 =>
                 /\ Top.name \in Names
                 /\ NamesOf(Front(stack)) \in Seq(Names)
                 /\ NamesOf(stack) = Append(NamesOf(Front(stack)), Top.name)
           /\ Len(stack) = 1 => Top.name = Dot
<1>1. /\ stack \in Seq(Frames) /\ Len(stack) \in Nat \ {0} /\ Loops(stack)
      /\ Top \in Frames /\ Top = stack[Len(stack)] /\ image \in Images
  BY TopFacts DEF WalkInv, Shape, StackInv
<1>2. PICK n : n = Len(stack) /\ n \in Nat \ {0}
  BY <1>1
<1>3. PICK f : f = Front(stack)
  OBVIOUS
<1>4. /\ f \in Seq(Frames) /\ Len(f) = n - 1
      /\ \A i \in 1..(n - 1) : f[i] = stack[i]
      /\ stack = Append(f, Top)
  BY <1>1, <1>2, <1>3, FrontFacts
<1>5. Loops(f)
  <2>1. ASSUME f # <<>>
        PROVE  f[1].name = Dot /\ f[1].node = 0
    <3>1. Len(f) # 0
      BY <1>4, <2>1, EmptySeq
    <3>2. 1 \in 1..(n - 1)
      BY <1>2, <1>4, <3>1
    <3>. QED  BY <1>1, <1>4, <3>2 DEF Loops
  <2>2. ASSUME NEW i \in 1..(n - 1)
        PROVE  /\ f[i].node \in DOMAIN image
               /\ image[f[i].node].type = "directory"
               /\ f[i].e \in 1..(Len(Table(f[i])) + 1)
    <3>1. i \in 1..n
      BY <1>2
    <3>. QED  BY <1>1, <1>2, <1>4, <3>1 DEF Loops
  <2>3. ASSUME NEW i \in 1..(n - 1 - 1)
        PROVE  /\ f[i].e > 1
               /\ f[i + 1].name = Table(f[i])[f[i].e - 1].name
               /\ f[i + 1].node = Table(f[i])[f[i].e - 1].number
    <3>1. i \in 1..(n - 1) /\ i + 1 \in 1..(n - 1)
      BY <1>2
    <3>2. f[i] = stack[i] /\ f[i + 1] = stack[i + 1]
      BY <1>4, <3>1
    <3>. QED  BY <1>1, <1>2, <3>1, <3>2 DEF Loops
  <2>. QED  BY <1>4, <2>1, <2>2, <2>3 DEF Loops
<1>6. ASSUME n > 1
      PROVE  /\ Top.name \in Names
             /\ NamesOf(f) \in Seq(Names)
             /\ NamesOf(stack) = Append(NamesOf(f), Top.name)
  <2>1. f # <<>>
    <3>1. Len(f) # 0
      BY <1>2, <1>4, <1>6
    <3>. QED  BY <3>1
  <2>2. NamesOf(f) \in Seq(Names)
    BY <1>1, <1>4, <1>5, <2>1, NamesFacts
  <2>3. Top.name \in Names
    <3>1. n - 1 \in 1..(n - 1) /\ (n - 1) + 1 = n
      BY <1>2, <1>6
    <3>2. \A i \in 1..(n - 1) : stack[i + 1].name \in Names
      BY <1>1, <1>2, NamesFacts
    <3>3. stack[(n - 1) + 1].name \in Names
      BY <3>1, <3>2
    <3>. QED  BY <1>1, <1>2, <3>1, <3>3
  <2>. QED  BY <1>1, <1>4, <2>1, <2>2, <2>3, NamesAppend
<1>7. n = 1 => Top.name = Dot
  BY <1>1, <1>2 DEF Loops
<1>. QED  BY <1>2, <1>3, <1>4, <1>5, <1>6, <1>7

LEMMA LeaveDirectoryWalk ==
    ASSUME WalkInv, WayInv, LeaveDirectory \/ LeaveFails
    PROVE  WalkInv'
<1>1. /\ stack # <<>> /\ call = <<>> /\ phase = "traverse"
      /\ stack' = Front(stack) /\ strayed' \in BOOLEAN
      /\ UNCHANGED <<image, privileged, lost, call, phase, failures>>
  BY DEF LeaveDirectory, LeaveFails, InLoop, given, tally, astray, Trust,
         WalkInv, Shape
<1>2. /\ stack \in Seq(Frames) /\ Len(stack) \in Nat \ {0}
      /\ lost \in Nat /\ lost =< MaxFailures /\ MaxFailures \in Nat
  BY <1>1, TopFacts, OutputFacts DEF WalkInv, Shape
<1>3. /\ stack' \in Seq(Frames) /\ Len(stack') = Len(stack) - 1 /\ Loops(stack')
  BY <1>1, LeftFacts
<1>4. Shape'
  BY <1>1, <1>3 DEF WalkInv, Shape
<1>5. StackInv'
  BY <1>1, <1>3 DEF StackInv, Loops, Table
<1>6. CallInv'
  BY <1>1 DEF CallInv
<1>0. ASSUME ~strayed'
      PROVE  /\ ~strayed /\ cwd' = ParentOf(cwd)
             /\ cwd \in Seq(Parts) /\ cwd' \in Seq(Parts)
  <2>1. ~strayed
    BY <1>0 DEF LeaveDirectory, LeaveFails, tally, astray, Trust
  <2>2. CanLeave
    BY <1>1, <2>1, WayFacts DEF CanLeave
  <2>3. cwd' = ParentOf(cwd)
    BY <2>2 DEF LeaveDirectory, LeaveFails
  <2>. QED  BY <2>1, <2>3, ParentFacts DEF WalkInv, CwdInv
<1>7. ASSUME ~strayed', stack' # <<>>
      PROVE  /\ Len(cwd') = Len(Output) + Len(stack') - 1 - lost
             /\ lost = 0 => cwd' = Output \o NamesOf(stack')
  <2>1. Len(stack) > 1
    <3>1. Len(stack') # 0
      BY <1>3, <1>7, EmptySeq
    <3>. QED  BY <1>2, <1>3, <3>1
  <2>2. /\ Len(cwd) = Len(Output) + Len(stack) - 1 - lost
        /\ lost = 0 => cwd = Output \o NamesOf(stack)
    BY <1>0, <1>1, <1>7 DEF WalkInv, CwdInv
  <2>3. Len(cwd') = Len(cwd) - 1
    <3>1. Len(cwd) # 0
      BY <1>2, <2>1, <2>2, OutputFacts
    <3>. QED  BY <1>0, <1>7, <3>1, ParentFacts
  <2>4. Len(cwd') = Len(Output) + Len(stack') - 1 - lost
    BY <1>2, <1>3, <2>2, <2>3, OutputFacts
  <2>5. ASSUME lost = 0
        PROVE  cwd' = Output \o NamesOf(stack')
    <3>1. /\ Top.name \in Names
          /\ NamesOf(stack') \in Seq(Names)
          /\ NamesOf(stack) = Append(NamesOf(stack'), Top.name)
      BY <1>1, <2>1, LeftFacts
    <3>2. NamesOf(stack') \in Seq(Parts) /\ Top.name \in Parts
      BY <3>1, SeqMonotonic DEF Parts
    <3>3. cwd = Append(Output \o NamesOf(stack'), Top.name)
      <4>1. cwd = Output \o Append(NamesOf(stack'), Top.name)
        BY <2>2, <2>5, <3>1
      <4>. QED  BY <3>2, <4>1, OutputFacts, ConcatAppend
    <3>4. Output \o NamesOf(stack') \in Seq(Parts)
      BY <3>2, OutputFacts, ConcatProperties
    <3>. QED  BY <1>0, <1>7, <3>2, <3>3, <3>4, ParentOfAppend
  <2>. QED  BY <2>4, <2>5
<1>8. CwdInv'
  BY <1>0, <1>1, <1>7 DEF CwdInv, Output, NamesOf
<1>9. PhaseInv'
  BY <1>1 DEF PhaseInv
<1>. QED  BY <1>4, <1>5, <1>6, <1>8, <1>9 DEF WalkInv
LEMMA InitWalk ==
    Init => WalkInv
<1>. SUFFICES ASSUME Init PROVE WalkInv
  OBVIOUS
<1>1. Shape
  <2>1. stack \in Seq(Frames)
    BY DEF Init
  <2>2. failures \in 0..MaxFailures /\ lost \in 0..failures
    BY OutputFacts DEF Init
  <2>. QED  BY <2>1, <2>2 DEF Init, Shape
<1>2. StackInv
  <2>1. stack = <<>> /\ Len(stack) = 0
    BY DEF Init
  <2>. QED  BY <2>1 DEF StackInv, Loops
<1>3. CallInv /\ CwdInv /\ PhaseInv
  BY OutputFacts DEF Init, CallInv, CwdInv, PhaseInv
<1>. QED  BY <1>1, <1>2, <1>3 DEF WalkInv

\* A step of main.
LEMMA MainWalk ==
    ASSUME WalkInv, MakeOutput \/ MakeOutputFails \/ Finish \/ FinishFails
    PROVE  WalkInv'
<1>1. /\ stack = <<>> /\ stack' = <<>>
      /\ UNCHANGED <<image, privileged, lost, strayed>>
      /\ lost \in 0..failures /\ failures \in 0..MaxFailures
      /\ strayed \in BOOLEAN
  BY DEF WalkInv, Shape, PhaseInv, MakeOutput, MakeOutputFails, Finish,
         FinishFails, Returned, given, tally, astray
<1>2. failures' = failures \/ Fail
  BY DEF MakeOutput, MakeOutputFails, Finish, FinishFails
<1>3. /\ phase' \in {"traverse", "done", "stranded", "failed"}
      /\ failures' \in 0..MaxFailures /\ lost \in 0..failures'
      /\ image \in Images /\ privileged \in BOOLEAN
  BY <1>1, <1>2, OutputFacts
     DEF MakeOutput, MakeOutputFails, Finish, FinishFails, Fail, WalkInv, Shape
<1>4. Shape'
  BY <1>1, <1>3 DEF Shape
<1>5. StackInv'
  <2>1. Len(stack') = 0
    BY <1>1
  <2>. QED  BY <1>1, <2>1 DEF StackInv, Loops
<1>6. CallInv' /\ CwdInv' /\ PhaseInv'
  <2>1. CASE MakeOutput
    <3>1. lost = 0
      BY <2>1 DEF WalkInv, PhaseInv, MakeOutput
    <3>2. cwd' = Output /\ call' = <<0, Dot>> /\ phase' = "traverse"
      BY <2>1 DEF MakeOutput
    <3>. QED  BY <1>1, <3>1, <3>2, OutputFacts
              DEF CallInv, CwdInv, PhaseInv, Output
  <2>2. CASE MakeOutputFails \/ Finish \/ FinishFails
    <3>1. call' = <<>> /\ phase' \in {"done", "stranded", "failed"}
      BY <2>2 DEF MakeOutputFails, Finish, FinishFails, Returned, WalkInv, PhaseInv
    <3>2. ~strayed => cwd' \in Seq(Parts)
      <4>1. ~strayed => cwd \in Seq(Parts)
        BY DEF WalkInv, CwdInv
      <4>. QED  BY <2>2, <4>1, OutputFacts
                DEF MakeOutputFails, Finish, FinishFails
    <3>. QED  BY <1>1, <3>1, <3>2 DEF CallInv, CwdInv, PhaseInv
  <2>. QED  BY <2>1, <2>2
<1>. QED  BY <1>4, <1>5, <1>6 DEF WalkInv

\* Unless a link is taken for something else, a call that ends has left the
\* working directory where it was, or one directory above.
LEMMA CallEndsAt ==
    ASSUME WalkInv, WayInv, ~strayed',
           \/ RefusedDirectory \/ DirectoryFails
           \/ ExtractFile \/ RefusedFile \/ FileFails
           \/ ExtractLink \/ RefusedLink \/ LinkFails
    PROVE  /\ ~strayed
           /\ \/ lost' = lost /\ cwd' = cwd
              \/ stack = <<>> /\ cwd' = ParentOf(cwd)
              \/ lost' = lost + 1 /\ cwd' = ParentOf(cwd)
<1>1. call # <<>>
  BY DEF RefusedDirectory, DirectoryFails, ExtractFile, RefusedFile, FileFails,
         ExtractLink, RefusedLink, LinkFails, Calling
<1>2. ~strayed
  BY DEF RefusedDirectory, DirectoryFails, ExtractFile, RefusedFile, FileFails,
         ExtractLink, RefusedLink, LinkFails, tally, astray, Trust
<1>3. CASE RefusedDirectory \/ ExtractFile \/ RefusedFile \/ ExtractLink
            \/ RefusedLink
  BY <1>2, <1>3 DEF RefusedDirectory, ExtractFile, RefusedFile, ExtractLink,
                    RefusedLink, Return, tally
<1>4. CASE DirectoryFails
  <2>1. CASE cwd' = cwd
    BY <1>2, <1>4, <2>1 DEF DirectoryFails
  <2>2. CASE cwd' # cwd
    <3>1. /\ CanMake /\ strayed' = (strayed \/ IsLink(fs, Path))
          /\ \E dir \in Entered : cwd' = UpFrom(MadeDirectory, dir)
      BY <1>4, <2>2 DEF DirectoryFails, Return, Trust
    <3>2. PICK dir \in Entered : cwd' = UpFrom(MadeDirectory, dir)
      BY <3>1
    <3>3. dir = Path /\ (call[2] \in Names => cwd' = cwd)
      BY <1>1, <3>1, <3>2, EnteredFacts
    <3>4. stack = <<>> /\ call[2] = Dot
      BY <1>1, <2>2, <3>3, CallFacts
    <3>5. cwd' = ParentOf(cwd)
      BY <2>2, <3>2, <3>3, <3>4 DEF UpFrom, Path, PathOf
    <3>. QED  BY <1>2, <3>4, <3>5
  <2>. QED  BY <2>1, <2>2
<1>5. CASE FileFails \/ LinkFails
  <2>1. UpFrom(fs, cwd) = ParentOf(cwd)
    BY <1>1, <1>2, WayFacts
  <2>. QED  BY <1>2, <1>5, <2>1 DEF FileFails, LinkFails, Return, Fail
<1>. QED  BY <1>3, <1>4, <1>5

LEMMA CallEndsWalk ==
    ASSUME WalkInv, WayInv,
           \/ RefusedDirectory \/ DirectoryFails
           \/ ExtractFile \/ RefusedFile \/ FileFails
           \/ ExtractLink \/ RefusedLink \/ LinkFails
    PROVE  WalkInv'
<1>1. call # <<>> /\ call' = <<>> /\ UNCHANGED <<given, stack, phase>>
  BY DEF RefusedDirectory, DirectoryFails, ExtractFile, RefusedFile, FileFails,
         ExtractLink, RefusedLink, LinkFails, Return, Calling
<1>2. \/ failures' = failures
      \/ failures < MaxFailures /\ failures' = failures + 1
  BY DEF RefusedDirectory, DirectoryFails, ExtractFile, RefusedFile, FileFails,
         ExtractLink, RefusedLink, LinkFails, Fail
<1>3. strayed' \in BOOLEAN /\ (strayed => strayed')
  BY DEF RefusedDirectory, DirectoryFails, ExtractFile, RefusedFile, FileFails,
         ExtractLink, RefusedLink, LinkFails, tally, astray, Trust, WalkInv, Shape
<1>4. lost' = lost \/ (failures' = failures + 1 /\ lost' = lost + 1)
  BY DEF RefusedDirectory, DirectoryFails, ExtractFile, RefusedFile, FileFails,
         ExtractLink, RefusedLink, LinkFails, tally, Fail
<1>5. ~strayed' =>
         \/ lost' = lost /\ cwd' = cwd
         \/ stack = <<>> /\ cwd' = ParentOf(cwd)
         \/ lost' = lost + 1 /\ cwd' = ParentOf(cwd)
  BY CallEndsAt
<1>. QED  BY <1>1, <1>2, <1>3, <1>4, <1>5, CallEnds

LEMMA NextWalk ==
    ASSUME WalkInv, WayInv, [Next]_vars
    PROVE  WalkInv'
<1>1. CASE UNCHANGED vars
  BY <1>1 DEF vars, given, tally, astray, WalkInv, Shape, StackInv, Loops, Table,
              CallInv, Top, Entries, CwdInv, PhaseInv, Output, NamesOf
<1>2. CASE Next
  BY <1>2, MainWalk, CallEndsWalk, EnterDirectoryWalk, AdvanceWalk,
     LeaveDirectoryWalk DEF Next
<1>. QED  BY <1>1, <1>2

(***************************************************************************)
(* What is to come                                                         *)
(***************************************************************************)
\* The loop at place i of s has yet to come to p or to what it is in.
LoopWaits(p, s, i) ==
    /\ i =< Len(p)
    /\ \A k \in 1..(i - 1) : p[k] = s[k + 1].name
    /\ \E e \in s[i].e..Len(Table(s[i])) : Table(s[i])[e].name = p[i]
Waits(p, s) == \E i \in 1..Len(s) : LoopWaits(p, s, i)

\* p is being extracted, or what it is in, or waits for it.
Called(p) == call # <<>> /\ Under(p, ImagePath)
Pending(p) == Called(p) \/ Waits(p, stack)

Blamed(p) == \E q \in reported : Under(p, q)

\* p is a directory whose loop runs.
Open(p, s) == Len(p) < Len(s) /\ \A k \in 1..Len(p) : p[k] = s[k + 1].name

Obstructed(path, n) ==
    path \in DOMAIN fs /\ fs[path].type # image[n].type

Settled(p, n) ==
    /\ Output \o p \in DOMAIN fs
    /\ \/ fs[Output \o p].type = "symbolic_link"
       \/ Output \o p \in pointed
       \/ ~privileged /\ fs[Output \o p].owner # User
       \/ fs[Output \o p].mode = image[n].mode
    /\ privileged => fs[Output \o p].owner = image[n].owner

FsInv == fs \in [DOMAIN fs -> Files] /\ reported \subseteq Seq(Names)

LossInv ==
    phase \in {"traverse", "done", "stranded"} /\ Straight =>
        \A x \in ImagePaths : Pending(x[1]) \/ Blamed(x[1])
                              \/ HasContent(Output \o x[1], x[2])

RootInv ==
    privileged /\ failures = 0 /\ ~strayed =>
        \A x \in ImagePaths :
            x[1] \in reported => /\ ~Pending(x[1])
                                 /\ Obstructed(Output \o x[1], x[2])

\* Of links that nobody left before, what waits is none.
Linkless == \A path \in DOMAIN earlier : ~IsLink(earlier, path)
LinkInv ==
    Straight /\ Linkless =>
        \A path : IsLink(fs, path) =>
            /\ phase # "main"
            /\ \E p \in Seq(Names) : path = Output \o p /\ ~Pending(p)

\* A link was taken for something else because a directory was left once too
\* often, or because it had been there before.
StrayInv == strayed => lost > 0 \/ ~Linkless

ModesInv ==
    phase \in {"traverse", "done", "stranded"} /\ Straight =>
        \A x \in ImagePaths :
            x[1] # <<>> => \/ Pending(x[1]) \/ Blamed(x[1])
                           \/ Open(x[1], stack) \/ Settled(x[1], x[2])

(***************************************************************************)
(* The paths of an image                                                   *)
(***************************************************************************)
LEMMA PrefixUnder ==
    ASSUME NEW S, NEW p \in Seq(S), NEW q \in Seq(S)
    PROVE  q \in Prefixes(p) <=> Under(p, q)
<1>1. /\ Len(p) \in Nat /\ Len(q) \in Nat
      /\ \A k \in 1..Len(p) : p[k] \in S
  BY LenProperties, ElementOfSeq
<1>2. ASSUME NEW l \in 0..Len(p)
      PROVE  /\ SubSeq(p, 1, l) \in Seq(S)
             /\ Len(SubSeq(p, 1, l)) = l
             /\ \A k \in 1..l : SubSeq(p, 1, l)[k] = p[k]
  <2>1. \A k \in 1..l : p[k] \in S
    BY <1>1
  <2>2. /\ SubSeq(p, 1, l) \in Seq(S)
        /\ Len(SubSeq(p, 1, l)) = IF 1 <= l THEN l - 1 + 1 ELSE 0
        /\ \A k \in 1..(l - 1 + 1) : SubSeq(p, 1, l)[k] = p[1 + k - 1]
    BY <1>1, <2>1, SubSeqProperties
  <2>3. (IF 1 <= l THEN l - 1 + 1 ELSE 0) = l /\ l - 1 + 1 = l
    BY <1>1
  <2>4. \A k \in 1..l : 1 + k - 1 = k
    BY <1>1
  <2>. QED  BY <2>2, <2>3, <2>4
<1>3. ASSUME q \in Prefixes(p)
      PROVE  Under(p, q)
  <2>1. PICK l \in 0..Len(p) : q = SubSeq(p, 1, l)
    BY <1>3 DEF Prefixes
  <2>. QED  BY <1>1, <1>2, <2>1 DEF Under
<1>4. ASSUME Under(p, q)
      PROVE  q \in Prefixes(p)
  <2>1. Len(q) \in 0..Len(p) /\ \A k \in 1..Len(q) : p[k] = q[k]
    BY <1>1, <1>4 DEF Under
  <2>2. q = SubSeq(p, 1, Len(q))
    <3>1. PICK t : t = SubSeq(p, 1, Len(q))
      OBVIOUS
    <3>2. t \in Seq(S) /\ Len(t) = Len(q) /\ \A k \in 1..Len(q) : t[k] = p[k]
      BY <1>2, <2>1, <3>1
    <3>3. \A k \in 1..Len(q) : q[k] = t[k]
      BY <2>1, <3>2
    <3>4. q = t
      BY <3>2, <3>3, SeqEqual
    <3>. QED  BY <3>1, <3>4
  <2>. QED  BY <2>1, <2>2 DEF Prefixes
<1>. QED  BY <1>3, <1>4

Extended(paths) ==
    paths \cup UNION {{<<Append(p[1], x.name), x.number>> : x \in EntriesOf(p[2])} :
                         p \in paths}

LEMMA EntriesFacts ==
    ASSUME image \in Images, NEW n \in DOMAIN image
    PROVE  /\ \A x \in EntriesOf(n) :
                 /\ x.name \in Names /\ x.number \in DOMAIN image
                 /\ image[n].type = "directory"
                 /\ \E e \in 1..Len(image[n].entries) : x = image[n].entries[e]
           /\ image[n].type = "directory" =>
                 \A e \in 1..Len(image[n].entries) : image[n].entries[e] \in EntriesOf(n)
<1>1. /\ DOMAIN image[n].entries = 1..Len(image[n].entries)
      /\ \A e \in 1..Len(image[n].entries) :
            /\ image[n].entries[e].name \in Names
            /\ image[n].entries[e].number \in DOMAIN image
  BY ImageFacts
<1>2. Range(image[n].entries)
         = {image[n].entries[e] : e \in 1..Len(image[n].entries)}
  BY <1>1 DEF Range
<1>. QED  BY <1>1, <1>2 DEF EntriesOf

\* How many nodes an image has.
LEMMA SizeFacts ==
    ASSUME image \in Images
    PROVE  Cardinality(DOMAIN image) \in Nat \ {0} /\ 0 \in DOMAIN image
<1>1. /\ Cardinality(DOMAIN image) \in Nat \ {0}
      /\ DOMAIN image = 0..Cardinality(DOMAIN image) - 1
  BY ImagesAssumption
<1>. QED  BY <1>1

LEMMA PathsEquations ==
    ASSUME image \in Images
    PROVE  /\ PathsBelow[0] = {<<<<>>, 0>>}
           /\ \A k \in 1..Cardinality(DOMAIN image) :
                 PathsBelow[k] = Extended(PathsBelow[k - 1])
           /\ \A k \in 0..Cardinality(DOMAIN image) :
                 PathsBelow[k] \subseteq Seq(Names) \X DOMAIN image
<1>1. PICK n : n = Cardinality(DOMAIN image) /\ n \in Nat
  BY SizeFacts
<1>2. PICK S : S = SUBSET (Seq(Names) \X DOMAIN image)
  OBVIOUS
<1>3. {<<<<>>, 0>>} \in S
  BY <1>2, SizeFacts
<1>4. ASSUME NEW paths \in S
      PROVE  Extended(paths) \in S
  <2>1. ASSUME NEW p \in paths, NEW x \in EntriesOf(p[2])
        PROVE  <<Append(p[1], x.name), x.number>> \in Seq(Names) \X DOMAIN image
    <3>1. p[1] \in Seq(Names) /\ p[2] \in DOMAIN image
      BY <1>2, <1>4
    <3>2. x.name \in Names /\ x.number \in DOMAIN image
      BY <3>1, EntriesFacts
    <3>3. Append(p[1], x.name) \in Seq(Names)
      BY <3>1, <3>2, AppendProperties
    <3>. QED  BY <3>2, <3>3
  <2>. QED  BY <1>2, <1>4, <2>1 DEF Extended
<1>5. PICK step : step = [k \in 1..n |-> [paths \in S |-> Extended(paths)]]
  OBVIOUS
<1>6. step \in [1..n -> [S -> S]]
  BY <1>4, <1>5
<1>7. PICK f \in [0..n -> S] : Iterates(f, {<<<<>>, 0>>}, step, n)
  BY <1>1, <1>3, <1>6, Iteration
<1>8. \A k \in 1..n : f[k] = Extended(f[k - 1])
  <2>1. \A k \in 1..n : f[k - 1] \in S
    <3>1. \A k \in 1..n : k - 1 \in 0..n
      BY <1>1
    <3>. QED  BY <1>7, <3>1
  <2>2. \A k \in 1..n : \A paths \in S : step[k][paths] = Extended(paths)
    BY <1>5
  <2>. QED  BY <1>7, <2>1, <2>2 DEF Iterates
<1>9. \A k \in 0..n : f[k] = IF k = 0 THEN {<<<<>>, 0>>} ELSE Extended(f[k - 1])
  <2>1. \A k \in 0..n : k = 0 \/ k \in 1..n
    BY <1>1
  <2>. QED  BY <1>7, <1>8, <2>1 DEF Iterates
<1>10. f = [k \in 0..Cardinality(DOMAIN image) |->
               IF k = 0 THEN {<<<<>>, 0>>} ELSE Extended(f[k - 1])]
  BY <1>1, <1>7, <1>9
<1>11. PathsBelow = [k \in 0..Cardinality(DOMAIN image) |->
               IF k = 0 THEN {<<<<>>, 0>>} ELSE Extended(PathsBelow[k - 1])]
  BY <1>10, Zenon DEF PathsBelow, Extended
<1>12. PathsBelow[0] = {<<<<>>, 0>>}
  <2>1. 0 \in 0..Cardinality(DOMAIN image)
    BY <1>1
  <2>. QED  BY <1>11, <2>1
<1>13. ASSUME NEW k \in 1..n
       PROVE  PathsBelow[k] = Extended(PathsBelow[k - 1])
  <2>1. k \in 0..Cardinality(DOMAIN image) /\ k # 0
    BY <1>1
  <2>. QED  BY <1>11, <2>1
<1>14. PathsBelow[0] \in S
  BY <1>3, <1>12
<1>15. \A k \in 0..n : PathsBelow[k] \in S
  <2>1. \A k \in 1..n : PathsBelow[k - 1] \in S => PathsBelow[k] \in S
    BY <1>4, <1>13
  <2>. QED  BY <1>1, <1>14, <2>1, StaysIn
<1>. QED  BY <1>1, <1>2, <1>12, <1>13, <1>15

\* w holds the nodes that are met on the way along p.
WalkTo(p, w) ==
    /\ w \in [0..Len(p) -> DOMAIN image]
    /\ w[0] = 0
    /\ \A k \in 1..Len(p) :
          \E x \in EntriesOf(w[k - 1]) : x.name = p[k] /\ x.number = w[k]

Reached(x) == \E w : WalkTo(x[1], w) /\ w[Len(x[1])] = x[2]

LEMMA PathWalks ==
    ASSUME image \in Images, NEW x \in ImagePaths
    PROVE  /\ x[1] \in Seq(Names) /\ x[2] \in DOMAIN image
           /\ Len(x[1]) \in 0..Cardinality(DOMAIN image)
           /\ Reached(x)
<1>1. PICK n : n = Cardinality(DOMAIN image) /\ n \in Nat
  BY SizeFacts
<1>2. /\ PathsBelow[0] = {<<<<>>, 0>>}
      /\ \A k \in 1..n : PathsBelow[k] = Extended(PathsBelow[k - 1])
      /\ \A k \in 0..n : PathsBelow[k] \subseteq Seq(Names) \X DOMAIN image
  BY <1>1, PathsEquations
<1>3. PICK S : S = {k \in 0..n : \A y \in PathsBelow[k] :
                                    Len(y[1]) =< k /\ Reached(y)}
  OBVIOUS
<1>4. PICK f : f = [k \in 0..n |-> k]
  OBVIOUS
<1>5. f[0] \in S
  <2>1. Reached(<<<<>>, 0>>)
    <3>1. PICK w : w = [k \in 0..0 |-> 0]
      OBVIOUS
    <3>2. Len(<<>>) = 0
      OBVIOUS
    <3>3. WalkTo(<<>>, w) /\ w[0] = 0
      <4>1. w \in [0..Len(<<>>) -> DOMAIN image] /\ w[0] = 0
        BY <3>1, <3>2, SizeFacts
      <4>2. 1..Len(<<>>) = {}
        BY <3>2
      <4>. QED  BY <4>1, <4>2 DEF WalkTo
    <3>. QED  BY <3>2, <3>3 DEF Reached
  <2>2. 0 \in 0..n /\ Len(<<<<>>, 0>>[1]) = 0
    BY <1>1
  <2>. QED  BY <1>2, <1>3, <1>4, <2>1, <2>2
<1>6. ASSUME NEW k \in 1..n, f[k - 1] \in S
      PROVE  f[k] \in S
  <2>1. k - 1 \in 0..n /\ k \in 0..n /\ f[k] = k /\ f[k - 1] = k - 1
    BY <1>1, <1>4
  <2>2. \A y \in PathsBelow[k - 1] : Len(y[1]) =< k - 1 /\ Reached(y)
    BY <1>3, <1>6, <2>1
  <2>3. ASSUME NEW y \in PathsBelow[k]
        PROVE  Len(y[1]) =< k /\ Reached(y)
    <3>1. CASE y \in PathsBelow[k - 1]
      <4>1. Len(y[1]) \in Nat
        BY <1>2, <2>1, LenProperties
      <4>. QED  BY <2>1, <2>2, <3>1, <4>1
    <3>2. CASE y \notin PathsBelow[k - 1]
      <4>1. PICK z \in PathsBelow[k - 1] : \E e \in EntriesOf(z[2]) :
               y = <<Append(z[1], e.name), e.number>>
        BY <1>2, <2>3, <3>2 DEF Extended
      <4>2. PICK e \in EntriesOf(z[2]) : y = <<Append(z[1], e.name), e.number>>
        BY <4>1
      <4>3. z[1] \in Seq(Names) /\ z[2] \in DOMAIN image
        BY <1>2, <2>1
      <4>4. e.name \in Names /\ e.number \in DOMAIN image
        BY <4>3, EntriesFacts
      <4>5. PICK m : m = Len(z[1]) /\ m \in Nat /\ m =< k - 1
        BY <2>2, <4>3, LenProperties
      <4>6. PICK p : p = Append(z[1], e.name)
        OBVIOUS
      <4>7. /\ p \in Seq(Names) /\ Len(p) = m + 1
            /\ \A i \in 1..m : p[i] = z[1][i]
            /\ p[m + 1] = e.name
        BY <4>3, <4>4, <4>5, <4>6, AppendProperties
      <4>8. PICK w : WalkTo(z[1], w) /\ w[m] = z[2]
        BY <2>2, <4>5 DEF Reached
      <4>9. PICK v : v = [i \in 0..(m + 1) |-> IF i = m + 1 THEN e.number ELSE w[i]]
        OBVIOUS
      <4>10. /\ v[m + 1] = e.number
             /\ \A i \in 0..m : v[i] = w[i] /\ w[i] \in DOMAIN image
        <5>1. w \in [0..m -> DOMAIN image]
          BY <4>5, <4>8 DEF WalkTo
        <5>2. \A i \in 0..m : i \in 0..(m + 1) /\ i # m + 1
          BY <4>5
        <5>3. m + 1 \in 0..(m + 1)
          BY <4>5
        <5>. QED  BY <4>9, <5>1, <5>2, <5>3
      <4>11. v \in [0..Len(p) -> DOMAIN image]
        <5>1. \A i \in 0..(m + 1) : i = m + 1 \/ i \in 0..m
          BY <4>5
        <5>2. \A i \in 0..(m + 1) : v[i] \in DOMAIN image
          BY <4>4, <4>10, <5>1
        <5>. QED  BY <4>7, <4>9, <5>2
      <4>12. v[0] = 0
        <5>1. 0 \in 0..m
          BY <4>5
        <5>. QED  BY <4>8, <4>10, <5>1 DEF WalkTo
      <4>13. ASSUME NEW i \in 1..Len(p)
             PROVE  \E a \in EntriesOf(v[i - 1]) : a.name = p[i] /\ a.number = v[i]
        <5>1. CASE i = m + 1
          <6>1. v[i - 1] = z[2]
            BY <4>5, <4>8, <4>10, <5>1
          <6>2. p[i] = e.name /\ v[i] = e.number
            BY <4>7, <4>10, <5>1
          <6>. QED  BY <6>1, <6>2
        <5>2. CASE i # m + 1
          <6>1. i \in 1..m /\ i - 1 \in 0..m /\ i \in 0..m
            BY <4>5, <4>7, <5>2
          <6>2. \E a \in EntriesOf(w[i - 1]) : a.name = z[1][i] /\ a.number = w[i]
            BY <4>5, <4>8, <6>1 DEF WalkTo
          <6>3. v[i - 1] = w[i - 1] /\ v[i] = w[i] /\ p[i] = z[1][i]
            BY <4>7, <4>10, <6>1
          <6>. QED  BY <6>2, <6>3
        <5>. QED  BY <5>1, <5>2
      <4>14. WalkTo(p, v)
        BY <4>11, <4>12, <4>13 DEF WalkTo
      <4>15. y[1] = p /\ y[2] = e.number
        BY <4>2, <4>6
      <4>16. Reached(y)
        BY <4>7, <4>10, <4>14, <4>15 DEF Reached
      <4>17. Len(y[1]) =< k
        BY <4>5, <4>7, <4>15
      <4>. QED  BY <4>16, <4>17
    <3>. QED  BY <3>1, <3>2
  <2>. QED  BY <1>3, <2>1, <2>3
<1>7. \A k \in 0..n : f[k] \in S
  BY <1>1, <1>5, <1>6, StaysIn
<1>8. n \in 0..n /\ f[n] = n
  BY <1>1, <1>4
<1>9. \A y \in PathsBelow[n] : Len(y[1]) =< n /\ Reached(y)
  BY <1>3, <1>7, <1>8
<1>10. x \in PathsBelow[n]
  BY <1>1 DEF ImagePaths
<1>11. x[1] \in Seq(Names) /\ x[2] \in DOMAIN image
  BY <1>2, <1>8, <1>10
<1>12. Len(x[1]) \in Nat
  BY <1>11, LenProperties
<1>. QED  BY <1>1, <1>9, <1>10, <1>11, <1>12

\* One name, one entry: a path along the loops leads through their directories.
LEMMA AlongStack ==
    ASSUME image \in Images, NEW s \in Seq(Frames), Loops(s), s # <<>>,
           NEW p \in Seq(Names), NEW w, WalkTo(p, w),
           NEW m \in Nat, m =< Len(p), m < Len(s),
           \A k \in 1..m : p[k] = s[k + 1].name
    PROVE  w[m] = s[m + 1].node
<1>1. Len(p) \in Nat /\ Len(s) \in Nat
  BY LenProperties
<1>2. PICK S : S = {k \in 0..m : w[k] = s[k + 1].node}
  OBVIOUS
<1>3. PICK f : f = [k \in 0..m |-> k]
  OBVIOUS
<1>4. f[0] \in S
  <2>1. w[0] = 0 /\ s[1].node = 0
    BY DEF WalkTo, Loops
  <2>. QED  BY <1>2, <1>3, <2>1
<1>5. ASSUME NEW k \in 1..m, f[k - 1] \in S
      PROVE  f[k] \in S
  <2>1. /\ k - 1 \in 0..m /\ k \in 0..m /\ (k - 1) + 1 = k
        /\ k \in 1..Len(p) /\ k \in 1..Len(s) /\ k \in 1..(Len(s) - 1)
    BY <1>1
  <2>2. w[k - 1] = s[k].node
    BY <1>2, <1>3, <1>5, <2>1
  <2>3. PICK x \in EntriesOf(w[k - 1]) : x.name = p[k] /\ x.number = w[k]
    BY <2>1 DEF WalkTo
  <2>4. PICK n : n = s[k].node /\ n \in DOMAIN image
    BY <2>1 DEF Loops
  <2>5. PICK d \in 1..Len(image[n].entries) : x = image[n].entries[d]
    BY <2>2, <2>3, <2>4, EntriesFacts
  <2>6. /\ s[k].e > 1 /\ s[k].e \in 1..(Len(image[n].entries) + 1)
        /\ s[k + 1].name = image[n].entries[s[k].e - 1].name
        /\ s[k + 1].node = image[n].entries[s[k].e - 1].number
    BY <2>1, <2>4 DEF Loops, Table
  <2>7. Len(image[n].entries) \in Nat
    BY <2>4, ImageFacts
  <2>8. s[k].e - 1 \in 1..Len(image[n].entries)
    <3>1. PICK e : e = s[k].e
      OBVIOUS
    <3>2. e > 1 /\ e \in 1..(Len(image[n].entries) + 1)
      BY <2>6, <3>1
    <3>3. e - 1 \in 1..Len(image[n].entries)
      BY <2>7, <3>2
    <3>. QED  BY <3>1, <3>3
  <2>9. image[n].entries[d].name = image[n].entries[s[k].e - 1].name
    BY <2>3, <2>5, <2>6
  <2>10. d = s[k].e - 1
    BY <2>4, <2>8, <2>9, ImageFacts
  <2>11. w[k] = s[k + 1].node
    BY <2>3, <2>5, <2>6, <2>10
  <2>. QED  BY <1>2, <1>3, <2>1, <2>11
<1>6. \A k \in 0..m : f[k] \in S
  BY <1>4, <1>5, StaysIn
<1>7. m \in 0..m /\ f[m] = m
  BY <1>3
<1>. QED  BY <1>2, <1>6, <1>7

LEMMA OutputInjective ==
    ASSUME NEW p \in Seq(Names), NEW q \in Seq(Names), Output \o p = Output \o q
    PROVE  p = q
<1>1. p \in Seq(Parts) /\ q \in Seq(Parts)
  BY SeqMonotonic DEF Parts
<1>2. \A S : \A s, t, v \in Seq(S) : s \o t = s \o v => t = v
  BY ConcatSimplifications
<1>. QED  BY <1>1, <1>2, OutputFacts

\* Where the call is.
LEMMA CallPath ==
    ASSUME WalkInv, call # <<>>
    PROVE  /\ ImagePath \in Seq(Names) /\ Len(ImagePath) = Len(stack)
           /\ Len(stack) \in Nat
           /\ \A k \in 1..(Len(stack) - 1) : ImagePath[k] = stack[k + 1].name
           /\ stack # <<>> => ImagePath[Len(stack)] = call[2]
           /\ Straight => Path = Output \o ImagePath
<1>1. stack \in Seq(Frames) /\ image \in Images /\ Loops(stack) /\ Len(stack) \in Nat
  BY LenProperties DEF WalkInv, Shape, StackInv
<1>2. CASE stack = <<>>
  <2>1. ImagePath = <<>> /\ Len(stack) = 0
    BY <1>2 DEF ImagePath
  <2>2. call[2] = Dot /\ (~strayed => cwd = Output)
    BY <1>2, CallFacts DEF WalkInv, CwdInv
  <2>3. Straight => Path = Output
    BY <2>2 DEF Path, PathOf, Straight
  <2>4. Output \o <<>> = Output
    BY OutputFacts, ConcatEmptySeq
  <2>. QED  BY <1>2, <2>1, <2>3, <2>4
<1>3. CASE stack # <<>>
  <2>1. call[2] \in Names /\ call[2] # Dot
    BY <1>3, CallFacts, UnfsAssumption
  <2>2. PICK names : names = NamesOf(stack)
    OBVIOUS
  <2>3. /\ names \in Seq(Names) /\ Len(names) = Len(stack) - 1
        /\ \A i \in 1..(Len(stack) - 1) : names[i] = stack[i + 1].name
        /\ Len(stack) \in Nat \ {0}
    BY <1>1, <1>3, <2>2, NamesFacts
  <2>4. ImagePath = Append(names, call[2])
    BY <1>3, <2>2 DEF ImagePath
  <2>5. /\ ImagePath \in Seq(Names) /\ Len(ImagePath) = Len(names) + 1
        /\ \A i \in 1..Len(names) : ImagePath[i] = names[i]
        /\ ImagePath[Len(names) + 1] = call[2]
    BY <2>1, <2>3, <2>4, AppendProperties
  <2>6. Len(names) + 1 = Len(stack)
    BY <2>3
  <2>7. ASSUME Straight
        PROVE  Path = Output \o ImagePath
    <3>1. cwd = Output \o names
      BY <1>3, <2>2, <2>7 DEF WalkInv, CwdInv, Straight
    <3>2. Path = Append(Output \o names, call[2])
      BY <2>1, <3>1 DEF Path, PathOf
    <3>3. names \in Seq(Parts) /\ call[2] \in Parts
      BY <2>1, <2>3, SeqMonotonic DEF Parts
    <3>4. Output \o Append(names, call[2]) = Append(Output \o names, call[2])
      BY <3>3, OutputFacts, ConcatAppend
    <3>. QED  BY <2>4, <3>2, <3>4
  <2>. QED  BY <2>3, <2>5, <2>6, <2>7
<1>. QED  BY <1>2, <1>3

\* Every walk along the call's path ends at the call's node.
LEMMA CallNode ==
    ASSUME WalkInv, call # <<>>, NEW w, WalkTo(ImagePath, w)
    PROVE  w[Len(ImagePath)] = call[1]
<1>1. stack \in Seq(Frames) /\ image \in Images /\ Loops(stack)
  BY DEF WalkInv, Shape, StackInv
<1>2. PICK n : n = Len(stack) /\ n \in Nat
  BY CallPath
<1>3. PICK p : p = ImagePath
  OBVIOUS
<1>4. /\ p \in Seq(Names) /\ Len(p) = n
      /\ \A k \in 1..(n - 1) : p[k] = stack[k + 1].name
      /\ stack # <<>> => p[n] = call[2]
      /\ WalkTo(p, w)
  BY <1>2, <1>3, CallPath
<1>5. CASE stack = <<>>
  <2>1. n = 0 /\ call[1] = 0 /\ w[0] = 0
    BY <1>2, <1>4, <1>5, CallFacts DEF WalkTo
  <2>. QED  BY <1>3, <1>4, <2>1
<1>6. CASE stack # <<>>
  <2>1. n \in Nat \ {0} /\ Top = stack[n] /\ Top.node \in DOMAIN image
        /\ Entries = image[Top.node].entries
    BY <1>2, <1>6, TopFacts DEF Table
  <2>2. w[n - 1] = stack[(n - 1) + 1].node
    <3>1. n - 1 \in Nat /\ n - 1 =< Len(p) /\ n - 1 < Len(stack)
      BY <1>2, <1>4, <2>1
    <3>. QED  BY <1>1, <1>4, <1>6, <3>1, AlongStack
  <2>3. w[n - 1] = Top.node
    BY <2>1, <2>2
  <2>4. n \in 1..Len(p)
    BY <1>4, <2>1
  <2>5. PICK x \in EntriesOf(w[n - 1]) : x.name = p[n] /\ x.number = w[n]
    BY <1>4, <2>4 DEF WalkTo
  <2>6. PICK d \in 1..Len(Entries) : x = Entries[d]
    BY <1>1, <2>1, <2>3, <2>5, EntriesFacts
  <2>7. /\ Top.e - 1 \in 1..Len(Entries)
        /\ call[1] = Entries[Top.e - 1].number
        /\ call[2] = Entries[Top.e - 1].name
    BY <1>6, CallFacts
  <2>8. Entries[d].name = Entries[Top.e - 1].name
    BY <1>4, <1>6, <2>5, <2>6, <2>7
  <2>9. d = Top.e - 1
    BY <1>1, <2>1, <2>7, <2>8, ImageFacts
  <2>. QED  BY <1>3, <1>4, <2>5, <2>6, <2>7, <2>9
<1>. QED  BY <1>5, <1>6

LEMMA UnderFacts ==
    ASSUME NEW p \in Seq(Names), NEW q \in Seq(Names), Under(p, q), p # q
    PROVE  Len(q) < Len(p)
<1>1. Len(p) \in Nat /\ Len(q) \in Nat
  BY LenProperties
<1>2. CASE Len(p) = Len(q)
  <2>1. \A k \in 1..Len(p) : p[k] = q[k]
    BY <1>2 DEF Under
  <2>. QED  BY <1>2, <2>1, SeqEqual
<1>. QED  BY <1>1, <1>2 DEF Under

\* What a path into a directory whose entries are below the call's is met by.
LEMMA BelowCall ==
    ASSUME WalkInv, call # <<>>, NEW x \in ImagePaths
    PROVE  /\ x[1] = ImagePath => x[2] = call[1]
           /\ Under(x[1], ImagePath) /\ x[1] # ImagePath =>
                 /\ Len(stack) < Len(x[1])
                 /\ Node.type = "directory"
                 /\ \E e \in 1..Len(Node.entries) :
                       Node.entries[e].name = x[1][Len(stack) + 1]
<1>1. image \in Images
  BY DEF WalkInv, Shape
<1>2. PICK p : p = x[1] /\ p \in Seq(Names)
  BY <1>1, PathWalks
<1>3. PICK w : WalkTo(p, w) /\ w[Len(p)] = x[2]
  BY <1>1, <1>2, PathWalks DEF Reached
<1>4. PICK q : q = ImagePath /\ q \in Seq(Names) /\ Len(q) = Len(stack)
               /\ Len(stack) \in Nat
  BY CallPath
<1>5. ASSUME p = q
      PROVE  x[2] = call[1]
  BY <1>3, <1>4, <1>5, CallNode
<1>6. ASSUME Under(p, q), p # q
      PROVE  /\ Len(stack) < Len(p)
             /\ Node.type = "directory"
             /\ \E e \in 1..Len(Node.entries) :
                   Node.entries[e].name = p[Len(stack) + 1]
  <2>1. PICK n : n = Len(stack) /\ n \in Nat /\ Len(q) = n /\ n < Len(p)
                 /\ Len(p) \in Nat
    BY <1>2, <1>4, <1>6, UnderFacts, LenProperties
  <2>2. PICK v : v = [k \in 0..n |-> w[k]]
    OBVIOUS
  <2>3. WalkTo(q, v)
    <3>1. \A k \in 1..n : k \in 1..Len(p) /\ k - 1 \in 0..n /\ k \in 0..n
      BY <2>1
    <3>2. \A k \in 0..n : k \in 0..Len(p)
      BY <2>1
    <3>3. w \in [0..Len(p) -> DOMAIN image] /\ w[0] = 0
      BY <1>3 DEF WalkTo
    <3>4. v \in [0..n -> DOMAIN image]
      BY <2>2, <3>2, <3>3
    <3>5. v[0] = 0
      <4>1. 0 \in 0..n
        BY <2>1
      <4>. QED  BY <2>2, <3>3, <4>1
    <3>6. ASSUME NEW k \in 1..n
          PROVE  \E y \in EntriesOf(v[k - 1]) : y.name = q[k] /\ y.number = v[k]
      <4>1. \E y \in EntriesOf(w[k - 1]) : y.name = p[k] /\ y.number = w[k]
        BY <1>3, <3>1 DEF WalkTo
      <4>2. p[k] = q[k]
        BY <1>6, <2>1 DEF Under
      <4>3. v[k - 1] = w[k - 1] /\ v[k] = w[k]
        BY <2>2, <3>1
      <4>. QED  BY <4>1, <4>2, <4>3
    <3>. QED  BY <2>1, <3>4, <3>5, <3>6 DEF WalkTo
  <2>4. w[n] = call[1]
    <3>1. v[n] = call[1]
      BY <1>4, <2>1, <2>3, CallNode
    <3>2. n \in 0..n
      BY <2>1
    <3>. QED  BY <2>2, <3>1, <3>2
  <2>5. n + 1 \in 1..Len(p) /\ (n + 1) - 1 = n
    BY <2>1
  <2>6. PICK y \in EntriesOf(w[(n + 1) - 1]) : y.name = p[n + 1]
    BY <1>3, <2>5 DEF WalkTo
  <2>7. y \in EntriesOf(call[1]) /\ call[1] \in DOMAIN image /\ Node = image[call[1]]
    BY <2>4, <2>5, <2>6, CallFacts
  <2>8. /\ image[call[1]].type = "directory"
        /\ \E e \in 1..Len(image[call[1]].entries) : y = image[call[1]].entries[e]
    BY <1>1, <2>7, EntriesFacts
  <2>. QED  BY <2>1, <2>6, <2>7, <2>8
<1>. QED  BY <1>2, <1>4, <1>5, <1>6

\* A path is at or below an entry of the innermost loop, or it is not.
LEMMA UnderEntry ==
    ASSUME WalkInv, stack # <<>>, NEW name \in Names, NEW p \in Seq(Names)
    PROVE  /\ Append(NamesOf(stack), name) \in Seq(Names)
           /\ Under(p, Append(NamesOf(stack), name)) <=>
                 /\ Len(stack) =< Len(p)
                 /\ \A k \in 1..(Len(stack) - 1) : p[k] = stack[k + 1].name
                 /\ p[Len(stack)] = name
<1>1. stack \in Seq(Frames) /\ image \in Images /\ Loops(stack)
  BY DEF WalkInv, Shape, StackInv
<1>2. PICK names : names = NamesOf(stack)
  OBVIOUS
<1>3. PICK n : n = Len(stack) /\ n \in Nat \ {0}
  BY <1>1, NamesFacts
<1>4. /\ names \in Seq(Names) /\ Len(names) = n - 1
      /\ \A i \in 1..(n - 1) : names[i] = stack[i + 1].name
  BY <1>1, <1>2, <1>3, NamesFacts
<1>5. PICK q : q = Append(names, name)
  OBVIOUS
<1>6. /\ q \in Seq(Names) /\ Len(q) = n
      /\ \A i \in 1..(n - 1) : q[i] = stack[i + 1].name
      /\ q[n] = name
  <2>1. /\ q \in Seq(Names) /\ Len(q) = Len(names) + 1
        /\ \A i \in 1..Len(names) : q[i] = names[i]
        /\ q[Len(names) + 1] = name
    BY <1>4, <1>5, AppendProperties
  <2>2. Len(names) + 1 = n
    BY <1>3, <1>4
  <2>. QED  BY <1>4, <2>1, <2>2
<1>7. \A k \in 1..n : k = n \/ k \in 1..(n - 1)
  BY <1>3
<1>8. n \in 1..n /\ \A k \in 1..(n - 1) : k \in 1..n
  BY <1>3
<1>9. Under(p, q) <=> /\ n =< Len(p)
                      /\ \A k \in 1..(n - 1) : p[k] = stack[k + 1].name
                      /\ p[n] = name
  BY <1>6, <1>7, <1>8 DEF Under
<1>. QED  BY <1>2, <1>3, <1>5, <1>6, <1>9

\* What waits while a loop goes on.
LEMMA AdvanceWaits ==
    ASSUME WalkInv, stack # <<>>, HasEntry, NEW p \in Seq(Names)
    PROVE  LET next == Append(NamesOf(stack), Entries[Top.e].name) IN
           /\ next \in Seq(Names)
           /\ Waits(p, stack) <=> Waits(p, Advanced) \/ Under(p, next)
<1>1. PICK n : n = Len(stack) /\ n \in Nat \ {0}
  BY TopFacts
<1>2. /\ Len(Advanced) = n
      /\ \A i \in 1..(n - 1) : Advanced[i] = stack[i]
      /\ Advanced[n] = [node |-> Top.node, name |-> Top.name, e |-> Top.e + 1]
      /\ \A i \in 1..n : Advanced[i].name = stack[i].name
      /\ Top.e \in 1..Len(Entries)
  BY <1>1, AdvancedFacts
<1>3. /\ Top = stack[n] /\ Entries = Table(Top) /\ Len(Entries) \in Nat
      /\ Entries[Top.e].name \in Names
  BY <1>1, <1>2, TopFacts
<1>4. PICK next : next = Append(NamesOf(stack), Entries[Top.e].name)
  OBVIOUS
<1>5. /\ next \in Seq(Names)
      /\ Under(p, next) <=> /\ n =< Len(p)
                            /\ \A k \in 1..(n - 1) : p[k] = stack[k + 1].name
                            /\ p[n] = Entries[Top.e].name
  BY <1>1, <1>3, <1>4, UnderEntry
<1>6. ASSUME NEW i \in 1..(n - 1)
      PROVE  LoopWaits(p, Advanced, i) <=> LoopWaits(p, stack, i)
  <2>1. Advanced[i] = stack[i]
    BY <1>2
  <2>2. \A k \in 1..(i - 1) : Advanced[k + 1].name = stack[k + 1].name
    <3>1. \A k \in 1..(i - 1) : k + 1 \in 1..n
      BY <1>1
    <3>. QED  BY <1>2, <3>1
  <2>. QED  BY <2>1, <2>2 DEF LoopWaits
<1>7. LoopWaits(p, stack, n) <=> LoopWaits(p, Advanced, n) \/ Under(p, next)
  <2>1. PICK frame : frame = Advanced[n]
    OBVIOUS
  <2>2. frame.e = Top.e + 1 /\ Table(frame) = Entries
    BY <1>2, <1>3, <2>1 DEF Table
  <2>3. \A k \in 1..(n - 1) : Advanced[k + 1].name = stack[k + 1].name
    <3>1. \A k \in 1..(n - 1) : k + 1 \in 1..n
      BY <1>1
    <3>. QED  BY <1>2, <3>1
  <2>4. (\E e \in Top.e..Len(Entries) : Entries[e].name = p[n])
           <=> \/ \E e \in (Top.e + 1)..Len(Entries) : Entries[e].name = p[n]
               \/ Entries[Top.e].name = p[n]
    <3>1. PICK a : a = Top.e /\ a \in 1..Len(Entries)
      BY <1>2
    <3>2. \A e \in a..Len(Entries) : e = a \/ e \in (a + 1)..Len(Entries)
      BY <1>3, <3>1
    <3>3. a \in a..Len(Entries)
          /\ \A e \in (a + 1)..Len(Entries) : e \in a..Len(Entries)
      BY <1>3, <3>1
    <3>. QED  BY <3>1, <3>2, <3>3
  <2>5. LoopWaits(p, stack, n) <=>
           /\ n =< Len(p)
           /\ \A k \in 1..(n - 1) : p[k] = stack[k + 1].name
           /\ \E e \in Top.e..Len(Entries) : Entries[e].name = p[n]
    BY <1>3 DEF LoopWaits
  <2>6. LoopWaits(p, Advanced, n) <=>
           /\ n =< Len(p)
           /\ \A k \in 1..(n - 1) : p[k] = stack[k + 1].name
           /\ \E e \in (Top.e + 1)..Len(Entries) : Entries[e].name = p[n]
    BY <2>1, <2>2, <2>3 DEF LoopWaits
  <2>. QED  BY <1>5, <2>4, <2>5, <2>6
<1>8. \A i \in 1..n : i = n \/ i \in 1..(n - 1)
  BY <1>1
<1>9. n \in 1..n /\ \A i \in 1..(n - 1) : i \in 1..n
  BY <1>1
<1>10. Waits(p, stack) <=> Waits(p, Advanced) \/ Under(p, next)
  BY <1>1, <1>2, <1>6, <1>7, <1>8, <1>9 DEF Waits
<1>. QED  BY <1>4, <1>5, <1>10

\* The one that is called does not wait.
LEMMA CalledNotWaiting ==
    ASSUME WalkInv, call # <<>>
    PROVE  ~Waits(ImagePath, stack)
<1>1. stack \in Seq(Frames) /\ image \in Images /\ Loops(stack)
  BY DEF WalkInv, Shape, StackInv
<1>2. PICK p : p = ImagePath
  OBVIOUS
<1>3. PICK n : n = Len(stack) /\ n \in Nat /\ Len(p) = n
  BY <1>2, CallPath
<1>4. /\ \A k \in 1..(n - 1) : p[k] = stack[k + 1].name
      /\ stack # <<>> => p[n] = call[2]
  BY <1>2, <1>3, CallPath
<1>5. ASSUME NEW i \in 1..n, LoopWaits(p, stack, i)
      PROVE  FALSE
  <2>1. PICK m : m = stack[i].node /\ m \in DOMAIN image
    BY <1>1, <1>3 DEF Loops
  <2>2. PICK table : table = image[m].entries /\ Table(stack[i]) = table
    BY <2>1 DEF Table
  <2>3. PICK a : a = stack[i].e
    OBVIOUS
  <2>4. Len(table) \in Nat /\ a \in 1..(Len(table) + 1)
    BY <1>1, <1>3, <2>1, <2>2, <2>3, ImageFacts DEF Loops
  <2>5. a - 1 \in 1..Len(table) /\ p[i] = table[a - 1].name
    <3>1. CASE i = n
      <4>1. stack # <<>>
        BY <1>3, <1>5
      <4>2. /\ Top = stack[n] /\ Entries = Table(Top)
            /\ Top.e - 1 \in 1..Len(Entries)
            /\ call[2] = Entries[Top.e - 1].name
        BY <1>3, <4>1, TopFacts, CallFacts
      <4>. QED  BY <1>4, <2>2, <2>3, <3>1, <4>1, <4>2
    <3>2. CASE i # n
      <4>1. i \in 1..(n - 1)
        BY <1>3, <3>2
      <4>2. a > 1 /\ stack[i + 1].name = table[a - 1].name
        BY <1>1, <1>3, <2>2, <2>3, <4>1 DEF Loops
      <4>3. a - 1 \in 1..Len(table)
        BY <2>4, <4>2
      <4>. QED  BY <1>4, <4>1, <4>2, <4>3
    <3>. QED  BY <3>1, <3>2
  <2>6. PICK e \in a..Len(table) : table[e].name = p[i]
    BY <1>5, <2>2, <2>3 DEF LoopWaits
  <2>7. e \in 1..Len(table) /\ e # a - 1
    BY <2>4, <2>6
  <2>8. \A d, f \in 1..Len(table) : table[d].name = table[f].name => d = f
    BY <1>1, <2>1, <2>2, ImageFacts
  <2>9. table[e].name = table[a - 1].name
    BY <2>5, <2>6
  <2>. QED  BY <2>5, <2>7, <2>8, <2>9
<1>. QED  BY <1>2, <1>3, <1>5 DEF Waits

LEMMA EnterWaits ==
    ASSUME WalkInv, call # <<>>, NEW p \in Seq(Names), NEW s,
           s = Append(stack, [node |-> call[1], name |-> call[2], e |-> 1])
    PROVE  /\ Waits(p, s) => Waits(p, stack) \/ Under(p, ImagePath)
           /\ Waits(p, stack) => Waits(p, s)
           /\ Open(p, s) <=> Open(p, stack) \/ p = ImagePath
           /\ Under(p, ImagePath) /\ Len(stack) < Len(p)
              /\ (\E e \in 1..Len(Node.entries) :
                     Node.entries[e].name = p[Len(stack) + 1]) => Waits(p, s)
<1>1. stack \in Seq(Frames) /\ image \in Images /\ Loops(stack)
  BY DEF WalkInv, Shape, StackInv
<1>2. PICK q : q = ImagePath
  OBVIOUS
<1>3. PICK n : n = Len(stack) /\ n \in Nat /\ Len(q) = n
  BY <1>2, CallPath
<1>4. /\ \A k \in 1..(n - 1) : q[k] = stack[k + 1].name
      /\ stack # <<>> => q[n] = call[2]
      /\ q \in Seq(Names)
  BY <1>2, <1>3, CallPath
<1>5. PICK frame : frame = [node |-> call[1], name |-> call[2], e |-> 1]
  OBVIOUS
<1>6. /\ frame \in Frames /\ frame.node = call[1] /\ frame.name = call[2]
      /\ frame.e = 1 /\ Node = image[call[1]] /\ call[1] \in DOMAIN image
  <2>1. call[1] \in DOMAIN image /\ call[1] \in Nat /\ Node = image[call[1]]
        /\ call[2] \in Names \cup {Dot}
    BY CallFacts
  <2>. QED  BY <1>5, <2>1 DEF Frames
<1>7. /\ s \in Seq(Frames) /\ Len(s) = n + 1
      /\ \A i \in 1..n : s[i] = stack[i]
      /\ s[n + 1] = frame
  BY <1>1, <1>3, <1>5, <1>6, AppendProperties
<1>8. \A k \in 1..n : s[k + 1].name = q[k]
  <2>1. ASSUME NEW k \in 1..n
        PROVE  s[k + 1].name = q[k]
    <3>1. CASE k = n
      <4>1. stack # <<>>
        BY <1>3, <2>1
      <4>. QED  BY <1>4, <1>6, <1>7, <3>1, <4>1
    <3>2. CASE k # n
      <4>1. k \in 1..(n - 1) /\ k + 1 \in 1..n
        BY <1>3, <3>2
      <4>. QED  BY <1>4, <1>7, <4>1
    <3>. QED  BY <3>1, <3>2
  <2>. QED  BY <2>1
<1>9. ASSUME NEW i \in 1..n
      PROVE  LoopWaits(p, s, i) <=> LoopWaits(p, stack, i)
  <2>1. \A k \in 1..(i - 1) : k + 1 \in 1..n
    BY <1>3
  <2>2. \A k \in 1..(i - 1) : s[k + 1] = stack[k + 1]
    BY <1>7, <2>1
  <2>. QED  BY <1>7, <2>2 DEF LoopWaits
<1>10. LoopWaits(p, s, n + 1) <=>
          /\ n + 1 =< Len(p)
          /\ \A k \in 1..n : p[k] = q[k]
          /\ \E e \in 1..Len(Node.entries) : Node.entries[e].name = p[n + 1]
  <2>1. Table(frame) = Node.entries /\ (n + 1) - 1 = n
    BY <1>3, <1>6 DEF Table
  <2>. QED  BY <1>6, <1>7, <1>8, <2>1 DEF LoopWaits
<1>11. \A i \in 1..(n + 1) : i = n + 1 \/ i \in 1..n
  BY <1>3
<1>12. n + 1 \in 1..(n + 1) /\ \A i \in 1..n : i \in 1..(n + 1)
  BY <1>3
<1>13. Waits(p, s) <=> Waits(p, stack) \/ LoopWaits(p, s, n + 1)
  BY <1>3, <1>7, <1>9, <1>11, <1>12 DEF Waits
<1>14. Len(p) \in Nat
  BY LenProperties
<1>15. Under(p, q) <=> n =< Len(p) /\ \A k \in 1..n : p[k] = q[k]
  BY <1>3 DEF Under
<1>16. LoopWaits(p, s, n + 1) => Under(p, q)
  BY <1>3, <1>10, <1>14, <1>15
<1>17. Open(p, s) <=> Open(p, stack) \/ p = q
  <2>1. Open(p, s) <=> Len(p) < n + 1 /\ \A k \in 1..Len(p) : p[k] = s[k + 1].name
    BY <1>7 DEF Open
  <2>2. CASE Len(p) < n
    <3>1. \A k \in 1..Len(p) : k + 1 \in 1..n
      BY <1>3, <1>14, <2>2
    <3>2. \A k \in 1..Len(p) : s[k + 1] = stack[k + 1]
      BY <1>7, <3>1
    <3>3. p # q
      BY <1>3, <2>2
    <3>4. Len(p) < n + 1
      BY <1>3, <1>14, <2>2
    <3>. QED  BY <1>3, <2>1, <2>2, <3>2, <3>3, <3>4 DEF Open
  <2>3. CASE Len(p) = n
    <3>1. ~Open(p, stack)
      BY <1>3, <2>3 DEF Open
    <3>2. Open(p, s) <=> \A k \in 1..n : p[k] = q[k]
      BY <1>3, <1>8, <2>1, <2>3
    <3>3. p = q <=> \A k \in 1..n : p[k] = q[k]
      BY <1>3, <1>4, <2>3, SeqEqual
    <3>. QED  BY <3>1, <3>2, <3>3
  <2>4. CASE Len(p) > n
    <3>1. ~Open(p, stack) /\ ~Open(p, s) /\ p # q
      BY <1>3, <1>7, <1>14, <2>4 DEF Open
    <3>. QED  BY <3>1
  <2>. QED  BY <1>3, <1>14, <2>2, <2>3, <2>4
<1>18. Under(p, q) /\ n < Len(p)
       /\ (\E e \in 1..Len(Node.entries) : Node.entries[e].name = p[n + 1])
          => LoopWaits(p, s, n + 1)
  <2>1. n < Len(p) => n + 1 =< Len(p)
    BY <1>3, <1>14
  <2>. QED  BY <1>10, <1>15, <2>1
<1>. QED  BY <1>2, <1>3, <1>13, <1>16, <1>17, <1>18

LEMMA LeaveWaits ==
    ASSUME WalkInv, stack # <<>>, LoopEnds, NEW p \in Seq(Names)
    PROVE  /\ Waits(p, Front(stack)) <=> Waits(p, stack)
           /\ Open(p, stack) <=> Open(p, Front(stack)) \/ p = NamesOf(stack)
<1>1. stack \in Seq(Frames) /\ image \in Images /\ Loops(stack)
  BY DEF WalkInv, Shape, StackInv
<1>2. PICK n : n = Len(stack) /\ n \in Nat \ {0}
  BY TopFacts
<1>3. PICK s : s = Front(stack)
  OBVIOUS
<1>4. Len(s) = n - 1 /\ \A i \in 1..(n - 1) : s[i] = stack[i]
  BY <1>2, <1>3, LeftFacts
<1>5. /\ NamesOf(stack) \in Seq(Names) /\ Len(NamesOf(stack)) = n - 1
      /\ \A i \in 1..(n - 1) : NamesOf(stack)[i] = stack[i + 1].name
  BY <1>1, <1>2, NamesFacts
<1>6. ASSUME NEW i \in 1..(n - 1)
      PROVE  LoopWaits(p, s, i) <=> LoopWaits(p, stack, i)
  <2>1. \A k \in 1..(i - 1) : k + 1 \in 1..(n - 1)
    BY <1>2
  <2>2. \A k \in 1..(i - 1) : s[k + 1] = stack[k + 1]
    BY <1>4, <2>1
  <2>. QED  BY <1>4, <2>2 DEF LoopWaits
<1>7. ~LoopWaits(p, stack, n)
  <2>1. /\ Top = stack[n] /\ Entries = Table(Top) /\ Len(Entries) \in Nat
        /\ Top.e \in 1..(Len(Entries) + 1) /\ ~(Top.e =< Len(Entries))
    BY <1>2, TopFacts DEF LoopEnds, HasEntry
  <2>2. Top.e..Len(Entries) = {}
    BY <2>1
  <2>. QED  BY <2>1, <2>2 DEF LoopWaits
<1>8. \A i \in 1..n : i = n \/ i \in 1..(n - 1)
  BY <1>2
<1>9. \A i \in 1..(n - 1) : i \in 1..n
  BY <1>2
<1>10. Waits(p, s) <=> Waits(p, stack)
  BY <1>2, <1>4, <1>6, <1>7, <1>8, <1>9 DEF Waits
<1>11. Open(p, stack) <=> Open(p, s) \/ p = NamesOf(stack)
  <2>1. Len(p) \in Nat
    BY LenProperties
  <2>2. CASE Len(p) < n - 1
    <3>1. \A k \in 1..Len(p) : k + 1 \in 1..(n - 1)
      BY <1>2, <2>1, <2>2
    <3>2. \A k \in 1..Len(p) : s[k + 1] = stack[k + 1]
      BY <1>4, <3>1
    <3>3. p # NamesOf(stack)
      BY <1>2, <1>5, <2>2
    <3>4. Len(p) < n
      BY <1>2, <2>1, <2>2
    <3>. QED  BY <1>2, <1>4, <2>2, <3>2, <3>3, <3>4 DEF Open
  <2>3. CASE Len(p) = n - 1
    <3>1. ~Open(p, s)
      BY <1>2, <1>4, <2>3 DEF Open
    <3>2. Open(p, stack) <=> \A k \in 1..(n - 1) : p[k] = NamesOf(stack)[k]
      BY <1>2, <1>5, <2>3 DEF Open
    <3>3. p = NamesOf(stack) <=> \A k \in 1..(n - 1) : p[k] = NamesOf(stack)[k]
      BY <1>2, <1>5, <2>3, SeqEqual
    <3>. QED  BY <3>1, <3>2, <3>3
  <2>4. CASE Len(p) > n - 1
    <3>1. ~Open(p, stack) /\ ~Open(p, s) /\ p # NamesOf(stack)
      BY <1>2, <1>4, <1>5, <2>1, <2>4 DEF Open
    <3>. QED  BY <3>1
  <2>. QED  BY <1>2, <2>1, <2>2, <2>3, <2>4
<1>. QED  BY <1>3, <1>10, <1>11

(***************************************************************************)
(* The file system                                                         *)

(***************************************************************************)
(* The file system                                                         *)
(***************************************************************************)
Tree(f) == f \in [DOMAIN f -> Files]

\* What is at q is the same, or the same but for its mode and its owner.
Same(f, g, q) == /\ q \in DOMAIN f <=> q \in DOMAIN g
                 /\ q \in DOMAIN f => f[q] = g[q]
Akin(f, g, q) == /\ q \in DOMAIN f <=> q \in DOMAIN g
                 /\ q \in DOMAIN f => /\ f[q].type = g[q].type
                                      /\ f[q].content = g[q].content
                                      /\ f[q].target = g[q].target

\* What could be searched still can.
Kept(f, g) == \A q : Searchable(f, q) => Searchable(g, q)

LEMMA SameKept ==
    ASSUME NEW f, NEW g, \A q : Searchable(f, q) => Same(g, f, q)
    PROVE  Kept(f, g)
BY DEF Kept, Same, Searchable

LEMMA KeptTwice ==
    ASSUME NEW f, NEW g, NEW h, Kept(f, g), Kept(g, h)
    PROVE  Kept(f, h)
BY DEF Kept

LEMMA WithFacts ==
    ASSUME NEW f, Tree(f), NEW path, NEW file \in Files
    PROVE  /\ Tree(With(f, path, file))
           /\ path \in DOMAIN With(f, path, file)
           /\ With(f, path, file)[path] = file
           /\ \A q : q # path => Same(With(f, path, file), f, q)
           /\ (path \in DOMAIN f => f[path].type # "directory") =>
                 Kept(f, With(f, path, file))
<1>1. PICK g : g = With(f, path, file)
  OBVIOUS
<1>2. /\ DOMAIN g = DOMAIN f \cup {path}
      /\ \A q \in DOMAIN f \cup {path} : g[q] = IF q = path THEN file ELSE f[q]
      /\ g = [q \in DOMAIN f \cup {path} |-> g[q]]
  BY <1>1 DEF With
<1>3. \A q \in DOMAIN f : f[q] \in Files
  BY DEF Tree
<1>4. \A q \in DOMAIN g : g[q] \in Files
  BY <1>2, <1>3
<1>5. Tree(g)
  BY <1>2, <1>4 DEF Tree
<1>6. \A q : q # path => Same(g, f, q)
  BY <1>2 DEF Same
<1>7. ASSUME path \in DOMAIN f => f[path].type # "directory"
      PROVE  Kept(f, g)
  <2>1. \A q : Searchable(f, q) => q # path
    BY <1>7 DEF Searchable
  <2>. QED  BY <1>6, <2>1, SameKept
<1>. QED  BY <1>1, <1>2, <1>5, <1>6, <1>7

LEMMA WithoutFacts ==
    ASSUME NEW f, Tree(f), NEW path
    PROVE  /\ Tree(Without(f, path))
           /\ path \notin DOMAIN Without(f, path)
           /\ \A q : q # path => Same(Without(f, path), f, q)
<1>1. PICK g : g = Without(f, path)
  OBVIOUS
<1>2. /\ DOMAIN g = DOMAIN f \ {path}
      /\ \A q \in DOMAIN f \ {path} : g[q] = f[q]
      /\ g = [q \in DOMAIN f \ {path} |-> g[q]]
  BY <1>1 DEF Without
<1>3. \A q \in DOMAIN g : g[q] \in Files
  BY <1>2 DEF Tree
<1>4. Tree(g)
  BY <1>2, <1>3 DEF Tree
<1>5. \A q : q # path => Same(g, f, q)
  BY <1>2 DEF Same
<1>. QED  BY <1>1, <1>2, <1>4, <1>5

LEMMA UnlinkedFacts ==
    ASSUME Tree(fs)
    PROVE  /\ Tree(Unlinked) /\ Kept(fs, Unlinked)
           /\ \A q : q # Path => Same(Unlinked, fs, q)
           /\ Path \in DOMAIN Unlinked => /\ Path \in DOMAIN fs
                                          /\ Unlinked = fs
           /\ Path \in DOMAIN Unlinked /\ privileged /\ Searchable(fs, cwd) =>
                 fs[Path].type = "directory"
<1>1. CASE Exists(Path) /\ fs[Path].type # "directory" /\ MayChange
  <2>1. Unlinked = Without(fs, Path)
    BY <1>1 DEF Unlinked
  <2>2. \A q : q # Path => Same(Without(fs, Path), fs, q)
    BY WithoutFacts
  <2>3. \A q : Searchable(fs, q) => q # Path
    BY <1>1 DEF Searchable
  <2>4. Kept(fs, Unlinked)
    BY <2>1, <2>2, <2>3, SameKept
  <2>. QED  BY <2>1, <2>4, WithoutFacts
<1>2. CASE ~(Exists(Path) /\ fs[Path].type # "directory" /\ MayChange)
  <2>1. Unlinked = fs
    BY <1>2 DEF Unlinked
  <2>2. \A q : Same(fs, fs, q)
    BY DEF Same
  <2>3. Path \in DOMAIN fs /\ privileged /\ Searchable(fs, cwd) =>
           fs[Path].type = "directory"
    BY <1>2 DEF Exists, MayChange, May
  <2>4. Kept(fs, fs)
    BY DEF Kept
  <2>. QED  BY <2>1, <2>2, <2>3, <2>4
<1>. QED  BY <1>1, <1>2

\* chmod and chown keep types, contents and targets.
LEMMA ChangedFacts ==
    ASSUME NEW f, Tree(f), NEW dir, NEW name, NEW node,
           node.mode \in SUBSET Permissions, node.owner \in Owners
    PROVE  LET g == Changed(f, dir, name, node)
               path == PathOf(dir, name)
           IN  /\ Tree(g)
               /\ \A q : Akin(g, f, q)
               /\ \A q : q # path /\ q \notin Leads(f, dir, name) => Same(g, f, q)
               /\ \A q \in DOMAIN f :
                     /\ q # path \/ ~privileged => g[q].owner = f[q].owner
                     /\ q = path /\ privileged => g[q].owner = node.owner
                     /\ g[q].mode =
                           IF /\ q \in Leads(f, dir, name)
                              /\ privileged \/ f[q].owner = User
                           THEN node.mode ELSE f[q].mode
<1>1. PICK path, leads : path = PathOf(dir, name) /\ leads = Leads(f, dir, name)
  OBVIOUS
<1>2. PICK moded : moded = [q \in DOMAIN f |->
                              IF q \in leads /\ (privileged \/ f[q].owner = User)
                              THEN [f[q] EXCEPT !.mode = node.mode] ELSE f[q]]
  OBVIOUS
<1>3. PICK g : g = IF privileged /\ path \in DOMAIN f
                   THEN [moded EXCEPT ![path].owner = node.owner] ELSE moded
  OBVIOUS
<1>4. g = Changed(f, dir, name, node)
  BY <1>1, <1>2, <1>3 DEF Changed
<1>5. \A q \in DOMAIN f : f[q] \in Files
  BY DEF Tree
<1>6. ASSUME NEW r \in Files
      PROVE  /\ [r EXCEPT !.mode = node.mode] \in Files
             /\ [r EXCEPT !.mode = node.mode].mode = node.mode
             /\ [r EXCEPT !.mode = node.mode].owner = r.owner
             /\ [r EXCEPT !.mode = node.mode].type = r.type
             /\ [r EXCEPT !.mode = node.mode].content = r.content
             /\ [r EXCEPT !.mode = node.mode].target = r.target
  BY DEF Files
<1>7. ASSUME NEW r \in Files
      PROVE  /\ [r EXCEPT !.owner = node.owner] \in Files
             /\ [r EXCEPT !.owner = node.owner].owner = node.owner
             /\ [r EXCEPT !.owner = node.owner].mode = r.mode
             /\ [r EXCEPT !.owner = node.owner].type = r.type
             /\ [r EXCEPT !.owner = node.owner].content = r.content
             /\ [r EXCEPT !.owner = node.owner].target = r.target
  BY DEF Files
<1>8. /\ DOMAIN moded = DOMAIN f /\ Tree(moded)
      /\ \A q \in DOMAIN f :
            /\ moded[q] \in Files
            /\ moded[q].type = f[q].type
            /\ moded[q].content = f[q].content
            /\ moded[q].target = f[q].target
            /\ moded[q].owner = f[q].owner
            /\ moded[q].mode = IF q \in leads /\ (privileged \/ f[q].owner = User)
                               THEN node.mode ELSE f[q].mode
            /\ q \notin leads => moded[q] = f[q]
  <2>1. DOMAIN moded = DOMAIN f
    BY <1>2
  <2>2. ASSUME NEW q \in DOMAIN f
        PROVE  /\ moded[q] \in Files
               /\ moded[q].type = f[q].type
               /\ moded[q].content = f[q].content
               /\ moded[q].target = f[q].target
               /\ moded[q].owner = f[q].owner
               /\ moded[q].mode = IF q \in leads /\ (privileged \/ f[q].owner = User)
                                  THEN node.mode ELSE f[q].mode
               /\ q \notin leads => moded[q] = f[q]
    <3>1. CASE q \in leads /\ (privileged \/ f[q].owner = User)
      <4>1. moded[q] = [f[q] EXCEPT !.mode = node.mode]
        BY <1>2, <3>1
      <4>. QED  BY <1>5, <1>6, <3>1, <4>1
    <3>2. CASE ~(q \in leads /\ (privileged \/ f[q].owner = User))
      <4>1. moded[q] = f[q]
        BY <1>2, <3>2
      <4>. QED  BY <1>5, <3>2, <4>1
    <3>. QED  BY <3>1, <3>2
  <2>3. moded \in [DOMAIN f -> Files]
    BY <1>2, <2>1, <2>2
  <2>. QED  BY <2>1, <2>2, <2>3 DEF Tree
<1>9. /\ DOMAIN g = DOMAIN f /\ Tree(g)
      /\ \A q \in DOMAIN f :
            /\ g[q].type = f[q].type
            /\ g[q].content = f[q].content
            /\ g[q].target = f[q].target
            /\ q # path \/ ~privileged => g[q].owner = f[q].owner
            /\ q = path /\ privileged => g[q].owner = node.owner
            /\ g[q].mode = moded[q].mode
            /\ q \notin leads /\ q # path => g[q] = f[q]
  <2>1. CASE privileged /\ path \in DOMAIN f
    <3>1. g = [moded EXCEPT ![path] = [moded[path] EXCEPT !.owner = node.owner]]
      BY <1>3, <2>1
    <3>2. PICK r : r = [moded[path] EXCEPT !.owner = node.owner]
      OBVIOUS
    <3>3. moded[path] \in Files
      BY <1>8, <2>1
    <3>4. /\ r \in Files /\ r.owner = node.owner /\ r.mode = moded[path].mode
          /\ r.type = moded[path].type
          /\ r.content = moded[path].content /\ r.target = moded[path].target
      BY <1>7, <3>2, <3>3
    <3>5. /\ DOMAIN g = DOMAIN f /\ g[path] = r
          /\ \A q \in DOMAIN f : q # path => g[q] = moded[q]
          /\ g \in [DOMAIN f -> Files]
      BY <1>8, <2>1, <3>1, <3>2, <3>4 DEF Tree
    <3>6. ASSUME NEW q \in DOMAIN f
          PROVE  /\ g[q].type = f[q].type
                 /\ g[q].content = f[q].content
                 /\ g[q].target = f[q].target
                 /\ q # path \/ ~privileged => g[q].owner = f[q].owner
                 /\ q = path /\ privileged => g[q].owner = node.owner
                 /\ g[q].mode = moded[q].mode
                 /\ q \notin leads /\ q # path => g[q] = f[q]
      <4>1. CASE q = path
        BY <1>8, <2>1, <3>4, <3>5, <4>1
      <4>2. CASE q # path
        BY <1>8, <3>5, <4>2
      <4>. QED  BY <4>1, <4>2
    <3>. QED  BY <3>5, <3>6 DEF Tree
  <2>2. CASE ~(privileged /\ path \in DOMAIN f)
    <3>1. g = moded
      BY <1>3, <2>2
    <3>. QED  BY <1>8, <2>2, <3>1
  <2>. QED  BY <2>1, <2>2
<1>10. \A q : Akin(g, f, q)
  BY <1>9 DEF Akin
<1>11. \A q : q # path /\ q \notin leads => Same(g, f, q)
  BY <1>9 DEF Same
<1>12. \A q \in DOMAIN f :
          g[q].mode = IF q \in leads /\ (privileged \/ f[q].owner = User)
                      THEN node.mode ELSE f[q].mode
  BY <1>8, <1>9
<1>13. \A q \in DOMAIN f : /\ q # path \/ ~privileged => g[q].owner = f[q].owner
                           /\ q = path /\ privileged => g[q].owner = node.owner
  BY <1>9
<1>14. Tree(g)
  BY <1>9
<1>. QED
  <2>. HIDE DEF Tree
  <2>. QED  BY <1>1, <1>4, <1>10, <1>11, <1>12, <1>13, <1>14

LEMMA OwnerFacts ==
    Owner \in Owners
<1>1. \E o \in Owners : o # User
  BY UnfsAssumption
<1>. QED  BY <1>1, UnfsAssumption DEF Owner

LEMMA NewDirectoryFacts ==
    ASSUME NEW mode \in SUBSET Permissions, NEW owner \in Owners
    PROVE  /\ NewDirectory(mode, owner) \in Files
           /\ NewDirectory(mode, owner).type = "directory"
<1>1. NoTarget \in Targets
  BY DEF NoTarget, Targets
<1>. QED  BY <1>1 DEF NewDirectory, Files, Types, None

(***************************************************************************)
(* What the steps do to the file system                                    *)
(***************************************************************************)
LEMMA NodeFacts ==
    ASSUME WalkInv, call # <<>>
    PROVE  /\ Node.mode \in SUBSET Permissions /\ Node.owner \in Owners
           /\ Node.type \in Types /\ Node.target \in Targets
           /\ Node.type = "symbolic_link" => Node.mode = Permissions
           /\ call[1] \in Int
           /\ call[2] \in Names \cup {Dot}
BY CallFacts, ImageFacts DEF WalkInv, Shape

LEMMA MadeFacts ==
    ASSUME WalkInv, Tree(fs), call # <<>>
    PROVE  /\ Tree(MadeDirectory) /\ Kept(fs, MadeDirectory)
           /\ \A q : q # Path => Same(MadeDirectory, fs, q)
           /\ Path \in DOMAIN MadeDirectory
           /\ Path \in DOMAIN fs => MadeDirectory = fs
           /\ Path \notin DOMAIN fs => MadeDirectory[Path].type = "directory"
<1>1. CASE Path \in DOMAIN fs
  <2>1. MadeDirectory = fs
    BY <1>1 DEF MadeDirectory, Exists
  <2>. QED  BY <1>1, <2>1 DEF Same, Kept
<1>2. CASE Path \notin DOMAIN fs
  <2>1. PICK file : file = NewDirectory(Node.mode, Owner)
    OBVIOUS
  <2>2. file \in Files /\ file.type = "directory"
    BY <2>1, NodeFacts, OwnerFacts, NewDirectoryFacts
  <2>3. MadeDirectory = With(fs, Path, file)
    BY <1>2, <2>1 DEF MadeDirectory, Exists
  <2>. QED  BY <1>2, <2>2, <2>3, WithFacts
<1>. QED  BY <1>1, <1>2

LEMMA SameTwice ==
    ASSUME NEW f, NEW g, NEW h, NEW q, Same(f, g, q), Same(g, h, q)
    PROVE  Same(f, h, q)
BY DEF Same

\* A file that is opened, by its own name or another.
LEMMA OpenedFacts ==
    ASSUME WalkInv, Tree(fs), call # <<>>, NEW path \in Openable,
           NEW content \in Int
    PROVE  /\ Tree(Opened(path, content)) /\ Kept(fs, Opened(path, content))
           /\ \A q : q # Path /\ q # path => Same(Opened(path, content), fs, q)
           /\ path \in DOMAIN Opened(path, content)
           /\ Opened(path, content)[path].type = "regular_file"
           /\ Opened(path, content)[path].content = content
           /\ ~IsLink(Unlinked, Path) => path = Path
<1>1. PICK file : file = IF path \in DOMAIN Unlinked
                         THEN [fs[path] EXCEPT !.content = content]
                         ELSE [type |-> "regular_file", mode |-> Node.mode,
                               owner |-> Owner, content |-> content,
                               target |-> NoTarget]
  OBVIOUS
<1>2. Opened(path, content) = With(Unlinked, path, file)
  BY <1>1 DEF Opened
<1>3. /\ Tree(Unlinked) /\ Kept(fs, Unlinked)
      /\ \A q : q # Path => Same(Unlinked, fs, q)
      /\ Path \in DOMAIN Unlinked => Path \in DOMAIN fs /\ Unlinked = fs
  BY UnlinkedFacts
<1>4. path \in DOMAIN Unlinked => Unlinked[path].type = "regular_file"
  BY DEF Openable
<1>5. path \in DOMAIN Unlinked => path \in DOMAIN fs /\ Unlinked[path] = fs[path]
  BY <1>3 DEF Same
<1>6. file \in Files /\ file.type = "regular_file" /\ file.content = content
  <2>1. CASE path \in DOMAIN Unlinked
    <3>1. fs[path] \in Files /\ fs[path].type = "regular_file"
      BY <1>4, <1>5, <2>1 DEF Tree
    <3>. QED  BY <1>1, <2>1, <3>1 DEF Files
  <2>2. CASE path \notin DOMAIN Unlinked
    <3>1. NoTarget \in Targets
      BY DEF NoTarget, Targets
    <3>. QED  BY <1>1, <2>2, <3>1, NodeFacts, OwnerFacts DEF Files, Types
  <2>. QED  BY <2>1, <2>2
<1>7. PICK opened : opened = With(Unlinked, path, file)
  OBVIOUS
<1>8. /\ Tree(opened) /\ path \in DOMAIN opened /\ opened[path] = file
      /\ \A q : q # path => Same(opened, Unlinked, q)
      /\ Kept(Unlinked, opened)
  BY <1>3, <1>4, <1>6, <1>7, WithFacts
<1>9. \A q : q # Path /\ q # path => Same(opened, fs, q)
  BY <1>3, <1>8, SameTwice
<1>10. Kept(fs, opened)
  BY <1>3, <1>8, KeptTwice
<1>11. ASSUME ~IsLink(Unlinked, Path)
       PROVE  path = Path
  <2>1. path \in Leads(Unlinked, cwd, call[2]) /\ call[2] \in Names \cup {Dot}
    BY NodeFacts DEF Openable
  <2>. QED  BY <1>11, <2>1, LeadsDirect DEF Path
<1>. QED  BY <1>2, <1>6, <1>7, <1>8, <1>9, <1>10, <1>11

\* A regular file is extracted.
LEMMA ExtractFileTree ==
    ASSUME WalkInv, Tree(fs), ExtractFile
    PROVE  Tree(fs')
<1>1. /\ call # <<>> /\ call[1] \in Int
      /\ Node.mode \in SUBSET Permissions /\ Node.owner \in Owners
  BY NodeFacts DEF ExtractFile, Calling
<1>2. PICK path \in Openable :
         fs' = Changed(Opened(path, call[1]), cwd, call[2], Node)
  BY DEF ExtractFile, Settle
<1>3. Tree(Opened(path, call[1]))
  BY <1>1, OpenedFacts
<1>. QED  BY <1>1, <1>2, <1>3, ChangedFacts

LEMMA ExtractFileEffects ==
    ASSUME WalkInv, WayInv, Tree(fs), ExtractFile, ~strayed'
    PROVE  /\ ~strayed /\ ~IsLink(Unlinked, Path)
           /\ Path \in DOMAIN fs' /\ Kept(fs, fs')
           /\ \A q : q # Path => Same(fs', fs, q)
           /\ fs'[Path].type = "regular_file" /\ fs'[Path].content = call[1]
           /\ \/ fs'[Path].mode = Node.mode
              \/ ~privileged /\ fs'[Path].owner # User
           /\ privileged => fs'[Path].owner = Node.owner
           /\ pointed' = pointed \ {Path}
<1>1. /\ call # <<>> /\ call[1] \in Int
      /\ Node.mode \in SUBSET Permissions /\ Node.owner \in Owners
      /\ call[2] \in Names \cup {Dot}
  BY NodeFacts DEF ExtractFile, Calling
<1>2. ~strayed /\ ~IsLink(Unlinked, Path)
  BY DEF ExtractFile, Trust
<1>3. PICK path \in Openable : Settle(Opened(path, call[1]), cwd, call[2], Node)
  BY DEF ExtractFile
<1>4. path = Path
  BY <1>1, <1>2, OpenedFacts
<1>5. PICK opened : opened = Opened(path, call[1])
  OBVIOUS
<1>6. /\ Tree(opened) /\ Kept(fs, opened)
      /\ \A q : q # Path => Same(opened, fs, q)
      /\ Path \in DOMAIN opened
      /\ opened[Path].type = "regular_file"
      /\ opened[Path].content = call[1]
  BY <1>1, <1>4, <1>5, OpenedFacts
<1>7. ~IsLink(opened, PathOf(cwd, call[2])) /\ Path = PathOf(cwd, call[2])
  BY <1>6 DEF IsLink, Path
<1>8. /\ fs' = Changed(opened, cwd, call[2], Node)
      /\ pointed' = pointed \ {Path}
  BY <1>3, <1>5, <1>7 DEF Settle
<1>9. Searchable(fs, cwd) /\ Searchable(opened, cwd)
  BY <1>1, <1>2, <1>6, WayFacts DEF Kept
<1>10. Leads(opened, cwd, call[2]) = {Path}
  BY <1>1, <1>7, <1>9, LeadsDirect
<1>11. PICK g : g = Changed(opened, cwd, call[2], Node)
  OBVIOUS
<1>12. /\ \A q : Akin(g, opened, q)
       /\ \A q : q # Path => Same(g, opened, q)
       /\ ~privileged => g[Path].owner = opened[Path].owner
       /\ privileged => g[Path].owner = Node.owner
       /\ g[Path].mode = IF privileged \/ opened[Path].owner = User
                         THEN Node.mode ELSE opened[Path].mode
  BY <1>1, <1>6, <1>7, <1>10, <1>11, ChangedFacts
<1>13. \A q : q # Path => Same(g, fs, q)
  BY <1>6, <1>12, SameTwice
<1>14. Path \in DOMAIN g /\ g[Path].type = "regular_file"
       /\ g[Path].content = call[1]
  BY <1>6, <1>12 DEF Akin
<1>15. Kept(fs, g)
  <2>1. \A q : Searchable(opened, q) => q # Path
    BY <1>6 DEF Searchable
  <2>2. Kept(opened, g)
    BY <1>12, <2>1, SameKept
  <2>. QED  BY <1>6, <2>2, KeptTwice
<1>16. \/ g[Path].mode = Node.mode
       \/ ~privileged /\ g[Path].owner # User
  BY <1>12
<1>. QED  BY <1>2, <1>8, <1>11, <1>12, <1>13, <1>14, <1>15, <1>16

\* A link is extracted, and the mode is set of what it leads to.
LEMMA ExtractLinkEffects ==
    ASSUME WalkInv, Tree(fs), ExtractLink
    PROVE  /\ Tree(fs') /\ Path \in DOMAIN fs' /\ Kept(fs, fs')
           /\ \A q : q # Path => Akin(fs', fs, q)
           /\ \A q : q # Path /\ q \notin pointed' => Same(fs', fs, q)
           /\ \A q \in DOMAIN fs : q # Path => fs'[q].owner = fs[q].owner
           /\ fs'[Path].type = "symbolic_link" /\ fs'[Path].target = Node.target
           /\ privileged => fs'[Path].owner = Node.owner
           /\ pointed \subseteq pointed' /\ strayed' = strayed
<1>1. /\ call # <<>> /\ CanLink
      /\ Settle(With(Unlinked, Path, Link), cwd, call[2], Node)
      /\ Node.mode = Permissions
      /\ Node.mode \in SUBSET Permissions /\ Node.owner \in Owners
      /\ Node.target \in Targets
      /\ strayed' = strayed
  BY NodeFacts DEF ExtractLink, Calling
<1>2. Link \in Files /\ Link.type = "symbolic_link" /\ Link.target = Node.target
  BY <1>1, OwnerFacts DEF Link, Files, Types, None
<1>3. PICK linked : linked = With(Unlinked, Path, Link)
  OBVIOUS
<1>4. /\ Tree(Unlinked) /\ Kept(fs, Unlinked) /\ Path \notin DOMAIN Unlinked
      /\ \A q : q # Path => Same(Unlinked, fs, q)
  BY <1>1, UnlinkedFacts DEF CanLink
<1>5. /\ Tree(linked) /\ Path \in DOMAIN linked /\ linked[Path] = Link
      /\ \A q : q # Path => Same(linked, Unlinked, q)
      /\ Kept(Unlinked, linked)
  BY <1>2, <1>3, <1>4, WithFacts
<1>6. \A q : q # Path => Same(linked, fs, q)
  BY <1>4, <1>5, SameTwice
<1>7. IsLink(linked, PathOf(cwd, call[2])) /\ Path = PathOf(cwd, call[2])
  BY <1>2, <1>5 DEF IsLink, Path
<1>8. PICK leads : leads = Leads(linked, cwd, call[2])
  OBVIOUS
<1>9. pointed' = pointed \cup leads
  BY <1>1, <1>3, <1>7, <1>8 DEF Settle
<1>10. PICK g : g = Changed(linked, cwd, call[2], Node)
  OBVIOUS
<1>11. fs' = g
  BY <1>1, <1>3, <1>10 DEF Settle
<1>12. /\ Tree(g)
       /\ \A q : Akin(g, linked, q)
       /\ \A q : q # Path /\ q \notin leads => Same(g, linked, q)
       /\ \A q \in DOMAIN linked : q # Path => g[q].owner = linked[q].owner
       /\ privileged => g[Path].owner = Node.owner
       /\ \A q \in DOMAIN linked : g[q].mode \in {Node.mode, linked[q].mode}
  BY <1>1, <1>5, <1>7, <1>8, <1>10, ChangedFacts
<1>13. \A q : q # Path => Akin(g, fs, q)
  BY <1>6, <1>12 DEF Akin, Same
<1>14. \A q : q # Path /\ q \notin leads => Same(g, fs, q)
  BY <1>6, <1>12, SameTwice
<1>15. Path \in DOMAIN g /\ g[Path].type = "symbolic_link"
       /\ g[Path].target = Node.target
  BY <1>2, <1>5, <1>12 DEF Akin
<1>16. \A q \in DOMAIN fs : q # Path => g[q].owner = fs[q].owner
  BY <1>6, <1>12 DEF Same
<1>17. Kept(fs, g)
  <2>1. ASSUME NEW q, Searchable(linked, q)
        PROVE  Searchable(g, q)
    <3>1. /\ q \in DOMAIN g /\ g[q].type = "directory"
          /\ g[q].mode \in {Permissions, linked[q].mode}
      BY <1>1, <1>12, <2>1 DEF Akin, Searchable
    <3>2. "x" \in Permissions
      BY DEF Permissions
    <3>. QED  BY <2>1, <3>1, <3>2 DEF Searchable
  <2>2. Kept(linked, g)
    BY <2>1 DEF Kept
  <2>. QED  BY <1>4, <1>5, <2>2, KeptTwice
<1>. QED  BY <1>1, <1>9, <1>11, <1>12, <1>13, <1>14, <1>15, <1>16, <1>17

\* An error is printed, and nothing has changed but what is at the call's path.
LEMMA ReturnEffects ==
    ASSUME WalkInv, Tree(fs),
           \/ RefusedDirectory \/ DirectoryFails
           \/ RefusedFile \/ FileFails
           \/ RefusedLink \/ LinkFails
    PROVE  /\ Tree(fs') /\ Kept(fs, fs') /\ call # <<>> /\ call' = <<>>
           /\ UNCHANGED <<image, earlier, privileged, stack, phase, pointed>>
           /\ reported' = reported \cup {ImagePath}
           /\ ~strayed' => \A q : q # Path => Same(fs', fs, q)
           /\ \A q : IsLink(fs', q) => IsLink(fs, q)
<1>1. PICK files, directory : call # <<>> /\ Return(files, directory)
         /\ pointed' = pointed
         /\ \/ files \in {fs, Unlinked, MadeDirectory}
            \/ /\ strayed' = (strayed \/ IsLink(Unlinked, Path))
               /\ \E path \in Openable : files = Opened(path, Partial)
  <2>1. CASE RefusedDirectory
    BY <2>1 DEF RefusedDirectory, Calling, tally, astray
  <2>2. CASE DirectoryFails
    BY <2>2 DEF DirectoryFails, Calling
  <2>3. CASE RefusedFile
    BY <2>3 DEF RefusedFile, Calling, tally, astray
  <2>4. CASE FileFails
    BY <2>4 DEF FileFails, Calling, Trust
  <2>5. CASE RefusedLink
    BY <2>5 DEF RefusedLink, Calling, tally, astray
  <2>6. CASE LinkFails
    BY <2>6 DEF LinkFails, Calling, astray
  <2>. QED  BY <2>1, <2>2, <2>3, <2>4, <2>5, <2>6
<1>2. /\ fs' = files /\ call' = <<>> /\ reported' = reported \cup {ImagePath}
      /\ UNCHANGED <<image, earlier, privileged, stack, phase>>
  BY <1>1 DEF Return, given
<1>3. /\ Tree(files) /\ Kept(fs, files)
      /\ ~strayed' => \A q : q # Path => Same(files, fs, q)
      /\ \A q : IsLink(files, q) => IsLink(fs, q)
  <2>1. CASE files = fs
    BY <2>1 DEF Same, Kept
  <2>2. CASE files = Unlinked
    BY <2>2, UnlinkedFacts DEF Same, IsLink
  <2>3. CASE files = MadeDirectory
    BY <1>1, <2>3, MadeFacts DEF Same, IsLink
  <2>4. CASE /\ strayed' = (strayed \/ IsLink(Unlinked, Path))
             /\ \E path \in Openable : files = Opened(path, Partial)
    <3>1. PICK path \in Openable : files = Opened(path, Partial)
      BY <2>4
    <3>2. Partial \in Int
      BY DEF Partial
    <3>3. /\ Tree(files) /\ Kept(fs, files)
          /\ \A q : q # Path /\ q # path => Same(files, fs, q)
          /\ ~IsLink(Unlinked, Path) => path = Path
          /\ path \in DOMAIN files /\ files[path].type = "regular_file"
      BY <1>1, <3>1, <3>2, OpenedFacts
    <3>4. ASSUME NEW q, IsLink(files, q)
          PROVE  IsLink(fs, q)
      <4>1. q # path
        BY <3>3, <3>4 DEF IsLink
      <4>2. files = With(Unlinked, path, files[path])
        BY <3>1 DEF Opened, With
      <4>3. q \in DOMAIN Unlinked /\ files[q] = Unlinked[q]
        BY <3>4, <4>1, <4>2 DEF IsLink, With
      <4>. QED  BY <3>4, <4>3, UnlinkedFacts DEF IsLink, Same
    <3>. QED  BY <2>4, <3>3, <3>4
  <2>. QED  BY <1>1, <2>1, <2>2, <2>3, <2>4
<1>. QED  BY <1>1, <1>2, <1>3

LEMMA EnterEffects ==
    ASSUME WalkInv, Tree(fs), EnterDirectory
    PROVE  /\ Tree(fs') /\ Kept(fs, fs') /\ call # <<>> /\ call' = <<>>
           /\ UNCHANGED <<image, earlier, privileged, reported, phase, lost, pointed>>
           /\ stack' = Append(stack, [node |-> call[1], name |-> call[2], e |-> 1])
           /\ \A q : q # Path => Same(fs', fs, q)
           /\ ~strayed' => /\ ~strayed /\ cwd' = Path
                           /\ Searchable(fs', Path)
                           /\ Path \in DOMAIN fs' /\ fs'[Path].type = "directory"
           /\ \A q : IsLink(fs', q) => IsLink(fs, q)
           /\ strayed' => strayed \/ IsLink(fs, Path)
<1>1. /\ call # <<>> /\ CanMake /\ fs' = MadeDirectory /\ call' = <<>>
      /\ UNCHANGED <<image, earlier, privileged, reported, phase, lost, pointed>>
      /\ stack' = Append(stack, [node |-> call[1], name |-> call[2], e |-> 1])
      /\ strayed' = (strayed \/ IsLink(fs, Path)) /\ cwd' \in Entered
  BY DEF EnterDirectory, Calling, given, Trust
<1>2. ASSUME ~strayed'
      PROVE  /\ ~strayed /\ cwd' = Path /\ Searchable(MadeDirectory, Path)
  BY <1>1, <1>2, EnteredFacts
<1>3. \A q : IsLink(MadeDirectory, q) => IsLink(fs, q)
  BY <1>1, MadeFacts DEF Same, IsLink
<1>. QED  BY <1>1, <1>2, <1>3, MadeFacts DEF Searchable

\* The mode and the owner of the directory that is left.
LEMMA LeaveTree ==
    ASSUME WalkInv, Tree(fs), LeaveDirectory
    PROVE  Tree(fs') /\ \A q : Akin(fs', fs, q)
<1>1. stack # <<>> /\ fs' = Changed(fs, cwd', Top.name, image[Top.node])
  BY DEF LeaveDirectory, InLoop, Settle
<1>2. PICK node : node = image[Top.node]
  OBVIOUS
<1>3. node.mode \in SUBSET Permissions /\ node.owner \in Owners
  BY <1>1, <1>2, TopFacts, ImageFacts DEF WalkInv, Shape
<1>4. fs' = Changed(fs, cwd', Top.name, node)
  BY <1>1, <1>2
<1>. QED  BY <1>3, <1>4, ChangedFacts

LEMMA LeaveEffects ==
    ASSUME WalkInv, WayInv, Tree(fs), LeaveDirectory, ~strayed'
    PROVE  LET path == PathOf(ParentOf(cwd), Top.name)
               node == image[Top.node]
           IN  /\ ~strayed /\ cwd' = ParentOf(cwd)
               /\ \A q : q # path => Same(fs', fs, q)
               /\ path \in DOMAIN fs =>
                     /\ \/ fs'[path].mode = node.mode
                        \/ ~privileged /\ fs'[path].owner # User
                     /\ privileged => fs'[path].owner = node.owner
               /\ pointed' = pointed \ {path}
<1>1. PICK path : path = PathOf(ParentOf(cwd), Top.name)
  OBVIOUS
<1>2. PICK node : node = image[Top.node]
  OBVIOUS
<1>3. /\ stack # <<>> /\ cwd' = ParentOf(cwd) /\ CanLeave
      /\ Settle(fs, ParentOf(cwd), Top.name, node)
      /\ ~strayed /\ ~IsLink(fs, path)
  BY <1>1, <1>2 DEF LeaveDirectory, InLoop, Trust
<1>4. /\ node.mode \in SUBSET Permissions /\ node.owner \in Owners
      /\ Top.name \in Names \cup {Dot}
  BY <1>2, <1>3, TopFacts, ImageFacts DEF WalkInv, Shape, Frames
<1>5. /\ fs' = Changed(fs, ParentOf(cwd), Top.name, node)
      /\ pointed' = pointed \ {path}
  BY <1>1, <1>3 DEF Settle
<1>6. Leads(fs, ParentOf(cwd), Top.name) = {path}
  BY <1>1, <1>3, <1>4, LeadsDirect DEF CanLeave
<1>7. PICK g : g = Changed(fs, ParentOf(cwd), Top.name, node)
  OBVIOUS
<1>8. /\ \A q : q # path => Same(g, fs, q)
      /\ path \in DOMAIN fs =>
            /\ ~privileged => g[path].owner = fs[path].owner
            /\ privileged => g[path].owner = node.owner
            /\ g[path].mode = IF privileged \/ fs[path].owner = User
                              THEN node.mode ELSE fs[path].mode
  BY <1>1, <1>4, <1>6, <1>7, ChangedFacts
<1>9. path \in DOMAIN fs => \/ g[path].mode = node.mode
                            \/ ~privileged /\ g[path].owner # User
  BY <1>8
<1>. QED  BY <1>1, <1>2, <1>3, <1>5, <1>7, <1>8, <1>9

\* What is there before: directories down to the output, and what was left.
LEMMA InitFacts ==
    ASSUME Init
    PROVE  /\ earlier \in Leftovers
           /\ \A q \in Seq(Parts) : Under(ParentOf(Output), q) =>
                 q \in DOMAIN fs /\ fs[q] = NewDirectory(Permissions, User)
           /\ \A p \in DOMAIN fs :
                 \/ fs[p] = NewDirectory(Permissions, User)
                 \/ \E q \in DOMAIN earlier : p = Output \o q /\ fs[p] = earlier[q]
<1>1. PICK n : n = Len(Output) /\ n \in Nat \ {0}
  BY OutputFacts
<1>2. /\ earlier \in Leftovers
      /\ DOMAIN fs = Prefixes(ParentOf(Output)) \cup
                        {Output \o q : q \in DOMAIN earlier}
      /\ \A p \in DOMAIN fs :
            fs[p] = IF Len(p) < n THEN NewDirectory(Permissions, User)
                    ELSE earlier[SubSeq(p, n + 1, Len(p))]
  BY <1>1 DEF Init
<1>3. DOMAIN earlier \subseteq Seq(Names)
  BY <1>2, LeftoversAssumption
<1>4. ASSUME NEW p \in Prefixes(ParentOf(Output))
      PROVE  Len(p) < n
  <2>1. PICK s : s = ParentOf(Output) /\ s \in Seq(Parts) /\ Len(s) = n - 1
    BY <1>1, OutputFacts
  <2>2. PICK l \in 0..(n - 1) : p = SubSeq(s, 1, l)
    BY <2>1 DEF Prefixes
  <2>3. \A i \in 1..l : s[i] \in Parts
    BY <1>1, <2>1, <2>2, ElementOfSeq
  <2>4. Len(p) = IF 1 <= l THEN l - 1 + 1 ELSE 0
    BY <2>2, <2>3, SubSeqProperties
  <2>. QED  BY <1>1, <2>2, <2>4
<1>5. ASSUME NEW q \in DOMAIN earlier
      PROVE  /\ ~(Len(Output \o q) < n)
             /\ SubSeq(Output \o q, n + 1, Len(Output \o q)) = q
  <2>1. q \in Seq(Parts) /\ Len(q) \in Nat
    BY <1>3, SeqMonotonic, LenProperties DEF Parts
  <2>2. Len(Output \o q) = n + Len(q)
    BY <1>1, <2>1, OutputFacts, ConcatProperties
  <2>3. CASE q = <<>>
    <3>1. Len(Output \o q) = n
      BY <1>1, <2>2, <2>3
    <3>2. SubSeq(Output \o q, n + 1, n) = <<>>
      BY <1>1, SubSeqEmpty
    <3>. QED  BY <1>1, <2>3, <3>1, <3>2
  <2>4. CASE q # <<>>
    <3>1. Len(q) \in Nat \ {0}
      BY <2>1, <2>4, EmptySeq
    <3>2. n + 1 \in n + 1..n + Len(q) /\ n + Len(q) \in n + 1..n + Len(q)
      BY <1>1, <3>1
    <3>3. SubSeq(Output \o q, n + 1, n + Len(q)) = SubSeq(q, n + 1 - n, n + Len(q) - n)
      BY <1>1, <2>1, <3>2, OutputFacts, SubSeqOfConcat2
    <3>4. n + 1 - n = 1 /\ n + Len(q) - n = Len(q)
      BY <1>1, <3>1
    <3>5. SubSeq(q, 1, Len(q)) = q
      BY <2>1, SubSeqFull
    <3>. QED  BY <1>1, <2>2, <3>1, <3>3, <3>4, <3>5
  <2>. QED  BY <2>3, <2>4
<1>6. ASSUME NEW q \in Seq(Parts), Under(ParentOf(Output), q)
      PROVE  q \in DOMAIN fs /\ fs[q] = NewDirectory(Permissions, User)
  <2>1. q \in Prefixes(ParentOf(Output))
    BY <1>6, OutputFacts, PrefixUnder
  <2>. QED  BY <1>2, <1>4, <2>1
<1>7. ASSUME NEW p \in DOMAIN fs
      PROVE  \/ fs[p] = NewDirectory(Permissions, User)
             \/ \E q \in DOMAIN earlier : p = Output \o q /\ fs[p] = earlier[q]
  <2>1. CASE p \in Prefixes(ParentOf(Output))
    BY <1>2, <1>4, <2>1
  <2>2. CASE p \in {Output \o q : q \in DOMAIN earlier}
    <3>1. PICK q \in DOMAIN earlier : p = Output \o q
      BY <2>2
    <3>. QED  BY <1>2, <1>5, <3>1
  <2>. QED  BY <1>2, <2>1, <2>2
<1>. QED  BY <1>2, <1>6, <1>7

LEMMA InitFs ==
    Init => FsInv /\ WayInv
<1>. SUFFICES ASSUME Init PROVE FsInv /\ WayInv
  OBVIOUS
<1>1. NewDirectory(Permissions, User) \in Files
  BY UnfsAssumption, NewDirectoryFacts
<1>2. ASSUME NEW p \in DOMAIN fs
      PROVE  fs[p] \in Files
  <2>1. \A q \in DOMAIN earlier : earlier[q] \in Files
    BY InitFacts, LeftoversAssumption
  <2>. QED  BY <1>1, <1>2, <2>1, InitFacts
<1>3. fs \in [DOMAIN fs -> Files]
  <2>1. fs = [p \in DOMAIN fs |-> fs[p]]
    BY DEF Init
  <2>. QED  BY <1>2, <2>1
<1>4. Way(cwd)
  <2>1. cwd = ParentOf(Output)
    BY DEF Init
  <2>2. /\ NewDirectory(Permissions, User).type = "directory"
        /\ "x" \in NewDirectory(Permissions, User).mode
    BY DEF NewDirectory, Permissions
  <2>. QED  BY <2>1, <2>2, InitFacts DEF Way, Searchable
<1>. QED  BY <1>3, <1>4 DEF Init, FsInv, WayInv

\* main makes the output.
LEMMA MainEffects ==
    ASSUME Tree(fs), MakeOutput \/ MakeOutputFails
    PROVE  /\ Tree(fs') /\ Kept(fs, fs')
           /\ \A q : IsLink(fs', q) => IsLink(fs, q)
<1>1. fs' = fs \/ (Output \notin DOMAIN fs /\
                   fs' = With(fs, Output, NewDirectory(Permissions, Owner)))
  BY DEF MakeOutput, MakeOutputFails, OutputMade, Exists
<1>2. PICK file : file = NewDirectory(Permissions, Owner)
  OBVIOUS
<1>3. file \in Files /\ file.type = "directory"
  BY <1>2, OwnerFacts, NewDirectoryFacts
<1>4. CASE fs' = fs
  BY <1>4 DEF Kept
<1>5. CASE Output \notin DOMAIN fs /\ fs' = With(fs, Output, file)
  <2>1. PICK g : g = With(fs, Output, file)
    OBVIOUS
  <2>2. /\ Tree(g) /\ Kept(fs, g) /\ g[Output] = file
        /\ \A q : q # Output => Same(g, fs, q)
    BY <1>3, <1>5, <2>1, WithFacts
  <2>3. \A q : IsLink(g, q) => IsLink(fs, q)
    BY <1>3, <2>2 DEF IsLink, Same
  <2>. QED  BY <1>5, <2>1, <2>2, <2>3
<1>. QED  BY <1>1, <1>2, <1>4, <1>5

LEMMA NextFs ==
    ASSUME WalkInv, FsInv, [Next]_vars
    PROVE  FsInv'
<1>1. Tree(fs) /\ reported \subseteq Seq(Names)
  BY DEF FsInv, Tree
<1>2. Tree(fs') /\ reported' \subseteq Seq(Names)
  <2>1. CASE MakeOutput \/ MakeOutputFails
    <3>1. reported' = reported
      BY <2>1 DEF MakeOutput, MakeOutputFails
    <3>. QED  BY <1>1, <2>1, <3>1, MainEffects
  <2>2. CASE UNCHANGED vars \/ Finish \/ FinishFails
    BY <1>1, <2>2 DEF vars, Finish, FinishFails, Tree
  <2>3. CASE EnterDirectory
    BY <1>1, <2>3, EnterEffects
  <2>4. CASE \/ RefusedDirectory \/ DirectoryFails \/ RefusedFile \/ FileFails
             \/ RefusedLink \/ LinkFails
    BY <1>1, <2>4, ReturnEffects, CallPath
  <2>5. CASE ExtractFile
    BY <1>1, <2>5, ExtractFileTree DEF ExtractFile
  <2>6. CASE ExtractLink
    BY <1>1, <2>6, ExtractLinkEffects DEF ExtractLink
  <2>7. CASE NextEntry
    BY <1>1, <2>7 DEF NextEntry, Tree
  <2>8. CASE SkipEntry
    <3>1. stack # <<>> /\ HasEntry /\ fs' = fs
          /\ reported' = reported \cup {Append(NamesOf(stack), Entries[Top.e].name)}
      BY <2>8 DEF SkipEntry, InLoop
    <3>2. Entries[Top.e].name \in Names
      BY <3>1, AdvancedFacts, TopFacts
    <3>3. Append(NamesOf(stack), Entries[Top.e].name) \in Seq(Names)
      <4>1. NamesOf(stack) \in Seq(Names)
        BY <3>1, NamesFacts DEF WalkInv, Shape, StackInv
      <4>. QED  BY <3>2, <4>1, AppendProperties
    <3>. QED  BY <1>1, <3>1, <3>3 DEF Tree
  <2>9. CASE LeaveDirectory
    <3>1. Tree(fs')
      BY <1>1, <2>9, LeaveTree
    <3>. QED  BY <1>1, <2>9, <3>1 DEF LeaveDirectory
  <2>10. CASE LeaveFails
    <3>1. stack # <<>> /\ fs' = fs /\ reported' = reported \cup {NamesOf(stack)}
      BY <2>10 DEF LeaveFails, InLoop
    <3>2. NamesOf(stack) \in Seq(Names)
      BY <3>1, NamesFacts DEF WalkInv, Shape, StackInv
    <3>. QED  BY <1>1, <3>1, <3>2 DEF Tree
  <2>. QED  BY <2>1, <2>2, <2>3, <2>4, <2>5, <2>6, <2>7, <2>8, <2>9, <2>10 DEF Next
<1>. QED  BY <1>2 DEF FsInv, Tree

\* What is under a path and not it is under its parent.
LEMMA UnderParent ==
    ASSUME NEW S, NEW s \in Seq(S), NEW q \in Seq(S), Under(s, q), q # s
    PROVE  Under(ParentOf(s), q)
<1>1. Len(s) \in Nat /\ Len(q) \in Nat /\ Len(q) =< Len(s)
      /\ \A k \in 1..Len(q) : s[k] = q[k]
  BY LenProperties DEF Under
<1>2. Len(q) # Len(s)
  <2>1. ASSUME Len(q) = Len(s)
        PROVE  FALSE
    <3>1. \A k \in 1..Len(s) : s[k] = q[k]
      BY <1>1, <2>1
    <3>2. s = q
      BY <2>1, <3>1, SeqEqual
    <3>. QED  BY <3>2
  <2>. QED  BY <2>1
<1>3. s # <<>>
  <2>1. Len(s) # 0
    BY <1>1, <1>2
  <2>. QED  BY <2>1
<1>4. PICK f : f = ParentOf(s)
  OBVIOUS
<1>5. Len(f) = Len(s) - 1 /\ \A i \in 1..(Len(s) - 1) : f[i] = s[i]
  BY <1>3, <1>4, FrontFacts DEF ParentOf
<1>6. Under(f, q)
  BY <1>1, <1>2, <1>5 DEF Under
<1>. QED  BY <1>4, <1>6

\* Whatever the working directory becomes, the way up from there is open.
LEMMA WayStays ==
    ASSUME WalkInv, Way(cwd), ~strayed, Kept(fs, fs'), privileged' = privileged,
           cwd' = cwd \/ cwd' = ParentOf(cwd)
    PROVE  WayInv'
<1>1. cwd \in Seq(Parts)
  BY DEF WalkInv, CwdInv
<1>2. ASSUME NEW q \in Seq(Parts), Under(cwd', q)
      PROVE  Searchable(fs, q)'
  <2>1. Under(cwd, q)
    BY <1>1, <1>2, ParentUnder
  <2>2. Searchable(fs', q)
    BY <2>1 DEF Way, Kept
  <2>. QED  BY <2>2 DEF Searchable
<1>3. Way(cwd)'
  BY <1>2 DEF Way, Under, Parts
<1>. QED  BY <1>3 DEF WayInv

LEMMA WayBelow ==
    ASSUME NEW dir \in Seq(Parts), NEW new \in Seq(Parts), ParentOf(new) = dir,
           Way(dir), Kept(fs, fs'), Searchable(fs', new),
           privileged' = privileged, cwd' = new
    PROVE  WayInv'
<1>1. ASSUME NEW q \in Seq(Parts), Under(cwd', q)
      PROVE  Searchable(fs, q)'
  <2>1. CASE q = new
    BY <2>1 DEF Searchable
  <2>2. CASE q # new
    <3>1. Under(dir, q)
      BY <1>1, <2>2, UnderParent
    <3>2. Searchable(fs', q)
      BY <3>1 DEF Way, Kept
    <3>. QED  BY <3>2 DEF Searchable
  <2>. QED  BY <2>1, <2>2
<1>2. Way(cwd)'
  BY <1>1 DEF Way, Under, Parts
<1>. QED  BY <1>2 DEF WayInv

LEMMA NextWay ==
    ASSUME WalkInv, FsInv, WayInv, [Next]_vars
    PROVE  WayInv'
<1>1. Tree(fs)
  BY DEF FsInv, Tree
<1>2. CASE UNCHANGED vars
  BY <1>2 DEF vars, given, tally, astray, WayInv, Way, Under, Searchable, Parts
<1>3. CASE MakeOutput
  <2>1. /\ phase = "main" /\ cwd = ParentOf(Output) /\ ~strayed
        /\ fs' = OutputMade /\ Searchable(fs', Output) /\ cwd' = Output
        /\ privileged' = privileged
    BY <1>3 DEF MakeOutput, WalkInv, PhaseInv, given
  <2>2. Way(cwd) /\ Kept(fs, fs')
    BY <1>1, <1>3, <2>1, MainEffects DEF WayInv
  <2>. QED  BY <2>1, <2>2, OutputFacts, WayBelow
<1>4. CASE MakeOutputFails \/ Finish \/ FinishFails
  <2>1. phase' # "main" /\ stack' = <<>> /\ call' = <<>>
    BY <1>4 DEF MakeOutputFails, Finish, FinishFails, Returned, WalkInv, PhaseInv
  <2>. QED  BY <2>1 DEF WayInv
<1>5. CASE EnterDirectory
  <2>1. CASE strayed'
    BY <2>1 DEF WayInv
  <2>2. CASE ~strayed'
    <3>1. /\ ~strayed /\ cwd' = Path /\ Searchable(fs', Path) /\ Kept(fs, fs')
          /\ privileged' = privileged /\ call # <<>>
      BY <1>1, <1>5, <2>2, EnterEffects
    <3>2. Way(cwd) /\ cwd \in Seq(Parts) /\ call[2] \in Names \cup {Dot}
      BY <3>1, NodeFacts DEF WayInv, WalkInv, CwdInv
    <3>3. CASE call[2] = Dot
      <4>1. cwd' = cwd
        BY <3>1, <3>3 DEF Path, PathOf
      <4>. QED  BY <3>1, <3>2, <4>1, WayStays
    <3>4. CASE call[2] # Dot
      <4>1. Path = Append(cwd, call[2]) /\ call[2] \in Parts
        BY <3>2, <3>4 DEF Path, PathOf, Parts
      <4>2. Path \in Seq(Parts) /\ ParentOf(Path) = cwd
        BY <3>2, <4>1, ParentOfAppend, AppendProperties
      <4>. QED  BY <3>1, <3>2, <4>2, WayBelow
    <3>. QED  BY <3>3, <3>4
  <2>. QED  BY <2>1, <2>2
<1>6. CASE \/ RefusedDirectory \/ DirectoryFails
           \/ ExtractFile \/ RefusedFile \/ FileFails
           \/ ExtractLink \/ RefusedLink \/ LinkFails
  <2>1. CASE strayed'
    BY <2>1 DEF WayInv
  <2>2. CASE ~strayed'
    <3>1. ~strayed /\ (cwd' = cwd \/ cwd' = ParentOf(cwd))
      BY <1>6, <2>2, CallEndsAt
    <3>2. call # <<>> /\ privileged' = privileged
      BY <1>6 DEF RefusedDirectory, DirectoryFails, ExtractFile, RefusedFile,
                  FileFails, ExtractLink, RefusedLink, LinkFails, Return,
                  Calling, given
    <3>3. Way(cwd)
      BY <3>1, <3>2 DEF WayInv
    <3>4. Kept(fs, fs')
      <4>1. CASE ExtractFile
        BY <1>1, <2>2, <4>1, ExtractFileEffects
      <4>2. CASE ExtractLink
        BY <1>1, <4>2, ExtractLinkEffects
      <4>3. CASE \/ RefusedDirectory \/ DirectoryFails \/ RefusedFile
                 \/ FileFails \/ RefusedLink \/ LinkFails
        BY <1>1, <4>3, ReturnEffects
      <4>. QED  BY <1>6, <4>1, <4>2, <4>3
    <3>. QED  BY <3>1, <3>2, <3>3, <3>4, WayStays
  <2>. QED  BY <2>1, <2>2
<1>7. CASE NextEntry \/ SkipEntry
  <2>1. stack # <<>> /\ UNCHANGED <<fs, cwd, strayed, privileged>>
    BY <1>7 DEF NextEntry, SkipEntry, InLoop, given, tally, astray
  <2>2. CASE strayed
    BY <2>1, <2>2 DEF WayInv
  <2>3. CASE ~strayed
    <3>1. Way(cwd) /\ Kept(fs, fs')
      BY <2>1, <2>3 DEF WayInv, Kept
    <3>. QED  BY <2>1, <2>3, <3>1, WayStays
  <2>. QED  BY <2>2, <2>3
<1>8. CASE LeaveDirectory
  <2>1. CASE strayed'
    BY <2>1 DEF WayInv
  <2>2. CASE stack' = <<>>
    <3>1. call' = <<>> /\ phase' # "main"
      BY <1>8 DEF LeaveDirectory, InLoop
    <3>. QED  BY <2>2, <3>1 DEF WayInv
  <2>3. CASE ~strayed' /\ stack' # <<>>
    <3>1. stack # <<>> /\ stack' = Front(stack) /\ privileged' = privileged
      BY <1>8 DEF LeaveDirectory, InLoop, given
    <3>2. Top.name \in Names
      <4>1. Len(stack') # 0 /\ Len(stack') = Len(stack) - 1
            /\ Len(stack) \in Nat \ {0}
        <5>1. stack' \in Seq(Frames)
          BY <3>1, LeftFacts
        <5>. QED  BY <2>3, <3>1, <5>1, LeftFacts, TopFacts, EmptySeq
      <4>2. Len(stack) > 1
        BY <4>1
      <4>. QED  BY <3>1, <4>2, LeftFacts
    <3>3. PICK dir : dir = ParentOf(cwd)
      OBVIOUS
    <3>4. PICK path : path = Append(dir, Top.name)
      OBVIOUS
    <3>5. /\ ~strayed /\ cwd' = dir
          /\ \A q : q # path => Same(fs', fs, q)
      <4>1. PathOf(ParentOf(cwd), Top.name) = path
        BY <3>2, <3>3, <3>4, UnfsAssumption DEF PathOf
      <4>. QED  BY <1>1, <1>8, <2>3, <3>3, <4>1, LeaveEffects
    <3>6. Way(cwd) /\ cwd \in Seq(Parts)
      BY <3>1, <3>5 DEF WayInv, WalkInv, CwdInv
    <3>7. dir \in Seq(Parts) /\ Len(dir) \in Nat /\ Len(path) = Len(dir) + 1
      <4>1. dir \in Seq(Parts)
        BY <3>3, <3>6, ParentFacts
      <4>2. Top.name \in Parts
        BY <3>2 DEF Parts
      <4>. QED  BY <3>4, <4>1, <4>2, AppendProperties, LenProperties
    <3>8. ASSUME NEW q \in Seq(Parts), Under(dir, q)
          PROVE  Searchable(fs, q)'
      <4>1. q # path
        <5>1. Len(q) =< Len(dir) /\ Len(q) \in Nat
          BY <3>8, LenProperties DEF Under
        <5>. QED  BY <3>7, <5>1
      <4>2. Under(cwd, q)
        BY <3>3, <3>6, <3>8, ParentUnder
      <4>3. Searchable(fs, q) /\ Same(fs', fs, q)
        BY <3>5, <3>6, <4>1, <4>2 DEF Way
      <4>. QED  BY <3>1, <4>3 DEF Searchable, Same
    <3>9. Way(cwd)'
      BY <3>5, <3>8 DEF Way, Under, Parts
    <3>. QED  BY <3>9 DEF WayInv
  <2>. QED  BY <2>1, <2>2, <2>3
<1>9. CASE LeaveFails
  <2>1. stack # <<>> /\ strayed' = strayed /\ ~CanLeave
    BY <1>9 DEF LeaveFails, InLoop, tally, astray
  <2>2. strayed
    BY <2>1, WayFacts DEF CanLeave
  <2>. QED  BY <2>1, <2>2 DEF WayInv
<1>. QED  BY <1>2, <1>3, <1>4, <1>5, <1>6, <1>7, <1>8, <1>9 DEF Next

\* What every step preserves of all this.
CoreInv == WalkInv /\ FsInv /\ WayInv

LEMMA InitCore ==
    Init => CoreInv
BY InitWalk, InitFs DEF CoreInv

LEMMA NextCore ==
    ASSUME CoreInv, [Next]_vars
    PROVE  CoreInv'
BY NextWalk, NextFs, NextWay DEF CoreInv


(***************************************************************************)
(* What waits, from one step to the next                                   *)
(***************************************************************************)
LEMMA PathsStay ==
    ASSUME image' = image
    PROVE  ImagePaths' = ImagePaths
BY DEF ImagePaths, PathsBelow, EntriesOf

LEMMA PendingNext ==
    ASSUME image' = image, NEW p
    PROVE  /\ Pending(p)' <=> \/ call' # <<>> /\ Under(p, ImagePath')
                              \/ Waits(p, stack')
           /\ Open(p, stack)' <=> Open(p, stack')
BY DEF Pending, Called, Under, ImagePath, NamesOf, Waits, LoopWaits, Table, Open

\* What is lost is not found again, and who strays does not come back.
LEMMA LostGrows ==
    ASSUME WalkInv, [Next]_vars
    PROVE  /\ image' = image /\ privileged' = privileged /\ earlier' = earlier
           /\ lost' = 0 => lost = 0
           /\ strayed => strayed'
           /\ Straight' => Straight /\ ~strayed /\ ~strayed' /\ lost = 0 /\ lost' = 0
<1>1. lost \in Nat /\ strayed \in BOOLEAN
  BY OutputFacts DEF WalkInv, Shape
<1>2. /\ image' = image /\ privileged' = privileged /\ earlier' = earlier
      /\ lost' = lost \/ lost' = lost + 1
  <2>1. CASE UNCHANGED vars
    BY <2>1 DEF vars, given, tally, astray
  <2>2. CASE \/ MakeOutput \/ MakeOutputFails \/ Finish \/ FinishFails
             \/ EnterDirectory \/ NextEntry \/ SkipEntry \/ LeaveDirectory
             \/ LeaveFails \/ ExtractFile \/ ExtractLink
    BY <2>2 DEF MakeOutput, MakeOutputFails, Finish, FinishFails, EnterDirectory,
                NextEntry, SkipEntry, LeaveDirectory, LeaveFails, ExtractFile,
                ExtractLink, given, tally
  <2>3. CASE \/ RefusedDirectory \/ DirectoryFails \/ RefusedFile \/ FileFails
             \/ RefusedLink \/ LinkFails
    BY <2>3 DEF RefusedDirectory, DirectoryFails, RefusedFile, FileFails,
                RefusedLink, LinkFails, Return, given, tally
  <2>. QED  BY <2>1, <2>2, <2>3 DEF Next
<1>3. strayed => strayed'
  <2>1. CASE UNCHANGED vars
    BY <2>1 DEF vars, tally, astray
  <2>2. CASE \/ MakeOutput \/ MakeOutputFails \/ Finish \/ FinishFails
             \/ EnterDirectory \/ NextEntry \/ SkipEntry
    BY <2>2 DEF MakeOutput, MakeOutputFails, Finish, FinishFails, EnterDirectory,
                NextEntry, SkipEntry, tally, astray, Trust
  <2>3. CASE LeaveDirectory \/ LeaveFails \/ ExtractFile \/ ExtractLink
    BY <2>3 DEF LeaveDirectory, LeaveFails, ExtractFile, ExtractLink,
                tally, astray, Trust
  <2>4. CASE \/ RefusedDirectory \/ DirectoryFails \/ RefusedFile \/ FileFails
             \/ RefusedLink \/ LinkFails
    BY <2>4 DEF RefusedDirectory, DirectoryFails, RefusedFile, FileFails,
                RefusedLink, LinkFails, Return, tally, astray, Trust
  <2>. QED  BY <2>1, <2>2, <2>3, <2>4 DEF Next
<1>. QED  BY <1>1, <1>2, <1>3 DEF Straight

\* The way back from a directory that was entered by its own name is open.
LEMMA NeverStuck ==
    ASSUME WalkInv, WayInv, LeaveFails
    PROVE  strayed
<1>1. stack # <<>> /\ ~CanLeave
  BY DEF LeaveFails, InLoop
<1>. QED  BY <1>1, WayFacts DEF CanLeave

LEMMA Elsewhere ==
    ASSUME WalkInv, call # <<>>, Straight, NEW p \in Seq(Names), p # ImagePath
    PROVE  Output \o p # Path
BY CallPath, OutputInjective

\* The loop takes up its next entry: all waits that waited.
LEMMA NextEntryPending ==
    ASSUME WalkInv, NextEntry, NEW p \in Seq(Names)
    PROVE  /\ Pending(p)' <=> Pending(p)
           /\ Open(p, stack)' <=> Open(p, stack)
<1>1. /\ stack # <<>> /\ call = <<>> /\ HasEntry /\ stack' = Advanced
      /\ call' = <<Entries[Top.e].number, Entries[Top.e].name>>
      /\ image' = image
  BY DEF NextEntry, InLoop, given
<1>2. PICK next : next = Append(NamesOf(stack), Entries[Top.e].name)
  OBVIOUS
<1>3. /\ Advanced # <<>> /\ NamesOf(Advanced) = NamesOf(stack)
      /\ Len(Advanced) = Len(stack) /\ Len(stack) \in Nat
      /\ \A i \in 1..Len(stack) : Advanced[i].name = stack[i].name
  BY <1>1, AdvancedFacts, TopFacts
<1>4. ImagePath' = next
  <2>1. NamesOf(stack)' = NamesOf(stack)
    BY <1>1, <1>3 DEF NamesOf
  <2>. QED  BY <1>1, <1>2, <1>3, <2>1 DEF ImagePath
<1>5. Pending(p)' <=> Under(p, next) \/ Waits(p, Advanced)
  BY <1>1, <1>4, PendingNext
<1>6. Waits(p, stack) <=> Waits(p, Advanced) \/ Under(p, next)
  BY <1>1, <1>2, AdvanceWaits
<1>7. Pending(p) <=> Waits(p, stack)
  BY <1>1 DEF Pending, Called
<1>8. Open(p, Advanced) <=> Open(p, stack)
  <2>1. Len(p) \in Nat
    BY LenProperties
  <2>2. Len(p) < Len(stack) => \A k \in 1..Len(p) : k + 1 \in 1..Len(stack)
    BY <1>3, <2>1
  <2>. QED  BY <1>3, <2>2 DEF Open
<1>. QED  BY <1>1, <1>5, <1>6, <1>7, <1>8, PendingNext

\* An entry is passed over, and reported.
LEMMA SkipEntryPending ==
    ASSUME WalkInv, SkipEntry, NEW p \in Seq(Names)
    PROVE  /\ Pending(p) => Pending(p)' \/ Blamed(p)'
           /\ Pending(p)' => Pending(p)
           /\ Open(p, stack)' <=> Open(p, stack)
<1>1. /\ stack # <<>> /\ call = <<>> /\ HasEntry /\ stack' = Advanced
      /\ call' = <<>> /\ image' = image
      /\ reported' = reported \cup {Append(NamesOf(stack), Entries[Top.e].name)}
  BY DEF SkipEntry, InLoop, given
<1>2. PICK next : next = Append(NamesOf(stack), Entries[Top.e].name)
  OBVIOUS
<1>3. /\ Len(Advanced) = Len(stack) /\ Len(stack) \in Nat
      /\ \A i \in 1..Len(stack) : Advanced[i].name = stack[i].name
  BY <1>1, AdvancedFacts, TopFacts
<1>4. Pending(p)' <=> Waits(p, Advanced)
  BY <1>1, PendingNext
<1>5. Waits(p, stack) <=> Waits(p, Advanced) \/ Under(p, next)
  BY <1>1, <1>2, AdvanceWaits
<1>6. Pending(p) <=> Waits(p, stack)
  BY <1>1 DEF Pending, Called
<1>7. Under(p, next) => Blamed(p)'
  BY <1>1, <1>2 DEF Blamed, Under
<1>8. Open(p, Advanced) <=> Open(p, stack)
  <2>1. Len(p) \in Nat
    BY LenProperties
  <2>2. Len(p) < Len(stack) => \A k \in 1..Len(p) : k + 1 \in 1..Len(stack)
    BY <1>3, <2>1
  <2>. QED  BY <1>3, <2>2 DEF Open
<1>. QED  BY <1>1, <1>4, <1>5, <1>6, <1>7, <1>8, PendingNext

LEMMA LeavePending ==
    ASSUME WalkInv, LeaveDirectory, NEW p \in Seq(Names)
    PROVE  /\ Pending(p)' <=> Pending(p)
           /\ Open(p, stack) <=> Open(p, stack)' \/ p = NamesOf(stack)
<1>1. /\ stack # <<>> /\ call = <<>> /\ LoopEnds /\ stack' = Front(stack)
      /\ call' = <<>> /\ image' = image
  BY DEF LeaveDirectory, InLoop, given
<1>2. Pending(p)' <=> Waits(p, Front(stack))
  BY <1>1, PendingNext
<1>3. Pending(p) <=> Waits(p, stack)
  BY <1>1 DEF Pending, Called
<1>. QED  BY <1>1, <1>2, <1>3, LeaveWaits, PendingNext

\* A call has ended, with an error or without.
LEMMA EndedPending ==
    ASSUME WalkInv, call # <<>>, call' = <<>>, UNCHANGED <<image, stack>>,
           NEW p \in Seq(Names)
    PROVE  /\ Pending(p) <=> Pending(p)' \/ Under(p, ImagePath)
           /\ Open(p, stack)' <=> Open(p, stack)
           /\ p = ImagePath => ~Pending(p)'
<1>1. Pending(p)' <=> Waits(p, stack)
  BY PendingNext
<1>2. Pending(p) <=> Under(p, ImagePath) \/ Waits(p, stack)
  BY DEF Pending, Called
<1>3. ~Waits(ImagePath, stack)
  BY CalledNotWaiting
<1>4. p = ImagePath => ~Pending(p)'
  BY <1>1, <1>3
<1>. QED  BY <1>1, <1>2, <1>4, PendingNext

LEMMA EnterPending ==
    ASSUME WalkInv, EnterDirectory, NEW x \in ImagePaths
    PROVE  /\ Pending(x[1])' => Pending(x[1])
           /\ Pending(x[1]) => Pending(x[1])' \/ x[1] = ImagePath
           /\ Open(x[1], stack)' <=> Open(x[1], stack) \/ x[1] = ImagePath
<1>1. /\ call # <<>> /\ call' = <<>> /\ image' = image
      /\ stack' = Append(stack, [node |-> call[1], name |-> call[2], e |-> 1])
  BY DEF EnterDirectory, Calling, given
<1>2. PICK p : p = x[1] /\ p \in Seq(Names)
  BY PathWalks DEF WalkInv, Shape
<1>3. Pending(p)' <=> Waits(p, stack')
  BY <1>1, PendingNext
<1>4. Pending(p) <=> Under(p, ImagePath) \/ Waits(p, stack)
  BY <1>1 DEF Pending, Called
<1>5. /\ Waits(p, stack') => Waits(p, stack) \/ Under(p, ImagePath)
      /\ Waits(p, stack) => Waits(p, stack')
      /\ Open(p, stack') <=> Open(p, stack) \/ p = ImagePath
      /\ Under(p, ImagePath) /\ Len(stack) < Len(p)
         /\ (\E e \in 1..Len(Node.entries) :
                Node.entries[e].name = p[Len(stack) + 1]) => Waits(p, stack')
  BY <1>1, <1>2, EnterWaits
<1>6. Under(p, ImagePath) /\ p # ImagePath =>
         /\ Len(stack) < Len(p)
         /\ \E e \in 1..Len(Node.entries) : Node.entries[e].name = p[Len(stack) + 1]
  BY <1>1, <1>2, BelowCall
<1>. QED  BY <1>1, <1>2, <1>3, <1>4, <1>5, <1>6, PendingNext

(***************************************************************************)
(* Nothing is left out in silence                                          *)
(***************************************************************************)
LEMMA ContentStays ==
    ASSUME image' = image, NEW path, NEW n, Akin(fs', fs, path), HasContent(path, n)
    PROVE  HasContent(path, n)'
BY DEF HasContent, Akin

LEMMA SameAkin ==
    ASSUME NEW f, NEW g, NEW q, Same(f, g, q)
    PROVE  Akin(f, g, q)
BY DEF Same, Akin

LEMMA BlameStays ==
    ASSUME reported \subseteq reported', NEW p, Blamed(p)
    PROVE  Blamed(p)'
BY DEF Blamed, Under

\* The paths below the call's are those that wait with it.
LEMMA LeafUnder ==
    ASSUME WalkInv, call # <<>>, Node.type # "directory", NEW x \in ImagePaths,
           Under(x[1], ImagePath)
    PROVE  x[1] = ImagePath
BY BelowCall

LEMMA LossReturn ==
    ASSUME WalkInv, FsInv, WayInv, LossInv, Straight, ~strayed',
           NEW x \in ImagePaths,
           \/ RefusedDirectory \/ DirectoryFails \/ RefusedFile \/ FileFails
           \/ RefusedLink \/ LinkFails
    PROVE  Pending(x[1])' \/ Blamed(x[1])' \/ HasContent(Output \o x[1], x[2])'
<1>1. /\ call # <<>> /\ call' = <<>>
      /\ UNCHANGED <<image, stack>>
      /\ reported' = reported \cup {ImagePath}
      /\ \A q : q # Path => Same(fs', fs, q)
  BY ReturnEffects DEF FsInv, Tree
<1>2. x[1] \in Seq(Names)
  BY PathWalks DEF WalkInv, Shape
<1>3. Under(x[1], ImagePath) => Blamed(x[1])'
  BY <1>1 DEF Blamed, Under
<1>4. Pending(x[1]) \/ Blamed(x[1]) \/ HasContent(Output \o x[1], x[2])
  BY <1>1, CallFacts DEF LossInv
<1>5. CASE Pending(x[1])
  BY <1>1, <1>2, <1>3, <1>5, EndedPending
<1>6. CASE Blamed(x[1])
  BY <1>1, <1>6, BlameStays
<1>7. CASE x[1] # ImagePath /\ HasContent(Output \o x[1], x[2])
  <2>1. Akin(fs', fs, Output \o x[1])
    BY <1>1, <1>2, <1>7, Elsewhere, SameAkin
  <2>. QED  BY <1>1, <1>7, <2>1, ContentStays
<1>8. CASE x[1] = ImagePath
  <2>1. Under(x[1], ImagePath)
    BY <1>1, <1>8, CallPath DEF Under
  <2>. QED  BY <1>3, <2>1
<1>. QED  BY <1>4, <1>5, <1>6, <1>7, <1>8

LEMMA LossExtract ==
    ASSUME WalkInv, FsInv, WayInv, LossInv, Straight, ~strayed',
           NEW x \in ImagePaths,
           ExtractFile \/ ExtractLink
    PROVE  Pending(x[1])' \/ Blamed(x[1])' \/ HasContent(Output \o x[1], x[2])'
<1>1. /\ call # <<>> /\ call' = <<>> /\ Node.type # "directory"
      /\ UNCHANGED <<image, stack, reported>>
  BY DEF ExtractFile, ExtractLink, Calling, given
<1>2. /\ \A q : q # Path => Akin(fs', fs, q)
      /\ Path \in DOMAIN fs' /\ fs'[Path].type = Node.type
      /\ Node.type = "regular_file" => fs'[Path].content = call[1]
      /\ Node.type = "symbolic_link" => fs'[Path].target = Node.target
  <2>1. CASE ExtractFile
    BY <2>1, ExtractFileEffects, SameAkin DEF FsInv, Tree, ExtractFile, Calling
  <2>2. CASE ExtractLink
    BY <2>2, ExtractLinkEffects DEF FsInv, Tree, ExtractLink, Calling
  <2>. QED  BY <2>1, <2>2
<1>3. x[1] \in Seq(Names)
  BY PathWalks DEF WalkInv, Shape
<1>4. CASE x[1] = ImagePath
  <2>1. x[2] = call[1] /\ Path = Output \o x[1] /\ Node = image[x[2]]
    BY <1>1, <1>4, BelowCall, CallPath, CallFacts
  <2>2. HasContent(Output \o x[1], x[2])'
    BY <1>1, <1>2, <2>1 DEF HasContent
  <2>. QED  BY <2>2
<1>5. CASE x[1] # ImagePath
  <2>1. Pending(x[1]) \/ Blamed(x[1]) \/ HasContent(Output \o x[1], x[2])
    BY <1>1, CallFacts DEF LossInv
  <2>2. CASE Pending(x[1])
    BY <1>1, <1>3, <1>5, <2>2, EndedPending, LeafUnder
  <2>3. CASE Blamed(x[1])
    BY <1>1, <2>3, BlameStays
  <2>4. CASE HasContent(Output \o x[1], x[2])
    <3>1. Akin(fs', fs, Output \o x[1])
      BY <1>1, <1>2, <1>3, <1>5, Elsewhere
    <3>. QED  BY <1>1, <2>4, <3>1, ContentStays
  <2>. QED  BY <2>1, <2>2, <2>3, <2>4
<1>. QED  BY <1>4, <1>5

LEMMA LossEnter ==
    ASSUME WalkInv, FsInv, WayInv, LossInv, Straight, ~strayed',
           NEW x \in ImagePaths, EnterDirectory
    PROVE  Pending(x[1])' \/ Blamed(x[1])' \/ HasContent(Output \o x[1], x[2])'
<1>1. /\ call # <<>> /\ Node.type = "directory"
      /\ UNCHANGED <<image, reported>>
      /\ \A q : q # Path => Same(fs', fs, q)
      /\ Path \in DOMAIN fs' /\ fs'[Path].type = "directory"
  BY EnterEffects DEF FsInv, Tree, EnterDirectory, Calling
<1>2. x[1] \in Seq(Names)
  BY PathWalks DEF WalkInv, Shape
<1>3. CASE x[1] = ImagePath
  <2>1. x[2] = call[1] /\ Path = Output \o x[1] /\ Node = image[x[2]]
    BY <1>1, <1>3, BelowCall, CallPath, CallFacts
  <2>2. HasContent(Output \o x[1], x[2])'
    BY <1>1, <2>1 DEF HasContent
  <2>. QED  BY <2>2
<1>4. CASE x[1] # ImagePath
  <2>1. Pending(x[1]) \/ Blamed(x[1]) \/ HasContent(Output \o x[1], x[2])
    BY <1>1, CallFacts DEF LossInv
  <2>2. CASE Pending(x[1])
    BY <1>4, <2>2, EnterPending
  <2>3. CASE Blamed(x[1])
    BY <1>1, <2>3, BlameStays
  <2>4. CASE HasContent(Output \o x[1], x[2])
    <3>1. Akin(fs', fs, Output \o x[1])
      BY <1>1, <1>2, <1>4, Elsewhere, SameAkin
    <3>. QED  BY <1>1, <2>4, <3>1, ContentStays
  <2>. QED  BY <2>1, <2>2, <2>3, <2>4
<1>. QED  BY <1>3, <1>4

LEMMA LossLoop ==
    ASSUME WalkInv, FsInv, WayInv, LossInv, Straight, ~strayed',
           NEW x \in ImagePaths,
           NextEntry \/ SkipEntry \/ LeaveDirectory \/ LeaveFails
    PROVE  Pending(x[1])' \/ Blamed(x[1])' \/ HasContent(Output \o x[1], x[2])'
<1>1. /\ phase = "traverse" /\ image' = image /\ reported \subseteq reported'
      /\ Akin(fs', fs, Output \o x[1])
  <2>1. CASE NextEntry \/ SkipEntry
    BY <2>1 DEF NextEntry, SkipEntry, InLoop, given, Akin
  <2>2. CASE LeaveDirectory
    <3>1. Akin(fs', fs, Output \o x[1])
      BY <2>2, LeaveTree DEF FsInv, Tree
    <3>. QED  BY <2>2, <3>1 DEF LeaveDirectory, InLoop, given
  <2>3. CASE LeaveFails
    BY <2>3, NeverStuck DEF Straight
  <2>. QED  BY <2>1, <2>2, <2>3
<1>2. x[1] \in Seq(Names)
  BY PathWalks DEF WalkInv, Shape
<1>3. Pending(x[1]) => Pending(x[1])' \/ Blamed(x[1])'
  BY <1>2, NextEntryPending, SkipEntryPending, LeavePending, NeverStuck DEF Straight
<1>4. Pending(x[1]) \/ Blamed(x[1]) \/ HasContent(Output \o x[1], x[2])
  BY <1>1 DEF LossInv
<1>. QED  BY <1>1, <1>3, <1>4, BlameStays, ContentStays

LEMMA NextLoss ==
    ASSUME WalkInv, FsInv, WayInv, LossInv, [Next]_vars
    PROVE  LossInv'
<1>. SUFFICES ASSUME phase' \in {"traverse", "done", "stranded"}, Straight',
                     NEW x \in ImagePaths
              PROVE  Pending(x[1])' \/ Blamed(x[1])' \/ HasContent(Output \o x[1], x[2])'
  <2>1. ImagePaths' = ImagePaths
    BY LostGrows, PathsStay
  <2>. QED  BY <2>1 DEF LossInv, Output
<1>1. Straight /\ ~strayed' /\ image' = image
  BY LostGrows
<1>2. CASE MakeOutput
  <2>1. call' # <<>> /\ ImagePath' = <<>>
    BY <1>2 DEF MakeOutput, WalkInv, PhaseInv, ImagePath
  <2>2. Under(x[1], <<>>)
    <3>1. Len(x[1]) \in Nat
      BY PathWalks, LenProperties DEF WalkInv, Shape
    <3>. QED  BY <3>1 DEF Under
  <2>. QED  BY <1>1, <2>1, <2>2, PendingNext
<1>3. CASE MakeOutputFails
  BY <1>3 DEF MakeOutputFails
<1>4. CASE UNCHANGED vars \/ Finish \/ FinishFails
  <2>1. Pending(x[1]) \/ Blamed(x[1]) \/ HasContent(Output \o x[1], x[2])
    BY <1>1, <1>4 DEF LossInv, vars, Finish, FinishFails, Returned
  <2>2. UNCHANGED <<image, stack, call, fs, reported>>
    BY <1>4 DEF vars, Finish, FinishFails, given
  <2>3. Pending(x[1])' <=> Pending(x[1])
    BY <2>2 DEF Pending, Called, Under, ImagePath, NamesOf, Waits, LoopWaits, Table
  <2>4. Akin(fs', fs, Output \o x[1])
    BY <2>2 DEF Akin
  <2>. QED  BY <2>1, <2>2, <2>3, <2>4, BlameStays, ContentStays
<1>. QED  BY <1>1, <1>2, <1>3, <1>4, LossReturn, LossExtract, LossEnter, LossLoop
             DEF Next

(***************************************************************************)
(* When unfs ends, no file or link took the way back of a directory and no  *)
(* link was taken for what had to be extracted, every path of the image    *)
(* stands in the output with its content, or an error was printed for it   *)
(* or for a directory above it.                                            *)
(***************************************************************************)
THEOREM NothingLostInSilence == Spec => []LossIsReported
<1>1. Init => CoreInv /\ LossInv
  <2>1. Init => LossInv
    BY DEF Init, LossInv
  <2>. QED  BY <2>1, InitCore
<1>2. CoreInv /\ LossInv /\ [Next]_vars => (CoreInv /\ LossInv)'
  BY NextCore, NextLoss DEF CoreInv
<1>3. CoreInv /\ LossInv => LossIsReported
  <2>. SUFFICES ASSUME WalkInv, FsInv, LossInv, Traversed, Straight,
                       NEW x \in ImagePaths
                PROVE  \/ HasContent(Output \o x[1], x[2])
                       \/ Prefixes(x[1]) \cap reported # {}
    BY DEF LossIsReported, CoreInv
  <2>1. ~Pending(x[1])
    <3>1. stack = <<>> /\ call = <<>> /\ Len(stack) = 0
      BY DEF WalkInv, PhaseInv, Traversed
    <3>. QED  BY <3>1 DEF Pending, Called, Waits
  <2>2. CASE Blamed(x[1])
    <3>1. PICK q \in reported : Under(x[1], q)
      BY <2>2 DEF Blamed
    <3>2. x[1] \in Seq(Names) /\ q \in Seq(Names)
      BY PathWalks DEF WalkInv, Shape, FsInv
    <3>3. q \in Prefixes(x[1])
      BY <3>1, <3>2, PrefixUnder
    <3>. QED  BY <3>1, <3>3
  <2>3. CASE HasContent(Output \o x[1], x[2])
    BY <2>3
  <2>. QED  BY <2>1, <2>2, <2>3 DEF LossInv, Traversed
<1>. QED  BY <1>1, <1>2, <1>3, PTL DEF Spec
(***************************************************************************)
(* Root loses to obstacles only                                            *)
(***************************************************************************)
LEMMA ObstacleStays ==
    ASSUME image' = image, NEW path, NEW n, Akin(fs', fs, path),
           Obstructed(path, n)
    PROVE  Obstructed(path, n)'
BY DEF Obstructed, Akin

\* What root is refused is in the way.
LEMMA RefusedObstructs ==
    ASSUME WalkInv, WayInv, Tree(fs), privileged, ~strayed, call # <<>>,
           RefusedDirectory \/ RefusedFile \/ RefusedLink
    PROVE  fs' = fs /\ Path \in DOMAIN fs /\ fs[Path].type # Node.type
<1>1. /\ Searchable(fs, cwd) /\ call[2] \in Names \cup {Dot}
      /\ Path = PathOf(cwd, call[2])
      /\ \A path, permission : May(path, permission)
  BY WayFacts, NodeFacts DEF May, Path
<1>2. CASE RefusedDirectory
  <2>1. CanMake
    BY <1>1 DEF CanMake
  <2>2. ASSUME ~(Path \in DOMAIN fs /\ fs[Path].type # "directory")
        PROVE  FALSE
    <3>1. /\ Path \in DOMAIN MadeDirectory /\ Kept(fs, MadeDirectory)
          /\ MadeDirectory[Path].type = "directory"
      BY <2>2, MadeFacts
    <3>2. ~IsLink(MadeDirectory, PathOf(cwd, call[2])) /\ Searchable(MadeDirectory, cwd)
      BY <1>1, <3>1 DEF IsLink, Kept
    <3>3. Path \in Leads(MadeDirectory, cwd, call[2])
      BY <1>1, <3>2, LeadsDirect
    <3>4. Searchable(MadeDirectory, Path)
      BY <3>1 DEF Searchable
    <3>. QED  BY <1>2, <2>1, <3>3, <3>4 DEF RefusedDirectory, Entered
  <2>3. MadeDirectory = fs
    BY <2>2 DEF MadeDirectory, Exists
  <2>. QED  BY <1>2, <2>2, <2>3 DEF RefusedDirectory, Return, Calling
<1>3. CASE RefusedFile
  <2>1. ASSUME Path \notin DOMAIN Unlinked
        PROVE  FALSE
    <3>1. ~IsLink(Unlinked, PathOf(cwd, call[2])) /\ Searchable(Unlinked, cwd)
      BY <1>1, <2>1, UnlinkedFacts DEF IsLink, Kept
    <3>2. Path \in Leads(Unlinked, cwd, call[2])
      BY <1>1, <3>1, LeadsDirect
    <3>. QED  BY <1>1, <1>3, <2>1, <3>2 DEF RefusedFile, Openable
  <2>. QED  BY <1>1, <1>3, <2>1, UnlinkedFacts DEF RefusedFile, Return, Calling
<1>4. CASE RefusedLink
  <2>1. Path \in DOMAIN Unlinked
    BY <1>1, <1>4 DEF RefusedLink, CanLink, MayChange
  <2>. QED  BY <1>1, <1>4, <2>1, UnlinkedFacts DEF RefusedLink, Return, Calling
<1>. QED  BY <1>2, <1>3, <1>4

LEMMA RootReturn ==
    ASSUME WalkInv, FsInv, WayInv, RootInv, privileged, failures' = 0, Straight,
           RefusedDirectory \/ RefusedFile \/ RefusedLink,
           NEW x \in ImagePaths, x[1] \in reported'
    PROVE  ~Pending(x[1])' /\ Obstructed(Output \o x[1], x[2])'
<1>1. /\ call # <<>> /\ call' = <<>> /\ UNCHANGED <<image, stack>>
      /\ reported' = reported \cup {ImagePath}
      /\ failures = 0
  BY ReturnEffects DEF FsInv, Tree, RefusedDirectory, RefusedFile, RefusedLink
<1>2. fs' = fs /\ Path \in DOMAIN fs /\ fs[Path].type # Node.type
  BY <1>1, RefusedObstructs DEF FsInv, Tree, Straight
<1>3. x[1] \in Seq(Names)
  BY PathWalks DEF WalkInv, Shape
<1>4. CASE x[1] = ImagePath
  <2>1. x[2] = call[1] /\ Path = Output \o x[1] /\ Node = image[x[2]]
    BY <1>1, <1>4, BelowCall, CallPath, CallFacts
  <2>2. Obstructed(Output \o x[1], x[2])'
    BY <1>1, <1>2, <2>1 DEF Obstructed
  <2>. QED  BY <1>1, <1>3, <1>4, <2>2, EndedPending
<1>5. CASE x[1] # ImagePath
  <2>1. ~Pending(x[1]) /\ Obstructed(Output \o x[1], x[2])
    BY <1>1, <1>5 DEF RootInv, Straight
  <2>2. ~Pending(x[1])'
    BY <1>1, <1>3, <2>1, EndedPending
  <2>3. Akin(fs', fs, Output \o x[1])
    BY <1>2 DEF Akin
  <2>. QED  BY <1>1, <2>1, <2>2, <2>3, ObstacleStays
<1>. QED  BY <1>4, <1>5

\* Other steps leave what was reported, and what is in its way, alone.
LEMMA RootGoesOn ==
    ASSUME WalkInv, FsInv, WayInv, RootInv, privileged, failures = 0,
           Straight, ~strayed',
           ExtractFile \/ ExtractLink \/ EnterDirectory \/ NextEntry \/ LeaveDirectory,
           NEW x \in ImagePaths, x[1] \in reported'
    PROVE  ~Pending(x[1])' /\ Obstructed(Output \o x[1], x[2])'
<1>1. reported' = reported /\ image' = image
  BY DEF ExtractFile, ExtractLink, EnterDirectory, NextEntry, LeaveDirectory, given
<1>2. ~Pending(x[1]) /\ Obstructed(Output \o x[1], x[2])
  BY <1>1 DEF RootInv, Straight
<1>3. x[1] \in Seq(Names)
  BY PathWalks DEF WalkInv, Shape
<1>4. CASE ExtractFile \/ ExtractLink \/ EnterDirectory
  <2>1. call # <<>> /\ call' = <<>>
    BY <1>4 DEF ExtractFile, ExtractLink, EnterDirectory, Calling
  <2>2. x[1] # ImagePath
    <3>1. Len(ImagePath) \in Nat
      BY <2>1, CallPath
    <3>2. Under(ImagePath, ImagePath)
      BY <3>1 DEF Under
    <3>. QED  BY <1>2, <2>1, <3>2 DEF Pending, Called
  <2>3. \A q : q # Path => Akin(fs', fs, q)
    <3>1. CASE ExtractFile
      BY <3>1, ExtractFileEffects, SameAkin DEF FsInv, Tree
    <3>2. CASE ExtractLink
      BY <3>2, ExtractLinkEffects DEF FsInv, Tree
    <3>3. CASE EnterDirectory
      BY <3>3, EnterEffects, SameAkin DEF FsInv, Tree
    <3>. QED  BY <1>4, <3>1, <3>2, <3>3
  <2>4. Akin(fs', fs, Output \o x[1])
    BY <1>3, <2>1, <2>2, <2>3, Elsewhere
  <2>5. ~Pending(x[1])'
    <3>1. CASE ExtractFile \/ ExtractLink
      <4>1. stack' = stack
        BY <3>1 DEF ExtractFile, ExtractLink
      <4>. QED  BY <1>1, <1>2, <1>3, <2>1, <4>1, EndedPending
    <3>2. CASE EnterDirectory
      BY <1>2, <3>2, EnterPending
    <3>. QED  BY <1>4, <3>1, <3>2
  <2>. QED  BY <1>1, <1>2, <2>4, <2>5, ObstacleStays
<1>5. CASE NextEntry \/ LeaveDirectory
  <2>1. ~Pending(x[1])'
    BY <1>2, <1>3, <1>5, NextEntryPending, LeavePending
  <2>2. Akin(fs', fs, Output \o x[1])
    <3>1. CASE NextEntry
      BY <3>1 DEF NextEntry, Akin
    <3>2. CASE LeaveDirectory
      BY <3>2, LeaveTree DEF FsInv, Tree
    <3>. QED  BY <1>5, <3>1, <3>2
  <2>. QED  BY <1>1, <1>2, <2>1, <2>2, ObstacleStays
<1>. QED  BY <1>4, <1>5

LEMMA NextRoot ==
    ASSUME WalkInv, FsInv, WayInv, RootInv, [Next]_vars
    PROVE  RootInv'
<1>. SUFFICES ASSUME privileged', failures' = 0, ~strayed',
                     NEW x \in ImagePaths, x[1] \in reported'
              PROVE  ~Pending(x[1])' /\ Obstructed(Output \o x[1], x[2])'
  <2>1. ImagePaths' = ImagePaths
    BY LostGrows, PathsStay
  <2>. QED  BY <2>1 DEF RootInv, Output
<1>1. failures \in Nat /\ lost \in 0..failures
  BY OutputFacts DEF WalkInv, Shape
<1>2. privileged /\ image' = image /\ ~strayed
  BY LostGrows
<1>3. CASE DirectoryFails \/ SkipEntry \/ FileFails \/ LinkFails
  <2>1. failures' = failures + 1
    BY <1>3 DEF DirectoryFails, SkipEntry, FileFails, LinkFails, Fail
  <2>. QED  BY <1>1, <2>1
<1>4. CASE MakeOutput \/ MakeOutputFails
  <2>1. reported' = {}
    BY <1>4 DEF MakeOutput, MakeOutputFails, WalkInv, PhaseInv
  <2>. QED  BY <2>1
<1>5. CASE UNCHANGED vars \/ Finish \/ FinishFails
  <2>1. UNCHANGED <<image, stack, call, fs, reported, failures>>
    <3>1. CASE UNCHANGED vars
      BY <3>1 DEF vars, given
    <3>2. CASE Finish
      BY <3>2 DEF Finish, given
    <3>3. CASE FinishFails
      <4>1. failures' = failures
        BY <1>1, <3>3 DEF FinishFails, Fail
      <4>. QED  BY <3>3, <4>1 DEF FinishFails, given
    <3>. QED  BY <1>5, <3>1, <3>2, <3>3
  <2>2. ~Pending(x[1]) /\ Obstructed(Output \o x[1], x[2])
    BY <1>2, <2>1 DEF RootInv
  <2>3. Pending(x[1])' <=> Pending(x[1])
    BY <2>1 DEF Pending, Called, Under, ImagePath, NamesOf, Waits, LoopWaits, Table
  <2>4. Akin(fs', fs, Output \o x[1])
    BY <2>1 DEF Akin
  <2>. QED  BY <2>1, <2>2, <2>3, <2>4, ObstacleStays
<1>6. CASE RefusedDirectory \/ RefusedFile \/ RefusedLink
  <2>1. failures = 0 /\ Straight
    BY <1>1, <1>2, <1>6 DEF RefusedDirectory, RefusedFile, RefusedLink, Straight
  <2>. QED  BY <1>2, <1>6, <2>1, RootReturn
<1>7. CASE ExtractFile \/ ExtractLink \/ EnterDirectory \/ NextEntry \/ LeaveDirectory
  <2>1. failures = 0 /\ Straight
    BY <1>1, <1>2, <1>7 DEF ExtractFile, ExtractLink, EnterDirectory, NextEntry,
                            LeaveDirectory, Straight
  <2>. QED  BY <1>2, <1>7, <2>1, RootGoesOn
<1>8. CASE LeaveFails
  BY <1>2, <1>8, NeverStuck
<1>. QED  BY <1>3, <1>4, <1>5, <1>6, <1>7, <1>8 DEF Next

(***************************************************************************)
(* As root, and with every system call that can succeed succeeding, an     *)
(* error is printed only for a path where something of another type stood  *)
(* before: no entry is lost because of those extracted before it, as long  *)
(* as no link that was left is taken for one of the image's files.         *)
(***************************************************************************)
THEOREM RootOnlyMeetsObstacles == Spec => []RootLosesToObstacles
<1>1. Init => CoreInv /\ RootInv
  <2>1. Init => RootInv
    BY DEF Init, RootInv
  <2>. QED  BY <2>1, InitCore
<1>2. CoreInv /\ RootInv /\ [Next]_vars => (CoreInv /\ RootInv)'
  BY NextCore, NextRoot DEF CoreInv
<1>3. RootInv => RootLosesToObstacles
  BY DEF RootInv, RootLosesToObstacles, Obstructed
<1>. QED  BY <1>1, <1>2, <1>3, PTL DEF Spec

(***************************************************************************)
(* Modes and owners                                                        *)
(***************************************************************************)
\* Leaving a directory sets its mode, and touches nothing else in the output.
LEMMA LeaveModes ==
    ASSUME WalkInv, FsInv, WayInv, Straight, ~strayed', LeaveDirectory,
           NEW p \in Seq(Names), p # <<>>
    PROVE  /\ p # NamesOf(stack) =>
                 /\ Same(fs', fs, Output \o p)
                 /\ Output \o p \in pointed => Output \o p \in pointed'
           /\ p = NamesOf(stack) =>
                 /\ Output \o p \in DOMAIN fs'
                 /\ \/ fs'[Output \o p].mode = image[Top.node].mode
                    \/ ~privileged /\ fs'[Output \o p].owner # User
                 /\ privileged => fs'[Output \o p].owner = image[Top.node].owner
<1>1. stack # <<>> /\ stack \in Seq(Frames) /\ image \in Images /\ Loops(stack)
  BY DEF WalkInv, Shape, StackInv, LeaveDirectory, InLoop
<1>2. PICK names : names = NamesOf(stack)
  OBVIOUS
<1>3. PICK n : n = Len(stack) /\ n \in Nat \ {0}
  BY <1>1, NamesFacts
<1>4. names \in Seq(Names) /\ Len(names) = n - 1 /\ cwd = Output \o names
  BY <1>1, <1>2, <1>3, NamesFacts DEF WalkInv, CwdInv, Straight
<1>5. PICK path : path = PathOf(ParentOf(cwd), Top.name)
  OBVIOUS
<1>6. PICK node : node = image[Top.node]
  OBVIOUS
<1>7. /\ \A q : q # path => Same(fs', fs, q)
      /\ path \in DOMAIN fs =>
            /\ \/ fs'[path].mode = node.mode
               \/ ~privileged /\ fs'[path].owner # User
            /\ privileged => fs'[path].owner = node.owner
      /\ pointed' = pointed \ {path}
  BY <1>5, <1>6, LeaveEffects DEF FsInv, Tree
<1>8. path \in DOMAIN fs => path \in DOMAIN fs'
  BY LeaveTree DEF FsInv, Tree, Akin
<1>9. CASE n = 1
  <2>1. Top.name = Dot /\ names = <<>>
    BY <1>1, <1>3, <1>4, <1>9, LeftFacts, EmptySeq
  <2>2. path = ParentOf(Output)
    BY <1>4, <1>5, <2>1, OutputFacts, ConcatEmptySeq DEF PathOf
  <2>3. Len(path) = MaxFailures + 1 /\ MaxFailures \in Nat
        /\ Output \in Seq(Parts) /\ p \in Seq(Parts) /\ Len(Output) = MaxFailures + 2
    BY <2>2, OutputFacts, SeqMonotonic DEF Parts
  <2>4. Len(Output \o p) >= MaxFailures + 2
    <3>1. Len(Output \o p) = Len(Output) + Len(p) /\ Len(p) \in Nat
      BY <2>3, ConcatProperties, LenProperties
    <3>. QED  BY <2>3, <3>1
  <2>5. Output \o p # path
    BY <2>3, <2>4
  <2>. QED  BY <1>2, <1>7, <2>1, <2>5
<1>10. CASE n # 1
  <2>1. /\ Top.name \in Names /\ Top.name # Dot
        /\ NamesOf(Front(stack)) \in Seq(Names)
        /\ names = Append(NamesOf(Front(stack)), Top.name)
    <3>1. n > 1
      BY <1>3, <1>10
    <3>. QED  BY <1>1, <1>2, <1>3, <3>1, LeftFacts, UnfsAssumption
  <2>2. path = Output \o names
    <3>1. Top.name \in Parts /\ NamesOf(Front(stack)) \in Seq(Parts)
      BY <2>1, SeqMonotonic DEF Parts
    <3>2. cwd = Append(Output \o NamesOf(Front(stack)), Top.name)
      BY <1>4, <2>1, <3>1, OutputFacts, ConcatAppend
    <3>3. Output \o NamesOf(Front(stack)) \in Seq(Parts)
      BY <3>1, OutputFacts, ConcatProperties
    <3>4. ParentOf(cwd) = Output \o NamesOf(Front(stack))
      BY <3>1, <3>2, <3>3, ParentOfAppend
    <3>. QED  BY <1>4, <1>5, <2>1, <3>2, <3>4 DEF PathOf
  <2>3. path \in DOMAIN fs
    BY <1>1, <1>4, <2>2, WayFacts DEF Searchable, Straight
  <2>4. p # names => Output \o p # path
    BY <1>4, <2>2, OutputInjective
  <2>. QED  BY <1>2, <1>6, <1>7, <1>8, <2>2, <2>3, <2>4
<1>. QED  BY <1>9, <1>10

LEMMA SettledStays ==
    ASSUME UNCHANGED <<image, privileged>>, NEW p, NEW n,
           Same(fs', fs, Output \o p),
           Output \o p \in pointed => Output \o p \in pointed',
           Settled(p, n)
    PROVE  Settled(p, n)'
BY DEF Settled, Same, Output

LEMMA ModesReturn ==
    ASSUME WalkInv, FsInv, WayInv, ModesInv, Straight, ~strayed',
           NEW x \in ImagePaths, x[1] # <<>>,
           \/ RefusedDirectory \/ DirectoryFails \/ RefusedFile \/ FileFails
           \/ RefusedLink \/ LinkFails
    PROVE  \/ Pending(x[1])' \/ Blamed(x[1])'
           \/ Open(x[1], stack)' \/ Settled(x[1], x[2])'
<1>1. /\ call # <<>> /\ call' = <<>>
      /\ UNCHANGED <<image, privileged, stack, pointed>>
      /\ reported' = reported \cup {ImagePath}
      /\ \A q : q # Path => Same(fs', fs, q)
  BY ReturnEffects DEF FsInv, Tree
<1>2. x[1] \in Seq(Names)
  BY PathWalks DEF WalkInv, Shape
<1>3. Under(x[1], ImagePath) => Blamed(x[1])'
  BY <1>1 DEF Blamed, Under
<1>4. x[1] = ImagePath => Under(x[1], ImagePath)
  BY <1>1, CallPath DEF Under
<1>5. Pending(x[1]) \/ Blamed(x[1]) \/ Open(x[1], stack) \/ Settled(x[1], x[2])
  BY <1>1, CallFacts DEF ModesInv, Straight
<1>6. CASE Pending(x[1])
  BY <1>1, <1>2, <1>3, <1>6, EndedPending
<1>7. CASE Blamed(x[1])
  BY <1>1, <1>7, BlameStays
<1>8. CASE Open(x[1], stack)
  BY <1>1, <1>2, <1>8, EndedPending
<1>9. CASE x[1] # ImagePath /\ Settled(x[1], x[2])
  <2>1. Same(fs', fs, Output \o x[1])
    BY <1>1, <1>2, <1>9, Elsewhere
  <2>. QED  BY <1>1, <1>9, <2>1, SettledStays
<1>. QED  BY <1>3, <1>4, <1>5, <1>6, <1>7, <1>8, <1>9

LEMMA ModesEnter ==
    ASSUME WalkInv, FsInv, WayInv, ModesInv, Straight, ~strayed',
           NEW x \in ImagePaths, x[1] # <<>>,
           EnterDirectory
    PROVE  \/ Pending(x[1])' \/ Blamed(x[1])'
           \/ Open(x[1], stack)' \/ Settled(x[1], x[2])'
<1>1. /\ call # <<>> /\ UNCHANGED <<image, privileged, reported, pointed>>
      /\ \A q : q # Path => Same(fs', fs, q)
  BY EnterEffects DEF FsInv, Tree
<1>2. x[1] \in Seq(Names)
  BY PathWalks DEF WalkInv, Shape
<1>3. Pending(x[1]) \/ Blamed(x[1]) \/ Open(x[1], stack) \/ Settled(x[1], x[2])
  BY <1>1, CallFacts DEF ModesInv, Straight
<1>4. CASE Pending(x[1]) \/ Open(x[1], stack) \/ x[1] = ImagePath
  BY <1>4, EnterPending
<1>5. CASE Blamed(x[1])
  BY <1>1, <1>5, BlameStays
<1>6. CASE x[1] # ImagePath /\ Settled(x[1], x[2])
  <2>1. Same(fs', fs, Output \o x[1])
    BY <1>1, <1>2, <1>6, Elsewhere
  <2>. QED  BY <1>1, <1>6, <2>1, SettledStays
<1>. QED  BY <1>3, <1>4, <1>5, <1>6

LEMMA ModesFile ==
    ASSUME WalkInv, FsInv, WayInv, ModesInv, Straight, ~strayed',
           NEW x \in ImagePaths, x[1] # <<>>,
           ExtractFile
    PROVE  \/ Pending(x[1])' \/ Blamed(x[1])'
           \/ Open(x[1], stack)' \/ Settled(x[1], x[2])'
<1>1. /\ call # <<>> /\ call' = <<>> /\ Node.type # "directory"
      /\ UNCHANGED <<image, privileged, stack, reported>>
  BY DEF ExtractFile, Calling, given
<1>2. /\ \A q : q # Path => Same(fs', fs, q)
      /\ Path \in DOMAIN fs'
      /\ \/ fs'[Path].mode = Node.mode
         \/ ~privileged /\ fs'[Path].owner # User
      /\ privileged => fs'[Path].owner = Node.owner
      /\ pointed' = pointed \ {Path}
  BY ExtractFileEffects DEF FsInv, Tree
<1>3. x[1] \in Seq(Names)
  BY PathWalks DEF WalkInv, Shape
<1>4. CASE x[1] = ImagePath
  <2>1. x[2] = call[1] /\ Path = Output \o x[1] /\ Node = image[x[2]]
    BY <1>1, <1>4, BelowCall, CallPath, CallFacts
  <2>2. Settled(x[1], x[2])'
    BY <1>1, <1>2, <2>1 DEF Settled, Output
  <2>. QED  BY <2>2
<1>5. CASE x[1] # ImagePath
  <2>1. Pending(x[1]) \/ Blamed(x[1]) \/ Open(x[1], stack) \/ Settled(x[1], x[2])
    BY <1>1, CallFacts DEF ModesInv, Straight
  <2>2. CASE Pending(x[1]) \/ Open(x[1], stack)
    BY <1>1, <1>3, <1>5, <2>2, EndedPending, LeafUnder
  <2>3. CASE Blamed(x[1])
    BY <1>1, <2>3, BlameStays
  <2>4. CASE Settled(x[1], x[2])
    <3>1. Output \o x[1] # Path
      BY <1>1, <1>3, <1>5, Elsewhere
    <3>. QED  BY <1>1, <1>2, <2>4, <3>1, SettledStays
  <2>. QED  BY <2>1, <2>2, <2>3, <2>4
<1>. QED  BY <1>4, <1>5

LEMMA ModesLink ==
    ASSUME WalkInv, FsInv, WayInv, ModesInv, Straight, ~strayed',
           NEW x \in ImagePaths, x[1] # <<>>,
           ExtractLink
    PROVE  \/ Pending(x[1])' \/ Blamed(x[1])'
           \/ Open(x[1], stack)' \/ Settled(x[1], x[2])'
<1>1. /\ call # <<>> /\ call' = <<>> /\ Node.type # "directory"
      /\ UNCHANGED <<image, privileged, stack, reported>>
  BY DEF ExtractLink, Calling, given
<1>2. /\ Path \in DOMAIN fs'
      /\ \A q : q # Path => Akin(fs', fs, q)
      /\ \A q : q # Path /\ q \notin pointed' => Same(fs', fs, q)
      /\ \A q \in DOMAIN fs : q # Path => fs'[q].owner = fs[q].owner
      /\ fs'[Path].type = "symbolic_link"
      /\ privileged => fs'[Path].owner = Node.owner
      /\ pointed \subseteq pointed'
  BY ExtractLinkEffects DEF FsInv, Tree
<1>3. x[1] \in Seq(Names)
  BY PathWalks DEF WalkInv, Shape
<1>4. CASE x[1] = ImagePath
  <2>1. x[2] = call[1] /\ Path = Output \o x[1] /\ Node = image[x[2]]
    BY <1>1, <1>4, BelowCall, CallPath, CallFacts
  <2>2. Settled(x[1], x[2])'
    BY <1>1, <1>2, <2>1 DEF Settled, Output
  <2>. QED  BY <2>2
<1>5. CASE x[1] # ImagePath
  <2>1. Pending(x[1]) \/ Blamed(x[1]) \/ Open(x[1], stack) \/ Settled(x[1], x[2])
    BY <1>1, CallFacts DEF ModesInv, Straight
  <2>2. CASE Pending(x[1]) \/ Open(x[1], stack)
    BY <1>1, <1>3, <1>5, <2>2, EndedPending, LeafUnder
  <2>3. CASE Blamed(x[1])
    BY <1>1, <2>3, BlameStays
  <2>4. CASE Settled(x[1], x[2])
    <3>1. Output \o x[1] # Path
      BY <1>1, <1>3, <1>5, Elsewhere
    <3>2. CASE Output \o x[1] \notin pointed'
      BY <1>1, <1>2, <2>4, <3>1, <3>2, SettledStays
    <3>3. CASE Output \o x[1] \in pointed'
      <4>1. Output \o x[1] \in DOMAIN fs'
            /\ fs'[Output \o x[1]].owner = fs[Output \o x[1]].owner
        BY <1>2, <2>4, <3>1 DEF Akin, Settled
      <4>. QED  BY <1>1, <2>4, <3>3, <4>1 DEF Settled, Output
    <3>. QED  BY <3>2, <3>3
  <2>. QED  BY <2>1, <2>2, <2>3, <2>4
<1>. QED  BY <1>4, <1>5

LEMMA ModesLoop ==
    ASSUME WalkInv, FsInv, WayInv, ModesInv, Straight, ~strayed',
           NEW x \in ImagePaths, x[1] # <<>>,
           NextEntry \/ SkipEntry \/ LeaveDirectory \/ LeaveFails
    PROVE  \/ Pending(x[1])' \/ Blamed(x[1])'
           \/ Open(x[1], stack)' \/ Settled(x[1], x[2])'
<1>1. /\ phase = "traverse" /\ stack # <<>> /\ UNCHANGED <<image, privileged>>
      /\ reported \subseteq reported'
  BY DEF NextEntry, SkipEntry, LeaveDirectory, LeaveFails, InLoop, given
<1>2. x[1] \in Seq(Names) /\ x[2] \in DOMAIN image /\ Reached(x)
  BY PathWalks DEF WalkInv, Shape
<1>3. Pending(x[1]) \/ Blamed(x[1]) \/ Open(x[1], stack) \/ Settled(x[1], x[2])
  BY <1>1 DEF ModesInv, Straight
<1>4. CASE Pending(x[1])
  BY <1>2, <1>4, NextEntryPending, SkipEntryPending, LeavePending, NeverStuck DEF Straight
<1>5. CASE Blamed(x[1])
  BY <1>1, <1>5, BlameStays
<1>6. CASE NextEntry \/ SkipEntry
  <2>1. fs' = fs /\ pointed' = pointed
    BY <1>6 DEF NextEntry, SkipEntry, tally, astray
  <2>2. Same(fs', fs, Output \o x[1])
    BY <2>1 DEF Same
  <2>3. Open(x[1], stack) => Open(x[1], stack)'
    BY <1>2, <1>6, NextEntryPending, SkipEntryPending
  <2>. QED  BY <1>1, <1>3, <1>4, <1>5, <2>1, <2>2, <2>3, SettledStays
<1>7. CASE LeaveDirectory
  <2>1. CASE x[1] # NamesOf(stack)
    <3>1. /\ Same(fs', fs, Output \o x[1])
          /\ Output \o x[1] \in pointed => Output \o x[1] \in pointed'
      BY <1>2, <1>7, <2>1, LeaveModes
    <3>2. Open(x[1], stack) => Open(x[1], stack)'
      BY <1>2, <1>7, <2>1, LeavePending
    <3>. QED  BY <1>1, <1>3, <1>4, <1>5, <3>1, <3>2, SettledStays
  <2>2. CASE x[1] = NamesOf(stack)
    <3>1. /\ Output \o x[1] \in DOMAIN fs'
          /\ \/ fs'[Output \o x[1]].mode = image[Top.node].mode
             \/ ~privileged /\ fs'[Output \o x[1]].owner # User
          /\ privileged => fs'[Output \o x[1]].owner = image[Top.node].owner
      BY <1>2, <1>7, <2>2, LeaveModes
    <3>2. x[2] = Top.node
      <4>1. PICK p : p = x[1]
        OBVIOUS
      <4>2. PICK w : WalkTo(p, w) /\ w[Len(p)] = x[2]
        BY <1>2, <4>1 DEF Reached
      <4>3. stack \in Seq(Frames) /\ image \in Images /\ Loops(stack)
        BY DEF WalkInv, Shape, StackInv
      <4>4. PICK n : n = Len(stack) /\ n \in Nat \ {0} /\ Top = stack[n]
        BY <1>1, TopFacts
      <4>5. /\ p \in Seq(Names) /\ Len(p) = n - 1
            /\ \A i \in 1..(n - 1) : p[i] = stack[i + 1].name
        BY <1>1, <2>2, <4>1, <4>3, <4>4, NamesFacts
      <4>6. w[n - 1] = stack[(n - 1) + 1].node
        <5>1. n - 1 \in Nat /\ n - 1 =< Len(p) /\ n - 1 < Len(stack)
          BY <4>4, <4>5
        <5>. QED  BY <1>1, <4>2, <4>3, <4>5, <5>1, AlongStack
      <4>7. (n - 1) + 1 = n
        BY <4>4
      <4>. QED  BY <4>2, <4>4, <4>5, <4>6, <4>7
    <3>3. Settled(x[1], x[2])'
      BY <1>1, <3>1, <3>2 DEF Settled, Output
    <3>. QED  BY <3>3
  <2>. QED  BY <2>1, <2>2
<1>8. CASE LeaveFails
  BY <1>8, NeverStuck DEF Straight
<1>. QED  BY <1>6, <1>7, <1>8

LEMMA NextModes ==
    ASSUME WalkInv, FsInv, WayInv, ModesInv, [Next]_vars
    PROVE  ModesInv'
<1>. SUFFICES ASSUME phase' \in {"traverse", "done", "stranded"}, Straight',
                     NEW x \in ImagePaths, x[1] # <<>>
              PROVE  \/ Pending(x[1])' \/ Blamed(x[1])'
                     \/ Open(x[1], stack)' \/ Settled(x[1], x[2])'
  <2>1. ImagePaths' = ImagePaths
    BY LostGrows, PathsStay
  <2>. QED  BY <2>1 DEF ModesInv
<1>1. Straight /\ ~strayed' /\ UNCHANGED <<image, privileged>>
  BY LostGrows
<1>2. CASE MakeOutput
  <2>1. call' # <<>> /\ ImagePath' = <<>>
    BY <1>2 DEF MakeOutput, WalkInv, PhaseInv, ImagePath
  <2>2. Under(x[1], <<>>)
    <3>1. Len(x[1]) \in Nat
      BY PathWalks, LenProperties DEF WalkInv, Shape
    <3>. QED  BY <3>1 DEF Under
  <2>. QED  BY <1>1, <2>1, <2>2, PendingNext
<1>3. CASE MakeOutputFails
  BY <1>3 DEF MakeOutputFails
<1>4. CASE UNCHANGED vars \/ Finish \/ FinishFails
  <2>1. Pending(x[1]) \/ Blamed(x[1]) \/ Open(x[1], stack) \/ Settled(x[1], x[2])
    BY <1>1, <1>4 DEF ModesInv, vars, Finish, FinishFails, Returned
  <2>2. UNCHANGED <<image, stack, call, fs, reported, pointed>>
    BY <1>4 DEF vars, Finish, FinishFails, given, tally, astray
  <2>3. /\ Pending(x[1])' <=> Pending(x[1])
        /\ Open(x[1], stack)' <=> Open(x[1], stack)
    BY <2>2 DEF Pending, Called, Under, ImagePath, NamesOf, Waits, LoopWaits, Table,
                Open
  <2>4. Same(fs', fs, Output \o x[1])
    BY <2>2 DEF Same
  <2>. QED  BY <1>1, <2>1, <2>2, <2>3, <2>4, BlameStays, SettledStays
<1>. QED  BY <1>1, <1>2, <1>3, <1>4, ModesReturn, ModesEnter, ModesFile, ModesLink,
             ModesLoop DEF Next

(***************************************************************************)
(* When unfs ends, no file or link took the way back of a directory and no  *)
(* link was taken for what had to be extracted, everything extracted       *)
(* without an error below the root has the permission bits of its node,    *)
(* but for links, what a later link of whatever length leads to, and what  *)
(* was there before and is somebody else's; as root it has its owner too.  *)
(***************************************************************************)
THEOREM ExtractedModes == Spec => []ModesSet
<1>1. Init => CoreInv /\ ModesInv
  <2>1. Init => ModesInv
    BY DEF Init, ModesInv
  <2>. QED  BY <2>1, InitCore
<1>2. CoreInv /\ ModesInv /\ [Next]_vars => (CoreInv /\ ModesInv)'
  BY NextCore, NextModes DEF CoreInv
<1>3. CoreInv /\ ModesInv => ModesSet
  <2>. SUFFICES ASSUME WalkInv, FsInv, ModesInv, Traversed, Straight,
                       NEW x \in ImagePaths, x[1] # <<>>,
                       Prefixes(x[1]) \cap reported = {}
                PROVE  /\ \/ fs[Output \o x[1]].type = "symbolic_link"
                          \/ Output \o x[1] \in pointed
                          \/ ~privileged /\ fs[Output \o x[1]].owner # User
                          \/ fs[Output \o x[1]].mode = image[x[2]].mode
                       /\ privileged => fs[Output \o x[1]].owner = image[x[2]].owner
    BY DEF ModesSet, CoreInv
  <2>1. stack = <<>> /\ call = <<>> /\ Len(stack) = 0
    BY DEF WalkInv, PhaseInv, Traversed
  <2>2. x[1] \in Seq(Names) /\ Len(x[1]) \in Nat
    BY PathWalks, LenProperties DEF WalkInv, Shape
  <2>3. ~Pending(x[1]) /\ ~Open(x[1], stack)
    BY <2>1, <2>2 DEF Pending, Called, Waits, Open
  <2>4. ~Blamed(x[1])
    BY <2>2, PrefixUnder DEF Blamed, FsInv
  <2>5. Settled(x[1], x[2])
    BY <2>3, <2>4 DEF ModesInv, Traversed
  <2>. QED  BY <2>5 DEF Settled
<1>. QED  BY <1>1, <1>2, <1>3, PTL DEF Spec

(***************************************************************************)
(* Where links are                                                         *)
(***************************************************************************)
\* Leaving a loop sets the mode of the directory that is left, and at the end
\* that of the one above the output.
LEMMA LeftPath ==
    ASSUME WalkInv, Straight, stack # <<>>
    PROVE  PathOf(ParentOf(cwd), Top.name) \in {cwd, ParentOf(cwd)}
<1>1. PICK n : n = Len(stack) /\ n \in Nat \ {0}
  BY TopFacts
<1>2. CASE n = 1
  BY <1>1, <1>2, LeftFacts DEF PathOf
<1>3. CASE n # 1
  <2>1. n > 1
    BY <1>1, <1>3
  <2>2. /\ Top.name \in Names /\ NamesOf(Front(stack)) \in Seq(Names)
        /\ NamesOf(stack) = Append(NamesOf(Front(stack)), Top.name)
    BY <1>1, <2>1, LeftFacts
  <2>3. Top.name \in Parts /\ NamesOf(Front(stack)) \in Seq(Parts)
    BY <2>2, SeqMonotonic DEF Parts
  <2>4. Output \o NamesOf(Front(stack)) \in Seq(Parts)
    BY <2>3, OutputFacts, ConcatProperties
  <2>5. cwd = Append(Output \o NamesOf(Front(stack)), Top.name)
    <3>1. cwd = Output \o Append(NamesOf(Front(stack)), Top.name)
      BY <2>2 DEF WalkInv, CwdInv, Straight
    <3>. QED  BY <2>3, <3>1, OutputFacts, ConcatAppend
  <2>6. ParentOf(cwd) = Output \o NamesOf(Front(stack))
    BY <2>3, <2>4, <2>5, ParentOfAppend
  <2>. QED  BY <2>2, <2>5, <2>6, UnfsAssumption DEF PathOf
<1>. QED  BY <1>2, <1>3

\* Where a call begins there is no link yet, if none was left.
LEMMA CalledNoLink ==
    ASSUME WalkInv, LinkInv, Straight, Linkless, call # <<>>
    PROVE  ~IsLink(fs, Path)
<1>1. /\ ImagePath \in Seq(Names) /\ Path = Output \o ImagePath
      /\ Len(ImagePath) \in Nat
  BY CallPath
<1>2. Pending(ImagePath)
  BY <1>1 DEF Pending, Called, Under
<1>3. ASSUME IsLink(fs, Path)
      PROVE  FALSE
  <2>1. PICK p \in Seq(Names) : Path = Output \o p /\ ~Pending(p)
    BY <1>3 DEF LinkInv
  <2>2. p = ImagePath
    BY <1>1, <2>1, OutputInjective
  <2>. QED  BY <1>2, <2>1, <2>2
<1>. QED  BY <1>3

LEMMA InitLinks ==
    Init => LinkInv /\ StrayInv
<1>1. ASSUME Init, Linkless, NEW path, IsLink(fs, path)
      PROVE  FALSE
  <2>1. path \in DOMAIN fs /\ fs[path].type = "symbolic_link"
    BY <1>1 DEF IsLink
  <2>2. NewDirectory(Permissions, User).type # "symbolic_link"
    BY DEF NewDirectory
  <2>. QED  BY <1>1, <2>1, <2>2, InitFacts DEF Linkless, IsLink
<1>. QED  BY <1>1 DEF LinkInv, StrayInv, Init

\* Links are made by symlink only, at the end of the call for them.
LEMMA NextLinks ==
    ASSUME CoreInv, LinkInv, [Next]_vars
    PROVE  LinkInv'
<1>1. WalkInv /\ WayInv /\ Tree(fs)
  BY DEF CoreInv, FsInv, Tree
<1>. SUFFICES ASSUME Straight', Linkless', NEW path, IsLink(fs', path)
              PROVE  /\ phase' # "main"
                     /\ \E p \in Seq(Names) : path = Output \o p /\ ~Pending(p)'
  BY DEF LinkInv, Output, IsLink
<1>2. Straight /\ ~strayed /\ ~strayed' /\ image' = image /\ Linkless
  BY <1>1, LostGrows DEF Linkless, IsLink
<1>3. ASSUME IsLink(fs, path)
      PROVE  /\ phase # "main"
             /\ \E p \in Seq(Names) : path = Output \o p /\ ~Pending(p)
  BY <1>2, <1>3 DEF LinkInv
<1>4. ASSUME IsLink(fs, path), phase' # "main",
             \A p \in Seq(Names) : Pending(p)' => Pending(p)
      PROVE  /\ phase' # "main"
             /\ \E p \in Seq(Names) : path = Output \o p /\ ~Pending(p)'
  BY <1>3, <1>4
<1>5. CASE MakeOutput \/ MakeOutputFails
  <2>1. phase = "main"
    BY <1>5 DEF MakeOutput, MakeOutputFails
  <2>. QED  BY <1>1, <1>3, <1>5, <2>1, MainEffects
<1>6. CASE UNCHANGED vars \/ Finish \/ FinishFails
  <2>1. UNCHANGED <<fs, stack, call>> /\ (phase' = phase \/ phase' # "main")
    BY <1>6 DEF vars, Finish, FinishFails
  <2>2. \A p \in Seq(Names) : Pending(p)' <=> Pending(p)
    BY <1>2, <2>1 DEF Pending, Called, Under, ImagePath, NamesOf, Waits, LoopWaits, Table
  <2>. QED  BY <1>3, <1>4, <2>1, <2>2
<1>7. CASE EnterDirectory
  <2>1. /\ IsLink(fs, path) /\ phase' = phase /\ call # <<>> /\ call' = <<>>
        /\ stack' = Append(stack, [node |-> call[1], name |-> call[2], e |-> 1])
    BY <1>1, <1>7, EnterEffects
  <2>2. ASSUME NEW p \in Seq(Names), Pending(p)'
        PROVE  Pending(p)
    <3>1. Waits(p, stack')
      BY <1>2, <2>1, <2>2, PendingNext
    <3>2. Waits(p, stack) \/ Under(p, ImagePath)
      BY <1>1, <2>1, <3>1, EnterWaits
    <3>. QED  BY <2>1, <3>2 DEF Pending, Called
  <2>. QED  BY <1>3, <1>4, <2>1, <2>2
<1>8. CASE \/ RefusedDirectory \/ DirectoryFails \/ RefusedFile \/ FileFails
           \/ RefusedLink \/ LinkFails
  <2>1. /\ IsLink(fs, path) /\ phase' = phase /\ call # <<>> /\ call' = <<>>
        /\ stack' = stack
    BY <1>1, <1>8, ReturnEffects
  <2>2. \A p \in Seq(Names) : Pending(p)' => Pending(p)
    BY <1>1, <1>2, <2>1, EndedPending
  <2>. QED  BY <1>3, <1>4, <2>1, <2>2
<1>9. CASE ExtractFile
  <2>1. call # <<>> /\ call' = <<>> /\ stack' = stack /\ phase' = phase
    BY <1>9 DEF ExtractFile, Calling
  <2>2. path # Path /\ IsLink(fs, path)
    BY <1>1, <1>2, <1>9, ExtractFileEffects DEF IsLink, Same
  <2>3. \A p \in Seq(Names) : Pending(p)' => Pending(p)
    BY <1>1, <1>2, <2>1, EndedPending
  <2>. QED  BY <1>3, <1>4, <2>1, <2>2, <2>3
<1>10. CASE ExtractLink
  <2>1. call # <<>> /\ call' = <<>> /\ stack' = stack /\ phase' = phase
    BY <1>10 DEF ExtractLink, Calling
  <2>2. phase' # "main"
    BY <1>1, <2>1, CallFacts
  <2>3. \A p \in Seq(Names) : Pending(p)' => Pending(p)
    BY <1>1, <1>2, <2>1, EndedPending
  <2>4. CASE path = Path
    <3>1. ImagePath \in Seq(Names) /\ Path = Output \o ImagePath
      BY <1>1, <1>2, <2>1, CallPath
    <3>2. PICK p : p = ImagePath /\ p \in Seq(Names) /\ path = Output \o p
      BY <2>4, <3>1
    <3>3. ~Pending(p)'
      BY <1>1, <1>2, <2>1, <3>2, EndedPending
    <3>. QED  BY <2>2, <3>2, <3>3
  <2>5. CASE path # Path
    <3>1. IsLink(fs, path)
      BY <1>1, <1>10, <2>5, ExtractLinkEffects DEF IsLink, Akin
    <3>. QED  BY <1>4, <2>2, <2>3, <3>1
  <2>. QED  BY <2>4, <2>5
<1>11. CASE NextEntry \/ SkipEntry
  <2>1. fs' = fs /\ phase' = phase
    BY <1>11 DEF NextEntry, SkipEntry
  <2>2. \A p \in Seq(Names) : Pending(p)' => Pending(p)
    BY <1>1, <1>11, NextEntryPending, SkipEntryPending
  <2>. QED  BY <1>3, <1>4, <2>1, <2>2
<1>12. CASE LeaveDirectory
  <2>1. IsLink(fs, path)
    BY <1>1, <1>12, LeaveTree DEF IsLink, Akin
  <2>2. phase' = phase
    BY <1>12 DEF LeaveDirectory
  <2>3. \A p \in Seq(Names) : Pending(p)' => Pending(p)
    BY <1>1, <1>12, LeavePending
  <2>. QED  BY <1>3, <1>4, <2>1, <2>2, <2>3
<1>13. CASE LeaveFails
  BY <1>1, <1>2, <1>13, NeverStuck
<1>. QED  BY <1>5, <1>6, <1>7, <1>8, <1>9, <1>10, <1>11, <1>12, <1>13 DEF Next

\* A link is taken for something else only if it was left, or in a directory
\* that is the wrong one.
LEMMA NextStray ==
    ASSUME CoreInv, LinkInv, StrayInv, [Next]_vars
    PROVE  StrayInv'
<1>1. WalkInv /\ WayInv /\ Tree(fs)
  BY DEF CoreInv, FsInv, Tree
<1>2. lost \in Nat /\ lost' \in Nat
  <2>1. WalkInv'
    BY NextCore DEF CoreInv
  <2>. QED  BY <1>1, <2>1, OutputFacts DEF WalkInv, Shape
<1>. SUFFICES ASSUME strayed', lost' = 0, Linkless'
              PROVE  FALSE
  BY <1>2 DEF StrayInv
<1>3. lost = 0 /\ Linkless
  BY <1>1, LostGrows DEF Linkless, IsLink
<1>4. ~strayed /\ Straight
  BY <1>3 DEF StrayInv, Straight
<1>5. ASSUME call # <<>>
      PROVE  ~IsLink(fs, Path) /\ ~IsLink(Unlinked, Path)
  <2>1. ~IsLink(fs, Path)
    BY <1>1, <1>3, <1>4, <1>5, CalledNoLink
  <2>. QED  BY <1>1, <2>1, UnlinkedFacts DEF IsLink
<1>6. CASE EnterDirectory
  BY <1>4, <1>5, <1>6 DEF EnterDirectory, Calling, Trust
<1>7. CASE DirectoryFails
  BY <1>4, <1>5, <1>7 DEF DirectoryFails, Calling, Trust
<1>8. CASE ExtractFile
  BY <1>4, <1>5, <1>8 DEF ExtractFile, Calling, Trust
<1>9. CASE FileFails
  <2>1. lost' # lost + 1
    BY <1>3
  <2>2. strayed' = strayed
    BY <1>9, <2>1 DEF FileFails
  <2>. QED  BY <1>4, <2>2
<1>10. CASE LeaveDirectory
  <2>1. /\ stack # <<>> /\ cwd' = ParentOf(cwd)
        /\ strayed' = (strayed \/ IsLink(fs, PathOf(cwd', Top.name)))
    BY <1>10 DEF LeaveDirectory, InLoop, Trust
  <2>2. PathOf(ParentOf(cwd), Top.name) \in {cwd, ParentOf(cwd)}
    BY <1>1, <1>4, <2>1, LeftPath
  <2>3. Searchable(fs, cwd) /\ Searchable(fs, ParentOf(cwd))
    BY <1>1, <1>4, <2>1, WayFacts
  <2>4. ~IsLink(fs, PathOf(cwd', Top.name))
    BY <2>1, <2>2, <2>3 DEF IsLink, Searchable
  <2>. QED  BY <1>4, <2>1, <2>4
<1>11. CASE \/ UNCHANGED vars \/ MakeOutput \/ MakeOutputFails \/ Finish \/ FinishFails
            \/ NextEntry \/ SkipEntry \/ LeaveFails \/ RefusedDirectory
            \/ RefusedFile \/ ExtractLink \/ RefusedLink \/ LinkFails
  <2>1. strayed' = strayed
    BY <1>11 DEF vars, MakeOutput, MakeOutputFails, Finish, FinishFails, NextEntry,
                 SkipEntry, LeaveFails, RefusedDirectory, RefusedFile, ExtractLink,
                 RefusedLink, LinkFails, tally, astray
  <2>. QED  BY <1>4, <2>1
<1>. QED  BY <1>6, <1>7, <1>8, <1>9, <1>10, <1>11 DEF Next

(***************************************************************************)
(* Without a file or a link whose reading fails, the working directory is  *)
(* that of the innermost loop; with them, it is as many directories above. *)
(* Until that happens no link of the image is taken for a directory or a   *)
(* file: only one that stood there before unfs ran can be.                 *)
(***************************************************************************)
THEOREM WorkingDirectory == Spec => []CwdFollowsLoops
<1>1. Init => CoreInv /\ LinkInv /\ StrayInv
  BY InitCore, InitLinks
<1>2. CoreInv /\ LinkInv /\ StrayInv /\ [Next]_vars
         => (CoreInv /\ LinkInv /\ StrayInv)'
  BY NextCore, NextLinks, NextStray
<1>3. CoreInv /\ StrayInv => CwdFollowsLoops
  BY DEF CoreInv, WalkInv, CwdInv, StrayInv, Linkless, CwdFollowsLoops
<1>. QED  BY <1>1, <1>2, <1>3, PTL DEF Spec

=============================================================================
