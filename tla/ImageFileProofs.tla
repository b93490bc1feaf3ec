---------------------------- MODULE ImageFileProofs ----------------------------
(***************************************************************************)
(* Theorems about modules DeviceRead and ImageFile, for blocks, pages and  *)
(* ints of any size, any images, and any number of failures.               *)
(***************************************************************************)
EXTENDS ImageFile, SequenceTheorems, TLAPS

(***************************************************************************)
(* Where the bytes of a range are                                          *)
(***************************************************************************)
LEMMA Division ==
    ASSUME NEW a \in Int, NEW unit \in Nat \ {0}
    PROVE  /\ a \div unit \in Int /\ a % unit \in 0..(unit - 1)
           /\ a = (a \div unit) * unit + (a % unit)
  OBVIOUS

LEMMA Shift ==
    ASSUME NEW a \in Int, NEW b \in Int, NEW c \in Int, NEW d \in Int,
           NEW e \in Int, a + b = c + d
    PROVE  a + (b + e) = c + (d + e)
  OBVIOUS

\* What is given a number of units has room for what it is to hold.
LEMMA UpHolds ==
    ASSUME NEW n \in Nat, NEW unit \in Nat \ {0}, NEW p \in Nat, p * unit < n
    PROVE  p < Up(n, unit)
  BY DEF Up

LEMMA StartFacts ==
    ASSUME NEW offset \in Nat
    PROVE  /\ StartIndex(offset) \in 0..(DevBlock - 1)
           /\ StartBlock(offset) \in Int
           /\ AsInt(offset) = StartBlock(offset) * DevBlock + StartIndex(offset)
           /\ offset < IntEnd => AsInt(offset) = offset
           /\ offset < 2 * IntEnd /\ AsInt(offset) >= 0
                 => offset < IntEnd /\ AsInt(offset) = offset
<1>1. DevBlock \in Nat \ {0} /\ IntEnd \in Nat \ {0}
  BY DeviceReadAssumption
<1>2. AsInt(offset) \in Int
  <2>1. (offset + IntEnd) % (2 * IntEnd) \in Int
    BY <1>1, Division
  <2>. QED  BY <1>1, <2>1 DEF AsInt
<1>3. offset < IntEnd => AsInt(offset) = offset
  <2>1. offset < IntEnd => (offset + IntEnd) % (2 * IntEnd) = offset + IntEnd
    BY <1>1
  <2>. QED  BY <1>1, <2>1 DEF AsInt
<1>4. offset >= IntEnd /\ offset < 2 * IntEnd => AsInt(offset) < 0
  <2>1. offset >= IntEnd /\ offset < 2 * IntEnd =>
            (offset + IntEnd) % (2 * IntEnd) = offset - IntEnd
    BY <1>1
  <2>. QED  BY <1>1, <2>1 DEF AsInt
<1>5. /\ StartIndex(offset) \in 0..(DevBlock - 1)
      /\ StartBlock(offset) \in Int
      /\ AsInt(offset) = StartBlock(offset) * DevBlock + StartIndex(offset)
  BY <1>1, <1>2, Division DEF StartIndex, StartBlock
<1>. QED  BY <1>1, <1>2, <1>3, <1>4, <1>5

LEMMA Slice ==
    ASSUME NEW S, NEW s, NEW m \in Nat, NEW n \in Nat,
           \A i \in (m + 1)..(m + n) : s[i] \in S
    PROVE  SubSeq(s, m + 1, m + n) = [k \in 1..n |-> s[m + k]]
<1>. DEFINE t == SubSeq(s, m + 1, m + n)
<1>1. /\ t \in Seq(S)
      /\ Len(t) = IF m + 1 =< m + n THEN m + n - (m + 1) + 1 ELSE 0
      /\ \A i \in 1..(m + n - (m + 1) + 1) : t[i] = s[m + 1 + i - 1]
  BY SubSeqProperties
<1>2. m + n - (m + 1) + 1 = n
  OBVIOUS
<1>3. Len(t) = n
  BY <1>1, <1>2
<1>4. \A k \in 1..n : t[k] = s[m + k]
  <2>1. \A k \in 1..n : m + 1 + k - 1 = m + k
    OBVIOUS
  <2>. QED  BY <1>1, <1>2, <2>1
<1>5. t = [k \in 1..n |-> t[k]]
  BY <1>1, <1>3
<1>. QED  BY <1>4, <1>5

-----------------------------------------------------------------------------
(***************************************************************************)
(* smashfs_read                                                            *)
(***************************************************************************)
CallPcs == {"idle", "data", "heads", "getblk", "wait", "copy", "return"}

CallType ==
    /\ call \in [pc : CallPcs, offset : Nat, length : Nat, b : Nat, i : Nat,
                 left : Nat, in : Nat, index : Nat, page : Nat, pageoff : Nat,
                 buffer : {call.buffer}, rc : Int]
    /\ call.buffer = [k \in 1..call.length |-> call.buffer[k]]
    /\ refs \in Int /\ failures \in Nat
    /\ file \in Seq(Byte)

\* The bytes that are in the buffer.
Moved == call.page * Page + call.pageoff

\* Of a device of some size: a block is on it; the first blocks of a range are;
\* and some block of a range is not.
IsOn(size, block) == block \in 0..(size \div DevBlock - 1)
There(size, offset, n) ==
    \A j \in 0..(n - 1) : IsOn(size, StartBlock(offset) + j)
Missing(size, offset, length) ==
    \E j \in Nat : /\ j * DevBlock - StartIndex(offset) < length
                   /\ ~IsOn(size, StartBlock(offset) + j)

\* The heads that were got, the references to them, and which are up to date.
HeadsInv ==
    /\ call.pc \in {"idle", "data", "heads"} => call.b = 0
    /\ call.b > 0 =>
          (call.b - 1) * DevBlock - StartIndex(call.offset) < call.length
    /\ call.pc \in {"wait", "copy"} => ~MoreBlocks /\ call.i =< call.b
    /\ call.pc \in {"getblk", "wait"} => refs = call.b
    /\ call.pc = "copy" => refs = call.b - call.i
    /\ call.pc \in {"idle", "data", "heads", "return"} => refs = 0
    /\ call.pc = "wait" => There(Len(file), call.offset, call.i)
    /\ call.pc = "copy" => There(Len(file), call.offset, call.b)

\* The place of the copying: in the buffer, and in the block.
PlaceInv ==
    /\ call.pc # "copy" => call.in = 0
    /\ call.pc \notin {"copy", "return"} => call.page = 0 /\ call.pageoff = 0
    /\ call.pageoff =< Page
    /\ call.pc = "copy" =>
          /\ Moved + call.in + call.left = call.length
          /\ call.in + call.left > 0 =>
                /\ call.i < call.b
                /\ call.i * DevBlock + call.index
                      = StartIndex(call.offset) + Moved
                /\ call.index + call.in =< DevBlock
                /\ call.left > 0 => call.index + call.in = DevBlock
          /\ \A k \in 1..Moved :
                call.buffer[k] = file[AsInt(call.offset) + k]

\* What it returns.
ReturnInv ==
    call.pc = "return" =>
        /\ call.rc # call.length =>
              failures > 0 \/ Missing(Len(file), call.offset, call.length)
        /\ call.rc = call.length /\ 0 < call.length =>
              /\ AsInt(call.offset) >= 0
              /\ AsInt(call.offset) + call.length =< Len(file)
              /\ \A k \in 1..call.length :
                    call.buffer[k] = file[AsInt(call.offset) + k]

CallInv == CallType /\ HeadsInv /\ PlaceInv /\ ReturnInv

\* A call that begins.
LEMMA CallBegins ==
    ASSUME NEW offset \in Nat, NEW length \in Nat, Call(offset, length),
           refs = 0, UNCHANGED <<file, refs>>, failures' \in Nat,
           file \in Seq(Byte)
    PROVE  /\ CallInv'
           /\ call'.pc = "data" /\ call'.offset = offset /\ call'.length = length
<1>1. call' = [pc |-> "data", offset |-> offset, length |-> length, b |-> 0,
               i |-> 0, left |-> 0, in |-> 0, index |-> 0, page |-> 0,
               pageoff |-> 0, buffer |-> [k \in 1..length |-> Nothing],
               rc |-> 0]
  BY DEF Call, NoCall
<1>2. CallType'
  BY <1>1 DEF CallType, CallPcs
<1>3. HeadsInv'
  BY <1>1 DEF HeadsInv
<1>4. PlaceInv'
  BY <1>1, DeviceReadAssumption DEF PlaceInv
<1>5. ReturnInv'
  BY <1>1 DEF ReturnInv
<1>. QED  BY <1>1, <1>2, <1>3, <1>4, <1>5 DEF CallInv

\* And one that is over.
LEMMA CallEnds ==
    ASSUME call' = NoCall, refs = 0, UNCHANGED <<file, refs>>,
           failures' \in Nat, file \in Seq(Byte)
    PROVE  CallInv' /\ call'.pc = "idle"
<1>1. call' = [pc |-> "idle", offset |-> 0, length |-> 0, b |-> 0,
               i |-> 0, left |-> 0, in |-> 0, index |-> 0, page |-> 0,
               pageoff |-> 0, buffer |-> <<>>, rc |-> 0]
  BY DEF NoCall
<1>2. CallType'
  BY <1>1 DEF CallType, CallPcs
<1>3. HeadsInv'
  BY <1>1 DEF HeadsInv
<1>4. PlaceInv'
  BY <1>1, DeviceReadAssumption DEF PlaceInv
<1>5. ReturnInv'
  BY <1>1 DEF ReturnInv
<1>. QED  BY <1>1, <1>2, <1>3, <1>4, <1>5 DEF CallInv

\* What a step of the call leaves as it is.
SameCall ==
    /\ file' = file
    /\ call.pc # "idle" /\ call'.pc # "idle"
    /\ call'.offset = call.offset /\ call'.length = call.length

LEMMA Fields ==
    ASSUME CallType
    PROVE  /\ call.pc \in CallPcs
           /\ {call.offset, call.length, call.b, call.i, call.left, call.in,
               call.index, call.page, call.pageoff} \subseteq Nat
           /\ refs \in Int /\ failures \in Nat
           /\ {DevBlock, Page, IntEnd} \subseteq Nat \ {0}
  BY DeviceReadAssumption DEF CallType

LEMMA ErrorReturns ==
    ASSUME CallInv, NEW rc \in {EIO, ENOMEM}, ReturnError(rc),
           call.pc \in {"data", "heads", "getblk", "wait"},
           file' = file, refs' = 0, failures' \in Nat,
           failures' > 0 \/ Missing(Len(file), call.offset, call.length)
    PROVE  CallInv' /\ SameCall
<1>1. CallType /\ rc \in Int /\ rc < 0
  BY DEF CallInv, EIO, ENOMEM
<1>2. /\ call'.pc = "return" /\ call'.rc = rc /\ call'.offset = call.offset
      /\ call'.length = call.length /\ call'.b = call.b
      /\ call'.in = call.in /\ call'.pageoff = call.pageoff
      /\ call'.buffer = call.buffer
  BY <1>1 DEF ReturnError, CallType
<1>3. CallType'
  <2>1. call' = [call EXCEPT !.pc = "return", !.rc = rc]
    BY DEF ReturnError
  <2>2. call' \in [pc : CallPcs, offset : Nat, length : Nat, b : Nat, i : Nat,
                   left : Nat, in : Nat, index : Nat, page : Nat,
                   pageoff : Nat, buffer : {call'.buffer}, rc : Int]
    BY <1>1, <1>2, <2>1 DEF CallType, CallPcs
  <2>3. call'.buffer = [k \in 1..call'.length |-> call'.buffer[k]]
    BY <1>1, <1>2 DEF CallType
  <2>. QED  BY <1>1, <2>2, <2>3 DEF CallType
<1>4. HeadsInv'
  BY <1>2 DEF CallInv, HeadsInv
<1>5. PlaceInv'
  BY <1>2 DEF CallInv, PlaceInv
<1>6. ReturnInv'
  <2>1. call'.rc # call'.length
    BY <1>1, <1>2, Fields
  <2>2. Missing(Len(file), call.offset, call.length)' =
            Missing(Len(file), call.offset, call.length)
    BY <1>2
  <2>. QED  BY <1>2, <2>1, <2>2 DEF ReturnInv
<1>. QED  BY <1>2, <1>3, <1>4, <1>5, <1>6 DEF CallInv, SameCall

LEMMA AllocateStep ==
    ASSUME CallInv, AllocatePages \/ AllocateHeads
    PROVE  CallInv' /\ SameCall /\ failures' >= failures
<1>1. /\ CallType /\ file' = file /\ refs' = refs /\ refs = 0
      /\ call.pc \in {"data", "heads"}
  BY DEF CallInv, HeadsInv, AllocatePages, AllocateHeads, CallIs
<1>2. PICK pc \in {"heads", "getblk"} :
         \/ call' = [call EXCEPT !.pc = pc] /\ failures' = failures
         \/ Fail /\ ReturnError(ENOMEM)
  BY DEF AllocatePages, AllocateHeads
<1>3. CASE call' = [call EXCEPT !.pc = pc] /\ failures' = failures
  <2>1. /\ call'.pc = pc /\ call'.offset = call.offset
        /\ call'.length = call.length /\ call'.b = call.b
        /\ call'.in = call.in /\ call'.page = call.page
        /\ call'.pageoff = call.pageoff /\ call'.buffer = call.buffer
    BY <1>1, <1>3 DEF CallType
  <2>2. CallType'
    BY <1>1, <1>3, <2>1 DEF CallType, CallPcs
  <2>3. HeadsInv'
    BY <1>1, <2>1 DEF CallInv, HeadsInv
  <2>4. PlaceInv'
    BY <1>1, <2>1 DEF CallInv, PlaceInv
  <2>5. ReturnInv'
    BY <2>1 DEF ReturnInv
  <2>6. failures' >= failures
    BY <1>1, <1>3, Fields
  <2>. QED  BY <1>1, <2>1, <2>2, <2>3, <2>4, <2>5, <2>6 DEF CallInv, SameCall
<1>4. CASE Fail /\ ReturnError(ENOMEM)
  <2>1. failures \in Nat
    BY <1>1, Fields
  <2>2. failures' \in Nat /\ failures' > 0 /\ failures' >= failures
    BY <1>4, <2>1 DEF Fail
  <2>3. CallInv' /\ SameCall
    BY <1>1, <1>4, <2>2, ErrorReturns
  <2>. QED  BY <2>2, <2>3
<1>. QED  BY <1>2, <1>3, <1>4

LEMMA GetBlockStep ==
    ASSUME CallInv, GetBlock
    PROVE  CallInv' /\ SameCall
<1>1. /\ CallType /\ file' = file /\ refs' = refs + 1 /\ failures' = failures
      /\ call.pc = "getblk" /\ MoreBlocks
      /\ call' = [call EXCEPT !.b = @ + 1]
  BY DEF CallInv, GetBlock, CallIs
<1>2. /\ call'.pc = call.pc /\ call'.offset = call.offset
      /\ call'.length = call.length /\ call'.b = call.b + 1
      /\ call'.in = call.in /\ call'.page = call.page
      /\ call'.pageoff = call.pageoff /\ call'.buffer = call.buffer
  BY <1>1 DEF CallType
<1>3. CallType'
  <2>1. call.b + 1 \in Nat /\ refs + 1 \in Int
    BY <1>1, Fields
  <2>. QED  BY <1>1, <1>2, <2>1 DEF CallType
<1>4. HeadsInv'
  <2>1. call'.b - 1 = call.b
    BY <1>1, <1>2, Fields
  <2>2. call.b * DevBlock - StartIndex(call.offset) < call.length
    BY <1>1 DEF MoreBlocks
  <2>. QED  BY <1>1, <1>2, <2>1, <2>2 DEF CallInv, HeadsInv
<1>5. PlaceInv'
  BY <1>1, <1>2 DEF CallInv, PlaceInv
<1>6. ReturnInv'
  BY <1>1, <1>2 DEF ReturnInv
<1>. QED  BY <1>1, <1>2, <1>3, <1>4, <1>5, <1>6 DEF CallInv, SameCall

LEMMA GetBlockFailsStep ==
    ASSUME CallInv, GetBlockFails
    PROVE  CallInv' /\ SameCall /\ failures' >= failures
<1>1. /\ CallType /\ file' = file /\ refs' = refs - call.b
      /\ call.pc = "getblk" /\ MoreBlocks /\ ReturnError(EIO)
      /\ \/ Fail
         \/ ~OnDevice(StartBlock(call.offset) + call.b) /\ failures' = failures
  BY DEF CallInv, GetBlockFails, CallIs
<1>2. /\ failures \in Nat /\ call.b \in Nat /\ refs = call.b
  BY <1>1, Fields DEF CallInv, HeadsInv
<1>3. refs' = 0
  BY <1>1, <1>2
<1>4. CASE Fail
  <2>1. failures' \in Nat /\ failures' > 0 /\ failures' >= failures
    BY <1>2, <1>4 DEF Fail
  <2>. QED  BY <1>1, <1>3, <2>1, ErrorReturns
<1>5. CASE ~OnDevice(StartBlock(call.offset) + call.b) /\ failures' = failures
  <2>1. Missing(Len(file), call.offset, call.length)
    BY <1>1, <1>2, <1>5 DEF Missing, MoreBlocks, OnDevice, IsOn
  <2>2. failures' \in Nat /\ failures' >= failures
    BY <1>2, <1>5
  <2>. QED  BY <1>1, <1>3, <2>1, <2>2, ErrorReturns
<1>. QED  BY <1>1, <1>4, <1>5

LEMMA ReadBlocksStep ==
    ASSUME CallInv, ReadBlocks
    PROVE  CallInv' /\ SameCall
<1>1. /\ CallType /\ file' = file /\ refs' = refs /\ failures' = failures
      /\ call.pc = "getblk" /\ ~MoreBlocks
      /\ call' = [call EXCEPT !.pc = "wait", !.i = 0]
  BY DEF CallInv, ReadBlocks, CallIs
<1>2. /\ call'.pc = "wait" /\ call'.offset = call.offset
      /\ call'.length = call.length /\ call'.b = call.b /\ call'.i = 0
      /\ call'.in = call.in /\ call'.page = call.page
      /\ call'.pageoff = call.pageoff /\ call'.buffer = call.buffer
  BY <1>1 DEF CallType
<1>3. CallType'
  BY <1>1, <1>2 DEF CallType, CallPcs
<1>4. HeadsInv'
  <2>1. call.b \in Nat
    BY <1>1, Fields
  <2>2. ~MoreBlocks'
    BY <1>1, <1>2 DEF MoreBlocks
  <2>3. There(Len(file), call.offset, 0)
    BY DEF There
  <2>4. There(Len(file), call.offset, call.i)'
    BY <1>1, <1>2, <2>3
  <2>. QED  BY <1>1, <1>2, <2>1, <2>2, <2>4 DEF CallInv, HeadsInv
<1>5. PlaceInv'
  BY <1>1, <1>2 DEF CallInv, PlaceInv
<1>6. ReturnInv'
  BY <1>1, <1>2 DEF ReturnInv
<1>. QED  BY <1>1, <1>2, <1>3, <1>4, <1>5, <1>6 DEF CallInv, SameCall

LEMMA OneMore ==
    ASSUME NEW size, NEW offset, NEW n \in Nat, There(size, offset, n),
           IsOn(size, StartBlock(offset) + n)
    PROVE  There(size, offset, n + 1)
<1>1. \A j \in 0..(n + 1 - 1) : j = n \/ j \in 0..(n - 1)
  OBVIOUS
<1>2. \A j \in 0..(n + 1 - 1) : IsOn(size, StartBlock(offset) + j)
  BY <1>1 DEF There
<1>. QED  BY <1>2 DEF There

LEMMA WaitBlockStep ==
    ASSUME CallInv, WaitBlock
    PROVE  CallInv' /\ SameCall
<1>1. /\ CallType /\ file' = file /\ refs' = refs /\ failures' = failures
      /\ call.pc = "wait" /\ call.i < call.b
      /\ OnDevice(StartBlock(call.offset) + call.i)
      /\ call' = [call EXCEPT !.i = @ + 1]
  BY DEF CallInv, WaitBlock, CallIs
<1>2. /\ call'.pc = "wait" /\ call'.offset = call.offset
      /\ call'.length = call.length /\ call'.b = call.b /\ call'.i = call.i + 1
      /\ call'.in = call.in /\ call'.page = call.page
      /\ call'.pageoff = call.pageoff /\ call'.buffer = call.buffer
  BY <1>1 DEF CallType
<1>3. CallType'
  <2>1. call.i + 1 \in Nat
    BY <1>1, Fields
  <2>. QED  BY <1>1, <1>2, <2>1 DEF CallType
<1>4. HeadsInv'
  <2>1. call.b \in Nat /\ call.i \in Nat
    BY <1>1, Fields
  <2>2. ~MoreBlocks'
    BY <1>1, <1>2 DEF CallInv, HeadsInv, MoreBlocks
  <2>3. There(Len(file), call.offset, call.i + 1)
    <3>1. There(Len(file), call.offset, call.i)
      BY <1>1 DEF CallInv, HeadsInv
    <3>2. IsOn(Len(file), StartBlock(call.offset) + call.i)
      BY <1>1 DEF OnDevice, IsOn
    <3>. QED  BY <2>1, <3>1, <3>2, OneMore
  <2>4. There(Len(file), call.offset, call.i)'
    BY <1>1, <1>2, <2>3
  <2>5. call'.i =< call'.b
    BY <1>1, <1>2, <2>1
  <2>. QED  BY <1>1, <1>2, <2>2, <2>4, <2>5 DEF CallInv, HeadsInv
<1>5. PlaceInv'
  BY <1>1, <1>2 DEF CallInv, PlaceInv
<1>6. ReturnInv'
  BY <1>1, <1>2 DEF ReturnInv
<1>. QED  BY <1>1, <1>2, <1>3, <1>4, <1>5, <1>6 DEF CallInv, SameCall

LEMMA WaitBlockFailsStep ==
    ASSUME CallInv, WaitBlockFails
    PROVE  CallInv' /\ SameCall /\ failures' >= failures
<1>1. /\ CallType /\ file' = file /\ refs' = refs - call.b
      /\ call.pc = "wait" /\ call.i < call.b /\ ReturnError(EIO)
      /\ \/ Fail
         \/ ~OnDevice(StartBlock(call.offset) + call.i) /\ failures' = failures
  BY DEF CallInv, WaitBlockFails, CallIs
<1>2. /\ failures \in Nat /\ {call.b, call.i, call.offset, call.length} \subseteq Nat
      /\ refs = call.b /\ DevBlock \in Nat \ {0}
  BY <1>1, Fields DEF CallInv, HeadsInv
<1>3. refs' = 0
  BY <1>1, <1>2
<1>4. CASE Fail
  <2>1. failures' \in Nat /\ failures' > 0 /\ failures' >= failures
    BY <1>2, <1>4 DEF Fail
  <2>. QED  BY <1>1, <1>3, <2>1, ErrorReturns
<1>5. CASE ~OnDevice(StartBlock(call.offset) + call.i) /\ failures' = failures
  <2>1. call.i * DevBlock - StartIndex(call.offset) < call.length
    <3>1. (call.b - 1) * DevBlock - StartIndex(call.offset) < call.length
      BY <1>1, <1>2 DEF CallInv, HeadsInv
    <3>2. call.i * DevBlock =< (call.b - 1) * DevBlock
      BY <1>1, <1>2
    <3>3. StartIndex(call.offset) \in Int
      BY <1>2, StartFacts
    <3>. QED  BY <1>2, <3>1, <3>2, <3>3
  <2>2. Missing(Len(file), call.offset, call.length)
    BY <1>2, <1>5, <2>1 DEF Missing, OnDevice, IsOn
  <2>3. failures' \in Nat /\ failures' >= failures
    BY <1>2, <1>5
  <2>. QED  BY <1>1, <1>3, <2>2, <2>3, ErrorReturns
<1>. QED  BY <1>1, <1>4, <1>5

LEMMA InnerFacts ==
    ASSUME NEW left \in Nat, NEW index \in 0..(DevBlock - 1)
    PROVE  /\ Inner(left, index) \in 0..left
           /\ index + Inner(left, index) =< DevBlock
           /\ Inner(left, index) < left => index + Inner(left, index) = DevBlock
           /\ left > 0 => Inner(left, index) > 0
  BY DeviceReadAssumption DEF Inner, Smaller

LEMMA StartCopyingStep ==
    ASSUME CallInv, StartCopying
    PROVE  CallInv' /\ SameCall
<1>1. PICK index, in, left :
        /\ index = StartIndex(call.offset)
        /\ in = Inner(call.length, index)
        /\ left = call.length - in
        /\ call' = [call EXCEPT !.pc = "copy", !.i = 0, !.index = index,
                                !.in = in, !.left = left]
  BY DEF StartCopying
<1>2. /\ CallType /\ file' = file /\ refs' = refs /\ failures' = failures
      /\ call.pc = "wait" /\ call.i = call.b
  BY DEF CallInv, StartCopying, CallIs
<1>3. /\ {call.b, call.i, call.offset, call.length} \subseteq Nat
      /\ DevBlock \in Nat \ {0} /\ Page \in Nat \ {0}
  BY <1>2, Fields
<1>4. /\ index \in 0..(DevBlock - 1) /\ in \in 0..call.length
      /\ index + in =< DevBlock
      /\ in < call.length => index + in = DevBlock
  BY <1>1, <1>3, StartFacts, InnerFacts
<1>5. left \in Nat /\ in \in Nat /\ index \in Nat
  BY <1>1, <1>3, <1>4
<1>6. /\ call'.pc = "copy" /\ call'.offset = call.offset
      /\ call'.length = call.length /\ call'.b = call.b /\ call'.i = 0
      /\ call'.in = in /\ call'.left = left
      /\ call'.index = index /\ call'.page = call.page
      /\ call'.pageoff = call.pageoff /\ call'.buffer = call.buffer
  BY <1>1, <1>2 DEF CallType
<1>7. CallType'
  <2>1. call' \in [pc : CallPcs, offset : Nat, length : Nat, b : Nat, i : Nat,
                   left : Nat, in : Nat, index : Nat, page : Nat,
                   pageoff : Nat, buffer : {call'.buffer}, rc : Int]
    <3>1. call' = [pc |-> "copy", offset |-> call.offset,
                   length |-> call.length, b |-> call.b, i |-> 0,
                   left |-> left, in |-> in, index |-> index,
                   page |-> call.page, pageoff |-> call.pageoff,
                   buffer |-> call.buffer, rc |-> call.rc]
      BY <1>1, <1>2 DEF CallType
    <3>. QED  BY <1>2, <1>3, <1>5, <3>1 DEF CallType, CallPcs
  <2>2. call'.buffer = [k \in 1..call'.length |-> call'.buffer[k]]
    BY <1>2, <1>6 DEF CallType
  <2>. QED  BY <1>2, <2>1, <2>2 DEF CallType
<1>8. HeadsInv'
  <2>1. ~MoreBlocks'
    BY <1>2, <1>6 DEF CallInv, HeadsInv, MoreBlocks
  <2>2. There(Len(file), call.offset, call.b)'
    BY <1>2, <1>6 DEF CallInv, HeadsInv
  <2>3. refs' = call'.b - call'.i /\ call'.i =< call'.b
    BY <1>2, <1>3, <1>6 DEF CallInv, HeadsInv
  <2>. QED  BY <1>2, <1>6, <2>1, <2>2, <2>3 DEF CallInv, HeadsInv
<1>9. PlaceInv'
  <2>1. call.page = 0 /\ call.pageoff = 0
    BY <1>2 DEF CallInv, PlaceInv
  <2>2. Moved' = 0
    BY <1>3, <1>6, <2>1 DEF Moved
  <2>3. call.length > 0 => 0 < call.b
    <3>1. ~(call.b * DevBlock - index < call.length)
      BY <1>1, <1>2 DEF CallInv, HeadsInv, MoreBlocks
    <3>. QED  BY <1>3, <1>4, <3>1
  <2>4. in + left = call.length
    BY <1>1, <1>3, <1>5
  <2>5. /\ Moved' + call'.in + call'.left = call'.length
        /\ call'.in + call'.left > 0 =>
              /\ call'.i < call'.b
              /\ call'.i * DevBlock + call'.index
                    = StartIndex(call'.offset) + Moved'
              /\ call'.index + call'.in =< DevBlock
              /\ call'.left > 0 => call'.index + call'.in = DevBlock
    <3>1. 0 + in + left = call.length
      BY <1>3, <1>5, <2>4
    <3>2. in + left > 0 => 0 < call.b
      BY <2>3, <2>4
    <3>3. 0 * DevBlock + index = index + 0
      BY <1>3, <1>5
    <3>4. left > 0 => index + in = DevBlock
      BY <1>3, <1>4, <1>5, <2>4
    <3>. QED  BY <1>1, <1>4, <1>6, <2>2, <3>1, <3>2, <3>3, <3>4
  <2>6. \A k \in 1..Moved' : FALSE
    BY <2>2
  <2>. QED  BY <1>3, <1>6, <2>1, <2>5, <2>6 DEF PlaceInv
<1>10. ReturnInv'
  BY <1>6 DEF ReturnInv
<1>. QED  BY <1>2, <1>6, <1>7, <1>8, <1>9, <1>10 DEF CallInv, SameCall

\* The next place in the buffer.
LEMMA NextPageFacts ==
    ASSUME CallType, call.pageoff =< Page
    PROVE  /\ NextPage.page \in Nat
           /\ NextPage.off \in 0..(Page - 1)
           /\ NextPage.page * Page + NextPage.off = Moved
<1>1. call.page \in Nat /\ call.pageoff \in Nat /\ Page \in Nat \ {0}
  BY Fields
<1>2. CASE call.pageoff = Page
  <2>1. NextPage.page = call.page + 1 /\ NextPage.off = 0
    BY <1>2 DEF NextPage
  <2>. QED  BY <1>1, <1>2, <2>1 DEF Moved
<1>3. CASE call.pageoff # Page
  <2>1. NextPage.page = call.page /\ NextPage.off = call.pageoff
    BY <1>3 DEF NextPage
  <2>. QED  BY <1>1, <1>3, <2>1 DEF Moved
<1>. QED  BY <1>2, <1>3

LEMMA CopyChunkStep ==
    ASSUME CallInv, CopyChunk
    PROVE  CallInv' /\ SameCall
<1>1. /\ CallType /\ file' = file /\ refs' = refs /\ failures' = failures
      /\ call.pc = "copy" /\ call.in > 0
  BY DEF CallInv, CopyChunk, CallIs
<1>2. /\ {call.offset, call.length, call.b, call.i, call.left, call.in,
          call.index, call.page, call.pageoff} \subseteq Nat
      /\ DevBlock \in Nat \ {0} /\ Page \in Nat \ {0}
  BY <1>1, Fields
<1>. DEFINE page == NextPage.page
            off == NextPage.off
            avail == Smaller(call.in, Page - off)
            first == page * Page + off
            from == (StartBlock(call.offset) + call.i) * DevBlock + call.index
            buffer == [k \in DOMAIN call.buffer
                                \cup (first + 1)..(first + avail) |->
                           IF k \in (first + 1)..(first + avail)
                           THEN file[from + k - first] ELSE call.buffer[k]]
<1>3. /\ page = NextPage.page /\ off = NextPage.off
      /\ avail = Smaller(call.in, Page - off)
      /\ first = page * Page + off
      /\ from = (StartBlock(call.offset) + call.i) * DevBlock + call.index
      /\ buffer = [k \in DOMAIN call.buffer \cup (first + 1)..(first + avail) |->
                      IF k \in (first + 1)..(first + avail)
                      THEN file[from + k - first] ELSE call.buffer[k]]
  OBVIOUS
<1>3a. call' = [call EXCEPT
              !.page = page, !.pageoff = off + avail,
              !.in = call.in - avail, !.index = call.index + avail,
              !.buffer = buffer]
  BY Zenon DEF CopyChunk
<1>. HIDE DEF page, off, avail, first, from, buffer
<1>4. call.pageoff =< Page
  BY DEF CallInv, PlaceInv
<1>5. page \in Nat /\ off \in 0..(Page - 1) /\ first = Moved
  BY <1>1, <1>3, <1>4, NextPageFacts
<1>6. Moved \in Nat
  BY <1>2 DEF Moved
<1>7. avail \in 1..call.in /\ off + avail =< Page
  BY <1>1, <1>2, <1>3, <1>5 DEF Smaller
<1>8. /\ Moved + call.in + call.left = call.length
      /\ call.i < call.b
      /\ call.i * DevBlock + call.index = StartIndex(call.offset) + Moved
      /\ call.index + call.in =< DevBlock
      /\ call.left > 0 => call.index + call.in = DevBlock
  <2>1. call.in + call.left > 0
    BY <1>1, <1>2
  <2>. QED  BY <1>1, <2>1 DEF CallInv, PlaceInv
<1>9. PICK in, index, pageoff :
        /\ in = call.in - avail /\ in \in Nat
        /\ index = call.index + avail /\ index \in Nat
        /\ pageoff = off + avail /\ pageoff \in Nat /\ pageoff =< Page
  BY <1>2, <1>5, <1>7
<1>10. call' = [call EXCEPT !.page = page, !.pageoff = pageoff, !.in = in,
                            !.index = index, !.buffer = buffer]
  BY <1>9, <1>3a
<1>11. /\ call'.pc = "copy" /\ call'.offset = call.offset
       /\ call'.length = call.length /\ call'.b = call.b
       /\ call'.i = call.i /\ call'.in = in /\ call'.left = call.left
       /\ call'.index = index /\ call'.page = page
       /\ call'.pageoff = pageoff /\ call'.buffer = buffer
  BY <1>1, <1>10 DEF CallType
<1>12. DOMAIN buffer = 1..call.length
  <2>1. DOMAIN call.buffer = 1..call.length
    BY <1>1 DEF CallType
  <2>2. first + avail =< call.length
    BY <1>2, <1>5, <1>6, <1>7, <1>8
  <2>3. (first + 1)..(first + avail) \subseteq 1..call.length
    BY <1>2, <1>5, <1>6, <1>7, <2>2
  <2>4. DOMAIN buffer = DOMAIN call.buffer \cup (first + 1)..(first + avail)
    BY <1>3
  <2>. QED  BY <2>1, <2>3, <2>4
<1>13. CallType'
  <2>1. call' \in [pc : CallPcs, offset : Nat, length : Nat, b : Nat, i : Nat,
                   left : Nat, in : Nat, index : Nat, page : Nat,
                   pageoff : Nat, buffer : {call'.buffer}, rc : Int]
    <3>1. call' = [pc |-> call.pc, offset |-> call.offset,
                   length |-> call.length, b |-> call.b, i |-> call.i,
                   left |-> call.left, in |-> in, index |-> index,
                   page |-> page, pageoff |-> pageoff, buffer |-> buffer,
                   rc |-> call.rc]
      BY <1>1, <1>10 DEF CallType
    <3>. QED  BY <1>1, <1>2, <1>5, <1>9, <3>1 DEF CallType, CallPcs
  <2>2. call'.buffer = [k \in 1..call'.length |-> call'.buffer[k]]
    <3>1. buffer = [k \in DOMAIN buffer |-> buffer[k]]
      BY <1>3
    <3>. QED  BY <1>11, <1>12, <3>1
  <2>. QED  BY <1>1, <2>1, <2>2 DEF CallType
<1>14. HeadsInv'
  <2>1. ~MoreBlocks'
    BY <1>1, <1>11 DEF CallInv, HeadsInv, MoreBlocks
  <2>2. There(Len(file), call.offset, call.b)'
    BY <1>1, <1>11 DEF CallInv, HeadsInv
  <2>. QED  BY <1>1, <1>11, <2>1, <2>2 DEF CallInv, HeadsInv
<1>15. Moved' = Moved + avail
  <2>1. page * Page + off = Moved
    BY <1>3, <1>5
  <2>2. Moved' = page * Page + pageoff
    BY <1>11 DEF Moved
  <2>3. page * Page \in Int
    BY <1>2, <1>5
  <2>. QED  BY <1>2, <1>5, <1>7, <1>9, <2>1, <2>2, <2>3
<1>16. \A k \in 1..Moved' : call'.buffer[k] = file'[AsInt(call'.offset) + k]
  <2>. SUFFICES ASSUME NEW k \in 1..(Moved + avail)
                PROVE  buffer[k] = file[AsInt(call.offset) + k]
    BY <1>1, <1>11, <1>15
  <2>1. k \in DOMAIN buffer
    BY <1>2, <1>6, <1>7, <1>8, <1>12
  <2>2. CASE k \in 1..Moved
    <3>1. k \notin (first + 1)..(first + avail)
      BY <1>5, <1>6, <1>7, <2>2
    <3>2. buffer[k] = call.buffer[k]
      BY <1>3, <2>1, <3>1
    <3>. QED  BY <1>1, <2>2, <3>2 DEF CallInv, PlaceInv
  <2>3. CASE k \notin 1..Moved
    <3>1. k \in (first + 1)..(first + avail)
      BY <1>5, <1>6, <1>7, <2>3
    <3>2. buffer[k] = file[from + k - first]
      BY <1>3, <2>1, <3>1
    <3>3. /\ StartIndex(call.offset) \in Int /\ StartBlock(call.offset) \in Int
          /\ AsInt(call.offset)
                = StartBlock(call.offset) * DevBlock + StartIndex(call.offset)
      BY <1>2, StartFacts
    <3>4. (StartBlock(call.offset) + call.i) * DevBlock
             = StartBlock(call.offset) * DevBlock + call.i * DevBlock
      BY <1>2, <3>3
    <3>5. /\ StartBlock(call.offset) * DevBlock \in Int
          /\ call.i * DevBlock \in Int
      BY <1>2, <3>3
    <3>6. from = AsInt(call.offset) + Moved
      BY <1>2, <1>3, <1>6, <1>8, <3>3, <3>4, <3>5
    <3>7. from + k - first = AsInt(call.offset) + k
      BY <1>5, <1>6, <3>3, <3>5, <3>6
    <3>. QED  BY <3>2, <3>7
  <2>. QED  BY <2>2, <2>3
<1>17. PlaceInv'
  <2>1. /\ Moved' + call'.in + call'.left = call'.length
        /\ call'.index + call'.in = call.index + call.in
    BY <1>2, <1>6, <1>7, <1>8, <1>9, <1>11, <1>15
  <2>2. call'.i * DevBlock + call'.index = StartIndex(call'.offset) + Moved'
    <3>1. call.i * DevBlock \in Int /\ StartIndex(call.offset) \in Int
      BY <1>2, StartFacts
    <3>2. call.i * DevBlock + index = StartIndex(call.offset) + (Moved + avail)
      <4>1. /\ {call.index, avail} \subseteq Int /\ Moved \in Int
            /\ index = call.index + avail
        BY <1>2, <1>6, <1>7, <1>9
      <4>. QED  BY <1>8, <3>1, <4>1, Shift
    <3>. QED  BY <1>11, <1>15, <3>2
  <2>. QED  BY <1>8, <1>9, <1>11, <1>16, <2>1, <2>2 DEF PlaceInv
<1>18. ReturnInv'
  BY <1>11 DEF ReturnInv
<1>. QED  BY <1>1, <1>11, <1>13, <1>14, <1>17, <1>18 DEF CallInv, SameCall

LEMMA PutBlockStep ==
    ASSUME CallInv, PutBlock
    PROVE  CallInv' /\ SameCall
<1>1. /\ CallType /\ file' = file /\ refs' = refs - 1 /\ failures' = failures
      /\ call.pc = "copy" /\ call.in = 0 /\ call.i < call.b
  BY DEF CallInv, PutBlock, CallIs
<1>2. /\ {call.offset, call.length, call.b, call.i, call.left, call.in,
          call.index, call.page, call.pageoff} \subseteq Nat
      /\ DevBlock \in Nat \ {0} /\ Page \in Nat \ {0}
  BY <1>1, Fields
<1>3. PICK in, left, i :
        /\ in = Inner(call.left, 0)
        /\ left = call.left - in
        /\ i = call.i + 1
        /\ call' = [call EXCEPT !.i = i, !.index = 0, !.in = in, !.left = left]
  BY <1>1 DEF PutBlock, CallType
<1>4. /\ in \in 0..call.left /\ 0 + in =< DevBlock
      /\ in < call.left => 0 + in = DevBlock
  BY <1>2, <1>3, InnerFacts
<1>5. in \in Nat /\ left \in Nat /\ i \in Nat /\ in + left = call.left
  BY <1>2, <1>3, <1>4
<1>6. /\ call'.pc = "copy" /\ call'.offset = call.offset
      /\ call'.length = call.length /\ call'.b = call.b /\ call'.i = i
      /\ call'.in = in /\ call'.left = left /\ call'.index = 0
      /\ call'.page = call.page /\ call'.pageoff = call.pageoff
      /\ call'.buffer = call.buffer
  BY <1>1, <1>3 DEF CallType
<1>7. CallType'
  <2>1. call' \in [pc : CallPcs, offset : Nat, length : Nat, b : Nat, i : Nat,
                   left : Nat, in : Nat, index : Nat, page : Nat,
                   pageoff : Nat, buffer : {call'.buffer}, rc : Int]
    <3>1. call' = [pc |-> call.pc, offset |-> call.offset,
                   length |-> call.length, b |-> call.b, i |-> i,
                   left |-> left, in |-> in, index |-> 0, page |-> call.page,
                   pageoff |-> call.pageoff, buffer |-> call.buffer,
                   rc |-> call.rc]
      BY <1>1, <1>3 DEF CallType
    <3>. QED  BY <1>1, <1>2, <1>5, <3>1 DEF CallType, CallPcs
  <2>2. call'.buffer = [k \in 1..call'.length |-> call'.buffer[k]]
    BY <1>1, <1>6 DEF CallType
  <2>3. refs - 1 \in Int
    BY <1>1, Fields
  <2>. QED  BY <1>1, <2>1, <2>2, <2>3 DEF CallType
<1>8. ~(call.b * DevBlock - StartIndex(call.offset) < call.length)
  BY <1>1 DEF CallInv, HeadsInv, MoreBlocks
<1>9. HeadsInv'
  <2>1. ~MoreBlocks'
    BY <1>6, <1>8 DEF MoreBlocks
  <2>2. There(Len(file), call.offset, call.b)'
    BY <1>1, <1>6 DEF CallInv, HeadsInv
  <2>3. refs' = call'.b - call'.i
    <3>1. refs = call.b - call.i
      BY <1>1 DEF CallInv, HeadsInv
    <3>. QED  BY <1>1, <1>2, <1>3, <1>6, <3>1
  <2>4. call'.i =< call'.b
    BY <1>1, <1>2, <1>3, <1>6
  <2>. QED  BY <1>1, <1>6, <2>1, <2>2, <2>3, <2>4 DEF CallInv, HeadsInv
<1>10. Moved' = Moved /\ Moved \in Nat
  BY <1>2, <1>6 DEF Moved
<1>11. Moved + call.left = call.length
  BY <1>1, <1>2, <1>10 DEF CallInv, PlaceInv
<1>12. call.left > 0 =>
          /\ i < call.b
          /\ i * DevBlock + 0 = StartIndex(call.offset) + Moved
  <2>. HAVE call.left > 0
  <2>1. /\ call.i * DevBlock + call.index = StartIndex(call.offset) + Moved
        /\ call.index = DevBlock
    <3>1. call.in + call.left > 0
      BY <1>1, <1>2
    <3>2. call.index + call.in = DevBlock
      BY <1>1, <3>1 DEF CallInv, PlaceInv
    <3>. QED  BY <1>1, <1>2, <3>1, <3>2 DEF CallInv, PlaceInv
  <2>2. StartIndex(call.offset) \in Int /\ call.i * DevBlock \in Int
    BY <1>2, StartFacts
  <2>3. i * DevBlock = StartIndex(call.offset) + Moved
    <3>1. i * DevBlock = call.i * DevBlock + DevBlock
      BY <1>2, <1>3
    <3>. QED  BY <1>2, <1>10, <2>1, <2>2, <3>1
  <2>4. i * DevBlock < call.b * DevBlock
    <3>1. call.b * DevBlock \in Int
      BY <1>2
    <3>. QED  BY <1>2, <1>8, <1>10, <1>11, <2>2, <2>3, <3>1
  <2>5. i < call.b
    BY <1>2, <1>5, <2>4
  <2>6. i * DevBlock + 0 = i * DevBlock
    BY <1>2, <1>5
  <2>. QED  BY <2>3, <2>5, <2>6
<1>13. PlaceInv'
  <2>1. Moved' + call'.in + call'.left = call'.length
    BY <1>2, <1>5, <1>6, <1>10, <1>11
  <2>2. call'.in + call'.left > 0 =>
           /\ call'.i < call'.b
           /\ call'.i * DevBlock + call'.index
                 = StartIndex(call'.offset) + Moved'
    BY <1>5, <1>6, <1>10, <1>12
  <2>3. left > 0 => 0 + in = DevBlock
    BY <1>2, <1>4, <1>5
  <2>4. /\ call'.index + call'.in =< DevBlock
        /\ call'.left > 0 => call'.index + call'.in = DevBlock
    BY <1>4, <1>6, <2>3
  <2>5. \A k \in 1..Moved' : call'.buffer[k] = file'[AsInt(call'.offset) + k]
    BY <1>1, <1>6, <1>10 DEF CallInv, PlaceInv
  <2>6. call'.pageoff =< Page
    BY <1>6 DEF CallInv, PlaceInv
  <2>. QED  BY <1>6, <2>1, <2>2, <2>4, <2>5, <2>6 DEF PlaceInv
<1>14. ReturnInv'
  BY <1>6 DEF ReturnInv
<1>. QED  BY <1>1, <1>6, <1>7, <1>9, <1>13, <1>14 DEF CallInv, SameCall

LEMMA ReturnLengthStep ==
    ASSUME CallInv, ReturnLength
    PROVE  CallInv' /\ SameCall
<1>1. /\ CallType /\ file' = file /\ refs' = refs /\ failures' = failures
      /\ call.pc = "copy" /\ call.i = call.b
      /\ call' = [call EXCEPT !.pc = "return", !.rc = call.length]
  BY DEF CallInv, ReturnLength, CallIs
<1>2. /\ {call.offset, call.length, call.b, call.i, call.left, call.in,
          call.index, call.page, call.pageoff} \subseteq Nat
      /\ DevBlock \in Nat \ {0} /\ Page \in Nat \ {0}
  BY <1>1, Fields
<1>3. /\ call'.pc = "return" /\ call'.offset = call.offset
      /\ call'.length = call.length /\ call'.b = call.b
      /\ call'.in = call.in /\ call'.pageoff = call.pageoff
      /\ call'.buffer = call.buffer /\ call'.rc = call.length
  BY <1>1 DEF CallType
<1>4. CallType'
  <2>1. call' \in [pc : CallPcs, offset : Nat, length : Nat, b : Nat, i : Nat,
                   left : Nat, in : Nat, index : Nat, page : Nat,
                   pageoff : Nat, buffer : {call'.buffer}, rc : Int]
    <3>1. call.length \in Int
      BY <1>2
    <3>. QED  BY <1>1, <1>3, <3>1 DEF CallType, CallPcs
  <2>2. call'.buffer = [k \in 1..call'.length |-> call'.buffer[k]]
    BY <1>1, <1>3 DEF CallType
  <2>. QED  BY <1>1, <2>1, <2>2 DEF CallType
<1>5. call.in = 0 /\ call.left = 0 /\ Moved = call.length
  <2>1. ~(call.in + call.left > 0)
    BY <1>1, <1>2 DEF CallInv, PlaceInv
  <2>2. call.in = 0 /\ call.left = 0
    BY <1>2, <2>1
  <2>3. Moved \in Nat
    BY <1>2 DEF Moved
  <2>4. Moved + call.in + call.left = call.length
    BY <1>1 DEF CallInv, PlaceInv
  <2>. QED  BY <2>2, <2>3, <2>4
<1>6. HeadsInv'
  <2>1. refs = 0
    BY <1>1, <1>2 DEF CallInv, HeadsInv
  <2>. QED  BY <1>1, <1>3, <2>1 DEF CallInv, HeadsInv
<1>7. PlaceInv'
  BY <1>3, <1>5 DEF CallInv, PlaceInv
<1>8. 0 < call.length =>
         /\ AsInt(call.offset) >= 0
         /\ AsInt(call.offset) + call.length =< Len(file)
  <2>. HAVE 0 < call.length
  <2>. DEFINE index == StartIndex(call.offset)
              block == StartBlock(call.offset)
              size == Len(file)
              on == size \div DevBlock
  <2>1. /\ index \in 0..(DevBlock - 1) /\ block \in Int
        /\ AsInt(call.offset) = block * DevBlock + index
    BY <1>2, StartFacts
  <2>2. size \in Nat
    BY <1>1 DEF CallType
  <2>3. on \in Int /\ on * DevBlock =< size
    BY <1>2, <2>2
  <2>4. call.b * DevBlock >= index + call.length /\ call.b * DevBlock \in Int
    <3>1. ~(call.b * DevBlock - index < call.length)
      BY <1>1 DEF CallInv, HeadsInv, MoreBlocks
    <3>2. call.b * DevBlock \in Int
      BY <1>2
    <3>. QED  BY <1>2, <2>1, <3>1, <3>2
  <2>5. call.b > 0
    BY <1>2, <2>1, <2>4
  <2>6. block >= 0 /\ block + call.b =< on
    <3>1. There(size, call.offset, call.b)
      BY <1>1 DEF CallInv, HeadsInv
    <3>2. 0 \in 0..(call.b - 1) /\ call.b - 1 \in 0..(call.b - 1)
      BY <1>2, <2>5
    <3>3. IsOn(size, block + 0) /\ IsOn(size, block + (call.b - 1))
      BY <3>1, <3>2 DEF There
    <3>4. block + 0 \in 0..(on - 1) /\ block + (call.b - 1) \in 0..(on - 1)
      BY <3>3 DEF IsOn
    <3>. HIDE DEF on
    <3>. QED  BY <1>2, <2>1, <2>3, <3>4
  <2>. HIDE DEF on, size, index, block
  <2>7. block * DevBlock >= 0 /\ block * DevBlock \in Int
    BY <1>2, <2>1, <2>6
  <2>8. block * DevBlock + call.b * DevBlock =< on * DevBlock
    BY <1>2, <2>1, <2>3, <2>6
  <2>9. on * DevBlock \in Int
    BY <1>2, <2>3
  <2>10. AsInt(call.offset) >= 0
    BY <1>2, <2>1, <2>7
  <2>11. AsInt(call.offset) + call.length =< size
    BY <1>2, <2>1, <2>2, <2>3, <2>4, <2>7, <2>8, <2>9
  <2>. QED  BY <2>10, <2>11 DEF size
<1>9. ReturnInv'
  <2>1. \A k \in 1..call.length :
           call.buffer[k] = file[AsInt(call.offset) + k]
    BY <1>1, <1>5 DEF CallInv, PlaceInv
  <2>. QED  BY <1>1, <1>3, <1>8, <2>1 DEF ReturnInv
<1>. QED  BY <1>1, <1>3, <1>4, <1>6, <1>7, <1>9 DEF CallInv, SameCall

\* Every step of a call keeps its invariant, and the range it is for.
LEMMA ReadStep ==
    ASSUME CallInv, smashfs_read
    PROVE  CallInv' /\ SameCall /\ failures' >= failures
<1>1. failures \in Nat
  BY Fields DEF CallInv
<1>2. CASE AllocatePages \/ AllocateHeads
  BY <1>2, AllocateStep
<1>3. CASE GetBlock
  BY <1>1, <1>3, GetBlockStep DEF GetBlock
<1>4. CASE GetBlockFails
  BY <1>4, GetBlockFailsStep
<1>5. CASE ReadBlocks
  BY <1>1, <1>5, ReadBlocksStep DEF ReadBlocks
<1>6. CASE WaitBlock
  BY <1>1, <1>6, WaitBlockStep DEF WaitBlock
<1>7. CASE WaitBlockFails
  BY <1>7, WaitBlockFailsStep
<1>8. CASE StartCopying
  BY <1>1, <1>8, StartCopyingStep DEF StartCopying
<1>9. CASE CopyChunk
  BY <1>1, <1>9, CopyChunkStep DEF CopyChunk
<1>10. CASE PutBlock
  BY <1>1, <1>10, PutBlockStep DEF PutBlock
<1>11. CASE ReturnLength
  BY <1>1, <1>11, ReturnLengthStep DEF ReturnLength
<1>. QED
  BY <1>2, <1>3, <1>4, <1>5, <1>6, <1>7, <1>8, <1>9, <1>10, <1>11
     DEF smashfs_read

LEMMA CallReadsExactly ==
    ASSUME CallInv
    PROVE  ReadExact
<1>. SUFFICES ASSUME call.pc = "return"
              PROVE  /\ refs = 0
                     /\ call.rc = call.length /\ 0 < call.length
                        /\ call.offset < 2 * IntEnd =>
                           /\ call.offset < IntEnd
                           /\ call.buffer = SubSeq(file, call.offset + 1,
                                                   call.offset + call.length)
  BY DEF ReadExact, CallIs
<1>1. refs = 0
  BY DEF CallInv, HeadsInv
<1>2. CallType /\ call.offset \in Nat /\ call.length \in Nat
      /\ file \in Seq(Byte)
  BY Fields DEF CallInv, CallType
<1>3. ASSUME call.rc = call.length, 0 < call.length, call.offset < 2 * IntEnd
      PROVE  /\ call.offset < IntEnd
             /\ call.buffer = SubSeq(file, call.offset + 1,
                                     call.offset + call.length)
  <2>1. /\ AsInt(call.offset) >= 0
        /\ AsInt(call.offset) + call.length =< Len(file)
        /\ \A k \in 1..call.length :
              call.buffer[k] = file[AsInt(call.offset) + k]
    BY <1>3 DEF CallInv, ReturnInv
  <2>2. call.offset < IntEnd /\ AsInt(call.offset) = call.offset
    BY <1>2, <1>3, <2>1, StartFacts
  <2>3. SubSeq(file, call.offset + 1, call.offset + call.length)
           = [k \in 1..call.length |-> file[call.offset + k]]
    <3>1. \A i \in (call.offset + 1)..(call.offset + call.length) :
             file[i] \in Byte
      <4>1. \A i \in (call.offset + 1)..(call.offset + call.length) :
               i \in 1..Len(file)
        BY <1>2, <2>1, <2>2
      <4>. QED  BY <1>2, <4>1
    <3>2. PICK m \in Nat, n \in Nat : m = call.offset /\ n = call.length
      BY <1>2
    <3>3. \A i \in (m + 1)..(m + n) : file[i] \in Byte
      BY <3>1, <3>2
    <3>4. SubSeq(file, m + 1, m + n) = [k \in 1..n |-> file[m + k]]
      BY <3>3, Slice
    <3>. QED  BY <3>2, <3>4
  <2>4. call.buffer = [k \in 1..call.length |-> call.buffer[k]]
    BY <1>2 DEF CallType
  <2>5. call.buffer = [k \in 1..call.length |-> file[call.offset + k]]
    BY <2>1, <2>2, <2>4
  <2>. QED  BY <2>2, <2>3, <2>5
<1>. QED  BY <1>1, <1>3

LEMMA CallStaysInside ==
    ASSUME CallInv
    PROVE  ReadStaysInside
<1>1. CallType
  BY DEF CallInv
<1>2. /\ {call.offset, call.length, call.b, call.i, call.left, call.in,
          call.index, call.page, call.pageoff} \subseteq Nat
      /\ call.pc \in CallPcs
      /\ DevBlock \in Nat \ {0} /\ Page \in Nat \ {0}
  BY <1>1, Fields
<1>3. call.b =< Heads
  <2>1. Up(call.length, DevBlock) \in Nat
    BY <1>2 DEF Up
  <2>2. CASE call.b < 2
    BY <1>2, <2>1, <2>2 DEF Heads
  <2>3. CASE call.b >= 2
    <3>1. (call.b - 1) * DevBlock - StartIndex(call.offset) < call.length
      BY <1>2, <2>3 DEF CallInv, HeadsInv
    <3>2. StartIndex(call.offset) \in 0..(DevBlock - 1)
      BY <1>2, StartFacts
    <3>3. (call.b - 2) * DevBlock < call.length
      <4>1. (call.b - 1) * DevBlock = (call.b - 2) * DevBlock + DevBlock
        BY <1>2, <2>3
      <4>2. (call.b - 2) * DevBlock \in Int
        BY <1>2, <2>3
      <4>. QED  BY <1>2, <3>1, <3>2, <4>1, <4>2
    <3>4. call.b - 2 \in Nat
      BY <1>2, <2>3
    <3>5. call.b - 2 < Up(call.length, DevBlock)
      BY <1>2, <3>3, <3>4, UpHolds
    <3>. QED  BY <1>2, <2>1, <3>5 DEF Heads
  <2>. QED  BY <1>2, <2>2, <2>3
<1>4. call.in > 0 => NextPage.page < Pages
  <2>. HAVE call.in > 0
  <2>1. call.pc = "copy" /\ call.pageoff =< Page
    BY <1>2 DEF CallInv, PlaceInv
  <2>2. PICK page, off : /\ page = NextPage.page /\ off = NextPage.off
                         /\ page \in Nat /\ off \in 0..(Page - 1)
                         /\ page * Page + off = Moved
    BY <1>1, <2>1, NextPageFacts
  <2>3. Moved + call.in + call.left = call.length
    BY <2>1 DEF CallInv, PlaceInv
  <2>4. page * Page < call.length
    <3>1. page * Page \in Int
      BY <1>2, <2>2
    <3>. QED  BY <1>2, <2>2, <2>3, <3>1
  <2>5. page < Up(call.length, Page)
    BY <1>2, <2>2, <2>4, UpHolds
  <2>. QED  BY <2>2, <2>5 DEF Pages
<1>5. DOMAIN call.buffer = 1..call.length
  BY <1>1 DEF CallType
<1>. QED  BY <1>3, <1>4, <1>5 DEF ReadStaysInside

-----------------------------------------------------------------------------
(***************************************************************************)
(* The layout of an image                                                  *)
(***************************************************************************)
SuperOK(sb) ==
    /\ sb.compression \in Names
    /\ {sb.inodes_csize, sb.blocks_size, sb.length} \subseteq Nat
    /\ sb.inodes_offset = 1
    /\ sb.blocks_offset = 1 + sb.inodes_csize
    /\ sb.entries_offset = 1 + sb.inodes_csize + sb.blocks_size
    /\ sb.entries_size = sb.length
    /\ sb.table \in Seq(Block)
    /\ \A i \in DOMAIN sb.table :
          sb.table[i].offset + sb.table[i].size =< sb.length
    /\ 1 + sb.inodes_csize + sb.blocks_size + sb.length < 2 * IntEnd

ImageSize(sb) == 1 + sb.inodes_csize + sb.blocks_size + sb.length

LEMMA UintIsIt ==
    ASSUME NEW n \in Nat, n < 2 * IntEnd
    PROVE  Uint(n) = n
  BY DeviceReadAssumption DEF Uint

LEMMA SuperBlockOK ==
    ASSUME NEW img, NEW csize \in Nat,
           img.compression \in Names,
           {img.inodes, img.blocks, img.length} \subseteq Nat,
           img.table \in Seq(Block),
           \A i \in DOMAIN img.table :
              img.table[i].offset + img.table[i].size =< img.length,
           csize =< img.inodes,
           1 + img.inodes + img.blocks + img.length < 2 * IntEnd
    PROVE  SuperOK(SuperBlock(img, csize))
<1>. DEFINE sb == SuperBlock(img, csize)
<1>1. /\ IntEnd \in Nat \ {0}
      /\ img.inodes \in Nat /\ img.blocks \in Nat /\ img.length \in Nat
  BY DeviceReadAssumption
<1>2. /\ Uint(1 + csize) = 1 + csize
      /\ Uint(1 + csize + img.blocks) = 1 + csize + img.blocks
      /\ Uint(img.length) = img.length
  <2>1. /\ 1 + csize \in Nat /\ 1 + csize < 2 * IntEnd
        /\ 1 + csize + img.blocks \in Nat
        /\ 1 + csize + img.blocks < 2 * IntEnd
        /\ img.length < 2 * IntEnd
    BY <1>1
  <2>. QED  BY <2>1, UintIsIt
<1>3. /\ sb.compression = img.compression /\ sb.inodes_offset = 1
      /\ sb.inodes_csize = csize /\ sb.blocks_offset = 1 + csize
      /\ sb.blocks_size = img.blocks
      /\ sb.entries_offset = 1 + csize + img.blocks
      /\ sb.entries_size = img.length /\ sb.length = img.length
      /\ sb.table = img.table
  BY <1>2 DEF SuperBlock
<1>. HIDE DEF sb
<1>4. 1 + sb.inodes_csize + sb.blocks_size + sb.length < 2 * IntEnd
  BY <1>1, <1>3
<1>5. SuperOK(sb)
  BY <1>3, <1>4 DEF SuperOK
<1>. QED  BY <1>5 DEF sb

LEMMA NoSuperOK == SuperOK(NoSuper)
<1>. DEFINE img == [compression |-> "none", inodes |-> 0, blocks |-> 0,
                    length |-> 0, table |-> <<>>]
<1>1. /\ img.compression \in Names
      /\ img.inodes = 0 /\ img.blocks = 0 /\ img.length = 0
      /\ img.table = <<>>
  BY DEF Names
<1>2. img.table \in Seq(Block) /\ DOMAIN img.table = {}
  BY <1>1
<1>3. 1 + img.inodes + img.blocks + img.length < 2 * IntEnd
  BY <1>1, DeviceReadAssumption
<1>4. NoSuper = SuperBlock(img, 0)
  BY DEF NoSuper
<1>5. /\ {img.inodes, img.blocks, img.length} \subseteq Nat
      /\ \A i \in DOMAIN img.table :
            img.table[i].offset + img.table[i].size =< img.length
      /\ 0 =< img.inodes
  BY <1>1, <1>2
<1>. HIDE DEF img
<1>. QED  BY <1>1, <1>2, <1>3, <1>4, <1>5, SuperBlockOK

\* Each byte of an image is the one of a part.
LEMMA BytesFacts ==
    ASSUME NEW owner, NEW part \in Parts, NEW size \in Nat
    PROVE  /\ Bytes(owner, part, size)
                 \in Seq([owner : {owner}, part : Parts, at : Nat])
           /\ Len(Bytes(owner, part, size)) = size
           /\ \A k \in 1..size : Bytes(owner, part, size)[k] =
                 [owner |-> owner, part |-> part, at |-> k]
<1>. DEFINE S == [owner : {owner}, part : Parts, at : Nat]
            bytes == Bytes(owner, part, size)
<1>1. bytes = [k \in 1..size |-> [owner |-> owner, part |-> part, at |-> k]]
  BY DEF Bytes
<1>2. \A k \in 1..size : [owner |-> owner, part |-> part, at |-> k] \in S
  OBVIOUS
<1>. HIDE DEF S, bytes
<1>3. bytes \in [1..size -> S]
  BY <1>1, <1>2
<1>4. bytes \in Seq(S)
  BY <1>3, SeqDef
<1>5. Len(bytes) = size
  BY <1>3, <1>4, LenProperties
<1>6. \A k \in 1..size : bytes[k] = [owner |-> owner, part |-> part, at |-> k]
  BY <1>1
<1>. QED  BY <1>4, <1>5, <1>6 DEF S, bytes

\* A sequence made of one of m elements and one of n.
Joined(S, s, m, t, n, all) ==
    /\ all \in Seq(S) /\ Len(all) = m + n
    /\ \A k \in 1..m : all[k] = s[k]
    /\ \A k \in 1..n : all[m + k] = t[k]

LEMMA ConcatJoins ==
    ASSUME NEW S, NEW s \in Seq(S), NEW t \in Seq(S)
    PROVE  Joined(S, s, Len(s), t, Len(t), s \o t)
<1>1. /\ s \o t \in Seq(S)
      /\ Len(s \o t) = Len(s) + Len(t)
      /\ \A i \in 1..(Len(s) + Len(t)) :
            (s \o t)[i] = IF i =< Len(s) THEN s[i] ELSE t[i - Len(s)]
  BY ConcatProperties
<1>2. Len(s) \in Nat /\ Len(t) \in Nat
  BY LenProperties
<1>3. \A k \in 1..Len(s) : (s \o t)[k] = s[k]
  BY <1>1, <1>2
<1>4. \A k \in 1..Len(t) : (s \o t)[Len(s) + k] = t[k]
  <2>1. \A k \in 1..Len(t) : /\ Len(s) + k \in 1..(Len(s) + Len(t))
                             /\ ~(Len(s) + k =< Len(s))
                             /\ Len(s) + k - Len(s) = k
    BY <1>2
  <2>. QED  BY <1>1, <2>1
<1>. QED  BY <1>1, <1>3, <1>4 DEF Joined

LEMMA WholeFacts ==
    ASSUME NEW owner, NEW sb, SuperOK(sb)
    PROVE  /\ Whole(owner, sb)
                 = [k \in 1..ImageSize(sb) |-> Whole(owner, sb)[k]]
           /\ Len(Whole(owner, sb)) = ImageSize(sb)
           /\ Whole(owner, sb)[1] =
                 [owner |-> owner, part |-> "super", at |-> 1]
           /\ \A k \in 1..sb.inodes_csize : Whole(owner, sb)[1 + k] =
                 [owner |-> owner, part |-> "inodes", at |-> k]
           /\ \A k \in 1..sb.blocks_size :
                 Whole(owner, sb)[1 + sb.inodes_csize + k] =
                    [owner |-> owner, part |-> "blocks", at |-> k]
           /\ \A k \in 1..sb.length :
                 Whole(owner, sb)[1 + sb.inodes_csize + sb.blocks_size + k] =
                    [owner |-> owner, part |-> "entries", at |-> k]
<1>1. PICK b \in Nat, c \in Nat, d \in Nat, e \in Nat :
         b = 1 /\ c = sb.inodes_csize /\ d = sb.blocks_size /\ e = sb.length
  BY DEF SuperOK
<1>. DEFINE Kind == [owner : {owner}, part : Parts, at : Nat]
<1>2. {"super", "inodes", "blocks", "entries"} \subseteq Parts
  BY DEF Parts
<1>3. PICK s \in Seq(Kind) :
        /\ s = Bytes(owner, "super", b) /\ Len(s) = b
        /\ \A k \in 1..b : s[k] =
              [owner |-> owner, part |-> "super", at |-> k]
  <2>1. /\ Bytes(owner, "super", b) \in Seq(Kind)
        /\ Len(Bytes(owner, "super", b)) = b
        /\ \A k \in 1..b : Bytes(owner, "super", b)[k] =
              [owner |-> owner, part |-> "super", at |-> k]
    BY <1>2, BytesFacts
  <2>. QED  BY <2>1
<1>4. PICK t \in Seq(Kind) :
        /\ t = Bytes(owner, "inodes", c) /\ Len(t) = c
        /\ \A k \in 1..c : t[k] =
              [owner |-> owner, part |-> "inodes", at |-> k]
  <2>1. /\ Bytes(owner, "inodes", c) \in Seq(Kind)
        /\ Len(Bytes(owner, "inodes", c)) = c
        /\ \A k \in 1..c : Bytes(owner, "inodes", c)[k] =
              [owner |-> owner, part |-> "inodes", at |-> k]
    BY <1>2, BytesFacts
  <2>. QED  BY <2>1
<1>5. PICK v \in Seq(Kind) :
        /\ v = Bytes(owner, "blocks", d) /\ Len(v) = d
        /\ \A k \in 1..d : v[k] =
              [owner |-> owner, part |-> "blocks", at |-> k]
  <2>1. /\ Bytes(owner, "blocks", d) \in Seq(Kind)
        /\ Len(Bytes(owner, "blocks", d)) = d
        /\ \A k \in 1..d : Bytes(owner, "blocks", d)[k] =
              [owner |-> owner, part |-> "blocks", at |-> k]
    BY <1>2, BytesFacts
  <2>. QED  BY <2>1
<1>6. PICK w \in Seq(Kind) :
        /\ w = Bytes(owner, "entries", e) /\ Len(w) = e
        /\ \A k \in 1..e : w[k] =
              [owner |-> owner, part |-> "entries", at |-> k]
  <2>1. /\ Bytes(owner, "entries", e) \in Seq(Kind)
        /\ Len(Bytes(owner, "entries", e)) = e
        /\ \A k \in 1..e : Bytes(owner, "entries", e)[k] =
              [owner |-> owner, part |-> "entries", at |-> k]
    BY <1>2, BytesFacts
  <2>. QED  BY <2>1
<1>. HIDE DEF Kind
<1>7. PICK all : all = Whole(owner, sb)
  OBVIOUS
<1>8. PICK two, three :
        /\ two = s \o t /\ three = two \o v /\ all = three \o w
  BY <1>1, <1>3, <1>4, <1>5, <1>6, <1>7 DEF Whole
<1>9. Joined(Kind, s, b, t, c, two)
  <2>1. Joined(Kind, s, Len(s), t, Len(t), s \o t)
    BY ConcatJoins
  <2>. QED  BY <1>3, <1>4, <1>8, <2>1
<1>10. Joined(Kind, two, b + c, v, d, three)
  <2>1. two \in Seq(Kind) /\ Len(two) = b + c
    BY <1>9 DEF Joined
  <2>2. Joined(Kind, two, Len(two), v, Len(v), two \o v)
    BY <2>1, ConcatJoins
  <2>. QED  BY <1>5, <1>8, <2>1, <2>2
<1>11. Joined(Kind, three, b + c + d, w, e, all)
  <2>1. three \in Seq(Kind) /\ Len(three) = b + c + d
    BY <1>10 DEF Joined
  <2>2. Joined(Kind, three, Len(three), w, Len(w), three \o w)
    BY <2>1, ConcatJoins
  <2>. QED  BY <1>6, <1>8, <2>1, <2>2
<1>12. all[1] = [owner |-> owner, part |-> "super", at |-> 1]
  <2>1. 1 \in 1..b /\ 1 \in 1..(b + c) /\ 1 \in 1..(b + c + d)
    BY <1>1
  <2>2. all[1] = s[1]
    BY <1>9, <1>10, <1>11, <2>1 DEF Joined
  <2>. QED  BY <1>3, <2>1, <2>2
<1>13. ASSUME NEW k \in 1..c
       PROVE  all[b + k] = [owner |-> owner, part |-> "inodes", at |-> k]
  <2>1. b + k \in 1..(b + c) /\ b + k \in 1..(b + c + d)
    OBVIOUS
  <2>2. all[b + k] = t[k]
    BY <1>9, <1>10, <1>11, <2>1 DEF Joined
  <2>. QED  BY <1>4, <2>2
<1>14. ASSUME NEW k \in 1..d
       PROVE  all[b + c + k] = [owner |-> owner, part |-> "blocks", at |-> k]
  <2>1. b + c + k \in 1..(b + c + d)
    OBVIOUS
  <2>2. all[b + c + k] = v[k]
    BY <1>10, <1>11, <2>1 DEF Joined
  <2>. QED  BY <1>5, <2>2
<1>15. ASSUME NEW k \in 1..e
       PROVE  all[b + c + d + k] =
                 [owner |-> owner, part |-> "entries", at |-> k]
  <2>1. all[b + c + d + k] = w[k]
    BY <1>11 DEF Joined
  <2>. QED  BY <1>6, <2>1
<1>16. all \in Seq(Kind) /\ Len(all) = ImageSize(sb)
  <2>1. all \in Seq(Kind) /\ Len(all) = b + c + d + e
    BY <1>11 DEF Joined
  <2>. QED  BY <1>1, <2>1 DEF ImageSize
<1>17. all = [k \in 1..ImageSize(sb) |-> all[k]]
  BY <1>16, LenProperties
<1>. QED  BY <1>1, <1>7, <1>12, <1>13, <1>14, <1>15, <1>16, <1>17

\* The part of an image that a byte lies in.
LEMMA PartPlaces ==
    ASSUME NEW sb, SuperOK(sb)
    PROVE  /\ Before(sb, "super") = 0 /\ Before(sb, "inodes") = 1
           /\ Before(sb, "blocks") = 1 + sb.inodes_csize
           /\ Before(sb, "entries") = 1 + sb.inodes_csize + sb.blocks_size
           /\ Before(sb, "padding") = ImageSize(sb)
           /\ PartSize(sb, "super") = 1
           /\ PartSize(sb, "inodes") = sb.inodes_csize
           /\ PartSize(sb, "blocks") = sb.blocks_size
           /\ PartSize(sb, "entries") = sb.length
           /\ {sb.inodes_csize, sb.blocks_size, sb.length} \subseteq Nat
  BY DEF Before, PartSize, ImageSize, SuperOK

Contents == Parts \ {"padding"}

LEMMA PartFacts ==
    ASSUME NEW owner, NEW sb, SuperOK(sb), NEW part \in Contents
    PROVE  /\ Before(sb, part) \in Nat /\ PartSize(sb, part) \in Nat
           /\ Before(sb, NextPart[part]) = Before(sb, part) + PartSize(sb, part)
           /\ Before(sb, part) + PartSize(sb, part) =< ImageSize(sb)
           /\ NextPart[part] \in Parts /\ NextPart[part] # "super"
           /\ \A k \in 1..PartSize(sb, part) :
                 Whole(owner, sb)[Before(sb, part) + k] =
                    [owner |-> owner, part |-> part, at |-> k]
<1>. DEFINE W == Whole(owner, sb)
<1>1. /\ Before(sb, "super") = 0 /\ Before(sb, "inodes") = 1
      /\ Before(sb, "blocks") = 1 + sb.inodes_csize
      /\ Before(sb, "entries") = 1 + sb.inodes_csize + sb.blocks_size
      /\ Before(sb, "padding") = ImageSize(sb)
      /\ PartSize(sb, "super") = 1
      /\ PartSize(sb, "inodes") = sb.inodes_csize
      /\ PartSize(sb, "blocks") = sb.blocks_size
      /\ PartSize(sb, "entries") = sb.length
      /\ {sb.inodes_csize, sb.blocks_size, sb.length} \subseteq Nat
  BY PartPlaces
<1>2. /\ W[1] = [owner |-> owner, part |-> "super", at |-> 1]
      /\ \A k \in 1..sb.inodes_csize : W[1 + k] =
            [owner |-> owner, part |-> "inodes", at |-> k]
      /\ \A k \in 1..sb.blocks_size : W[1 + sb.inodes_csize + k] =
            [owner |-> owner, part |-> "blocks", at |-> k]
      /\ \A k \in 1..sb.length : W[1 + sb.inodes_csize + sb.blocks_size + k] =
            [owner |-> owner, part |-> "entries", at |-> k]
  BY WholeFacts
<1>. HIDE DEF W
<1>3. part \in {"super", "inodes", "blocks", "entries"}
  BY DEF Contents, Parts
<1>4. /\ NextPart["super"] = "inodes" /\ NextPart["inodes"] = "blocks"
      /\ NextPart["blocks"] = "entries" /\ NextPart["entries"] = "padding"
  BY DEF NextPart
<1>5. CASE part = "super"
  <2>1. \A k \in 1..1 : W[0 + k] = [owner |-> owner, part |-> "super", at |-> k]
    BY <1>2
  <2>. QED  BY <1>1, <1>4, <1>5, <2>1 DEF W, ImageSize, Parts
<1>6. CASE part = "inodes"
  BY <1>1, <1>2, <1>4, <1>6 DEF W, ImageSize, Parts
<1>7. CASE part = "blocks"
  BY <1>1, <1>2, <1>4, <1>7 DEF W, ImageSize, Parts
<1>8. CASE part = "entries"
  BY <1>1, <1>2, <1>4, <1>8 DEF W, ImageSize, Parts
<1>. QED  BY <1>3, <1>5, <1>6, <1>7, <1>8

\* What the compressors may do to the buffer of the inode table.
LEMMA CompressFacts ==
    ASSUME NEW name \in Names, NEW size \in Nat,
           NEW r \in compressor_compress(name, size, 2 * size)
    PROVE  r.written > 2 * size => name = "lzo" /\ size < LzoExtra
<1>. USE CompressorsAssumption
<1>1. CASE name = "none"
  <2>1. r \in none_compress(size, 2 * size)
    BY <1>1 DEF compressor_compress
  <2>2. r.written = 0 \/ r.written = size
    BY <2>1 DEF none_compress, Refused, Result
  <2>. QED  BY <2>2
<1>2. CASE name = "gzip"
  <2>1. r \in gzip_compress(size, 2 * size)
    BY <1>2 DEF compressor_compress
  <2>2. r.written = 0 \/ r.written \in 1..(2 * size)
    BY <2>1 DEF gzip_compress, Refused, Result, Sized
  <2>. QED  BY <2>2
<1>3. CASE name = "lzma"
  <2>1. r \in lzma_compress(size, 2 * size)
    BY <1>3 DEF compressor_compress
  <2>2. r.written = 0 \/ r.written \in 1..(2 * size)
    BY <2>1 DEF lzma_compress, Refused, Result, Sized
  <2>. QED  BY <2>2
<1>4. CASE name = "lzo"
  <2>1. r \in lzo_compress(size, 2 * size)
    BY <1>4 DEF compressor_compress
  <2>2. r.written = 0 \/ r.written \in 1..(size + LzoExtra)
    BY <2>1 DEF lzo_compress, Refused, Result
  <2>. QED  BY <1>4, <2>2
<1>5. CASE name = "xz"
  <2>1. r \in xz_compress(size, 2 * size)
    BY <1>5 DEF compressor_compress
  <2>2. r.written = 0 \/ r.written \in 1..(2 * size)
    BY <2>1 DEF xz_compress, Refused, Result, Sized
  <2>. QED  BY <2>2
<1>. QED  BY <1>1, <1>2, <1>3, <1>4, <1>5 DEF Names

-----------------------------------------------------------------------------
(***************************************************************************)
(* The file                                                                *)
(***************************************************************************)
DriverPcs == {"none", "super", "inodes", "blocks", "mounted", "block",
              "refused", "crashed"}
Outcomes == {"right", "wrong", "fails", "crashes"}

StateInv ==
    /\ image \in NewImages /\ device \in BOOLEAN
    /\ supers = [new |-> supers.new, old |-> supers.old]
    /\ SuperOK(supers.new) /\ SuperOK(supers.old)
    /\ mkfs \in {"compress", "open"} \cup Parts \cup Ended
    /\ driver \in [pc : DriverPcs, owner : {"none", "new", "old"},
                   tables : {"right", "wrong"}, block : Nat,
                   answer : {"none"} \cup Outcomes]
    /\ MkfsIs("overrun") => image.compression = "lzo" /\ image.inodes < LzoExtra

\* The first bytes are the new image's; and a whole number of the device's
\* blocks reaches behind a place.
StartsWith(bytes, sb, n) ==
    n =< Len(bytes) /\ \A k \in 1..n : bytes[k] = Whole("new", sb)[k]
PaddedTo(bytes, n) ==
    \E p \in Nat : p % DevBlock = 0 /\ n =< p /\ p =< Len(bytes)

FileInv ==
    /\ mkfs \in {"compress", "open", "overrun"} =>
          Honest(file, "old", supers.old)
    /\ mkfs \in Parts =>
          /\ StartsWith(file, supers.new, Before(supers.new, mkfs))
          /\ ~device => Len(file) = Before(supers.new, mkfs)
    /\ mkfs = "done" =>
          /\ StartsWith(file, supers.new, ImageSize(supers.new))
          /\ ~image.no_padding => PaddedTo(file, ImageSize(supers.new))
    /\ mkfs \in {"failed", "killed"} /\ ~device =>
          Honest(file, "old", supers.old) \/ Honest(file, "new", supers.new)

LEMMA SizeIsNat ==
    ASSUME NEW sb, SuperOK(sb)
    PROVE  ImageSize(sb) \in Nat /\ ImageSize(sb) >= 1
<1>1. /\ sb.inodes_csize \in Nat /\ sb.blocks_size \in Nat
      /\ sb.length \in Nat
  BY DEF SuperOK
<1>. QED  BY <1>1 DEF ImageSize

LEMMA StartHonest ==
    ASSUME NEW sb, SuperOK(sb), NEW bytes \in Seq(Byte), NEW n \in Nat,
           StartsWith(bytes, sb, n), n = Len(bytes) \/ n = ImageSize(sb)
    PROVE  Honest(bytes, "new", sb)
<1>. DEFINE W == Whole("new", sb)
            size == ImageSize(sb)
<1>1. /\ W = [k \in 1..size |-> W[k]]
      /\ W[1] = [owner |-> "new", part |-> "super", at |-> 1]
  BY WholeFacts
<1>2. size \in Nat /\ size >= 1
  BY SizeIsNat
<1>3. n =< Len(bytes) /\ \A k \in 1..n : bytes[k] = W[k]
  BY DEF StartsWith
<1>4. n = Len(bytes) \/ n = size
  OBVIOUS
<1>. HIDE DEF W, size
<1>5. DOMAIN W = 1..size /\ DOMAIN bytes = 1..Len(bytes) /\ Len(bytes) \in Nat
  BY <1>1, LenProperties
<1>6. ASSUME bytes # <<>>
      PROVE  bytes[1].owner = "new"
  <2>1. Len(bytes) >= 1
    <3>1. Len(bytes) \in Nat \ {0}
      BY <1>6, EmptySeq, Zenon
    <3>. QED  BY <3>1
  <2>2. 1 \in 1..n
    BY <1>2, <1>4, <2>1
  <2>3. bytes[1] = [owner |-> "new", part |-> "super", at |-> 1]
    BY <1>1, <1>3, <2>2
  <2>. QED  BY <2>3
<1>7. ASSUME NEW k \in DOMAIN bytes \cap DOMAIN W
      PROVE  bytes[k] = W[k]
  <2>1. k \in 1..n
    BY <1>4, <1>5
  <2>. QED  BY <1>3, <2>1
<1>8. Honest(bytes, "new", sb)
  BY <1>6, <1>7 DEF Honest, W
<1>. QED  BY <1>8

LEMMA Larger ==
    ASSUME NEW n \in Nat, NEW m \in Nat, NEW size,
           size = IF n > m THEN n ELSE m
    PROVE  /\ size \in Nat /\ size >= n /\ (n >= m => size = n)
           /\ size = n \/ size = m
  OBVIOUS

LEMMA WrittenFacts ==
    ASSUME file \in Seq(Byte), NEW at \in Nat, at =< Len(file), NEW n \in Nat,
           NEW bytes, \A k \in 1..n : bytes[k] \in Byte
    PROVE  /\ Written(at, bytes, n) \in Seq(Byte)
           /\ Len(Written(at, bytes, n)) >= at + n
           /\ at + n >= Len(file) => Len(Written(at, bytes, n)) = at + n
           /\ \A k \in 1..at : Written(at, bytes, n)[k] = file[k]
           /\ \A k \in 1..n : Written(at, bytes, n)[at + k] = bytes[k]
<1>. DEFINE new == Written(at, bytes, n)
<1>1. PICK m \in Nat : /\ m = Len(file) /\ at =< m
                      /\ file \in [1..m -> Byte]
  BY LenProperties
<1>2. PICK size : size = IF at + n > m THEN at + n ELSE m
  OBVIOUS
<1>3. /\ size \in Nat /\ size >= at + n /\ (at + n >= m => size = at + n)
      /\ size = at + n \/ size = m
  BY <1>2, Larger
<1>4. new = [k \in 1..size |->
                IF k \in (at + 1)..(at + n) THEN bytes[k - at] ELSE file[k]]
  BY <1>1, <1>2 DEF Written
<1>. HIDE DEF new
<1>6. ASSUME NEW k \in 1..size
      PROVE  new[k] \in Byte
  <2>1. CASE k \in (at + 1)..(at + n)
    <3>1. k - at \in 1..n
      BY <2>1
    <3>2. new[k] = bytes[k - at]
      BY <1>4, <2>1
    <3>. QED  BY <3>1, <3>2
  <2>2. CASE k \notin (at + 1)..(at + n)
    <3>1. k \in 1..m
      <4>1. CASE size = at + n
        BY <1>1, <2>2, <4>1
      <4>2. CASE size = m
        BY <4>2
      <4>. QED  BY <1>3, <4>1, <4>2
    <3>2. new[k] = file[k]
      BY <1>4, <2>2
    <3>. QED  BY <1>1, <3>1, <3>2
  <2>. QED  BY <2>1, <2>2
<1>7. new \in [1..size -> Byte]
  <2>1. new = [k \in 1..size |-> new[k]]
    BY <1>4
  <2>. QED  BY <1>6, <2>1
<1>8. new \in Seq(Byte) /\ Len(new) = size
  <2>1. new \in Seq(Byte)
    BY <1>3, <1>7, SeqDef
  <2>. QED  BY <1>3, <1>7, <2>1, LenProperties
<1>9. ASSUME NEW k \in 1..at
      PROVE  new[k] = file[k]
  <2>1. k \in 1..size /\ k \notin (at + 1)..(at + n)
    BY <1>3
  <2>. QED  BY <1>4, <2>1
<1>10. ASSUME NEW k \in 1..n
      PROVE  new[at + k] = bytes[k]
  <2>1. at + k \in 1..size /\ at + k \in (at + 1)..(at + n) /\ at + k - at = k
    BY <1>3
  <2>. QED  BY <1>4, <2>1
<1>11. Len(new) >= at + n /\ (at + n >= Len(file) => Len(new) = at + n)
  BY <1>1, <1>3, <1>8
<1>. QED  BY <1>8, <1>9, <1>10, <1>11 DEF new

\* What was written of a part follows what was written before it.
LEMMA PartWritten ==
    ASSUME StateInv, FileInv, file \in Seq(Byte), NEW part \in Contents,
           mkfs = part, NEW n \in 0..PartSize(supers.new, part),
           file' = Written(Total(part), Data(part), n)
    PROVE  /\ file' \in Seq(Byte)
           /\ Total(part) + n \in Nat
           /\ StartsWith(file', supers.new, Total(part) + n)
           /\ ~device => Len(file') = Total(part) + n
<1>0. PICK sb, at, size, W :
         /\ sb = supers.new /\ at = Before(sb, part)
         /\ size = PartSize(sb, part) /\ W = Whole("new", sb)
  OBVIOUS
<1>1. SuperOK(sb) /\ part \in Parts /\ part # "padding"
  BY <1>0 DEF StateInv, Contents
<1>2. /\ at \in Nat /\ size \in Nat
      /\ \A k \in 1..size :
            W[at + k] = [owner |-> "new", part |-> part, at |-> k]
  BY <1>0, <1>1, PartFacts
<1>3. Total(part) = at /\ Data(part) = Bytes("new", part, size)
  BY <1>0, <1>1 DEF Total, Data
<1>4. /\ at =< Len(file) /\ \A k \in 1..at : file[k] = W[k]
      /\ ~device => Len(file) = at
  BY <1>0, <1>1 DEF FileInv, StartsWith
<1>5. PICK bytes : bytes = Bytes("new", part, size)
  OBVIOUS
<1>6. file' = Written(at, bytes, n)
  BY <1>3, <1>5
<1>7. n \in 0..size
  BY <1>0
<1>8. /\ n \in Nat /\ at + n \in Nat
      /\ \A k \in 1..n : /\ bytes[k] = [owner |-> "new", part |-> part, at |-> k]
                         /\ W[at + k] = bytes[k]
  <2>1. n \in Nat /\ \A k \in 1..n : k \in 1..size /\ k \in Nat
    BY <1>2, <1>7
  <2>2. \A k \in 1..size : bytes[k] = [owner |-> "new", part |-> part, at |-> k]
    BY <1>5 DEF Bytes
  <2>. QED  BY <1>2, <2>1, <2>2
<1>9. \A k \in 1..n : bytes[k] \in Byte
  <2>1. part \in {"super", "inodes", "blocks", "entries"}
    BY <1>1 DEF Parts
  <2>2. \A k \in 1..n : k \in Nat
    BY <1>8
  <2>3. \A k \in 1..n : [owner |-> "new", part |-> part, at |-> k] \in Byte
    BY <2>1, <2>2 DEF Byte
  <2>. QED  BY <1>8, <2>3
<1>10. /\ file' \in Seq(Byte)
       /\ Len(file') >= at + n
       /\ at + n >= Len(file) => Len(file') = at + n
       /\ \A k \in 1..at : file'[k] = file[k]
       /\ \A k \in 1..n : file'[at + k] = bytes[k]
  <2>1. /\ Written(at, bytes, n) \in Seq(Byte)
        /\ Len(Written(at, bytes, n)) >= at + n
        /\ at + n >= Len(file) => Len(Written(at, bytes, n)) = at + n
        /\ \A k \in 1..at : Written(at, bytes, n)[k] = file[k]
        /\ \A k \in 1..n : Written(at, bytes, n)[at + k] = bytes[k]
    BY <1>2, <1>4, <1>8, <1>9, WrittenFacts
  <2>. QED  BY <1>6, <2>1
<1>11. ASSUME NEW k \in 1..(at + n)
       PROVE  file'[k] = W[k]
  <2>1. CASE k \in 1..at
    BY <1>4, <1>10, <2>1
  <2>2. CASE k \notin 1..at
    <3>1. k - at \in 1..n /\ at + (k - at) = k
      BY <1>2, <1>8, <2>2
    <3>. QED  BY <1>8, <1>10, <3>1
  <2>. QED  BY <2>1, <2>2
<1>12. StartsWith(file', sb, at + n)
  BY <1>0, <1>10, <1>11 DEF StartsWith
<1>13. ~device => Len(file') = at + n
  BY <1>2, <1>4, <1>8, <1>10
<1>. QED  BY <1>0, <1>3, <1>8, <1>10, <1>12, <1>13

\* The padding comes behind all of the image.
LEMMA PaddingWritten ==
    ASSUME StateInv, FileInv, file \in Seq(Byte), mkfs = "padding",
           NEW n \in Nat, n =< PaddingSize(ImageSize(supers.new)),
           file' = Written(Total("padding"), Data("padding"), n)
    PROVE  /\ file' \in Seq(Byte)
           /\ StartsWith(file', supers.new, ImageSize(supers.new))
           /\ Len(file') >= ImageSize(supers.new) + n
<1>. DEFINE sb == supers.new
            at == ImageSize(sb)
            W == Whole("new", sb)
<1>1. SuperOK(sb)
  BY DEF StateInv
<1>2. at \in Nat /\ Before(sb, "padding") = at
  BY <1>1, SizeIsNat, PartPlaces
<1>3. Total("padding") = at /\ Data("padding") = Bytes("none", "zero", PaddingSize(at))
  BY <1>2 DEF Total, Data
<1>4. at =< Len(file) /\ \A k \in 1..at : file[k] = W[k]
  BY <1>2 DEF FileInv, StartsWith, Parts
<1>5. PICK bytes, size : bytes = Bytes("none", "zero", size) /\ size = PaddingSize(at)
  OBVIOUS
<1>6. file' = Written(at, bytes, n)
  BY <1>3, <1>5
<1>7. \A k \in 1..n : bytes[k] \in Byte
  <2>1. size \in Int
    <3>1. Padding \in Nat \ {0}
      BY ImageFileAssumption
    <3>2. at % Padding \in Int
      BY <1>2, <3>1, Division
    <3>. QED  BY <1>5, <3>1, <3>2 DEF PaddingSize
  <2>2. n =< size
    BY <1>5
  <2>3. \A k \in 1..n : k \in 1..size /\ k \in Nat
    BY <2>1, <2>2
  <2>4. \A k \in 1..n : bytes[k] = [owner |-> "none", part |-> "zero", at |-> k]
    BY <1>5, <2>3 DEF Bytes
  <2>5. \A k \in 1..n : [owner |-> "none", part |-> "zero", at |-> k] \in Byte
    BY <2>3 DEF Byte
  <2>. QED  BY <2>4, <2>5
<1>. HIDE DEF at, W
<1>8. /\ file' \in Seq(Byte)
      /\ Len(file') >= at + n
      /\ \A k \in 1..at : file'[k] = file[k]
  <2>1. /\ Written(at, bytes, n) \in Seq(Byte)
        /\ Len(Written(at, bytes, n)) >= at + n
        /\ \A k \in 1..at : Written(at, bytes, n)[k] = file[k]
    <3>1. file \in Seq(Byte) /\ at \in Nat /\ at =< Len(file) /\ n \in Nat
      BY <1>2, <1>4
    <3>. QED  BY <1>7, <3>1, WrittenFacts
  <2>. QED  BY <1>6, <2>1
<1>9. at =< Len(file')
  <2>1. Len(file') \in Nat
    BY <1>8, LenProperties
  <2>. QED  BY <1>2, <1>8, <2>1
<1>10. StartsWith(file', sb, at)
  BY <1>4, <1>8, <1>9 DEF StartsWith, W
<1>. QED  BY <1>8, <1>10 DEF at

LEMMA Multiple ==
    ASSUME NEW q \in Nat, NEW unit \in Nat \ {0}
    PROVE  (q * unit) % unit = 0
  OBVIOUS

\* The padding ends with a block of the device.
LEMMA PaddingReaches ==
    ASSUME NEW total \in Nat, ~image.no_padding
    PROVE  /\ PaddingSize(total) \in Nat
           /\ (total + PaddingSize(total)) % DevBlock = 0
<1>1. /\ Padding \in Nat \ {0} /\ DevBlock \in Nat \ {0}
      /\ Padding % DevBlock = 0
  BY ImageFileAssumption, DeviceReadAssumption
<1>2. PICK q \in Nat, r \in 0..(Padding - 1) :
         q = total \div Padding /\ r = total % Padding
         /\ total = q * Padding + r
  <2>1. total \div Padding \in Nat
    BY <1>1
  <2>. QED  BY <1>1, <2>1, Division
<1>3. PICK m \in Nat : Padding = m * DevBlock
  <2>1. Padding \div DevBlock \in Nat
    BY <1>1
  <2>2. Padding = (Padding \div DevBlock) * DevBlock + (Padding % DevBlock)
    BY <1>1, Division
  <2>3. (Padding \div DevBlock) * DevBlock \in Int
    BY <1>1, <2>1
  <2>4. Padding = (Padding \div DevBlock) * DevBlock
    BY <1>1, <2>2, <2>3
  <2>. QED  BY <2>1, <2>4
<1>4. \A p \in Nat : (p * Padding) % DevBlock = 0
  <2>. SUFFICES ASSUME NEW p \in Nat
                PROVE  (p * Padding) % DevBlock = 0
    OBVIOUS
  <2>1. p * Padding = (p * m) * DevBlock
    BY <1>1, <1>3
  <2>2. p * m \in Nat
    BY <1>3
  <2>. QED  BY <1>1, <2>1, <2>2, Multiple
<1>5. q * Padding \in Nat /\ (q + 1) * Padding = q * Padding + Padding
  BY <1>1, <1>2
<1>6. CASE r = 0
  <2>1. PaddingSize(total) = 0
    BY <1>2, <1>6 DEF PaddingSize
  <2>2. total + PaddingSize(total) = q * Padding
    BY <1>2, <1>5, <1>6, <2>1
  <2>. QED  BY <1>2, <1>4, <2>1, <2>2
<1>7. CASE r # 0
  <2>1. PaddingSize(total) = Padding - r
    BY <1>2, <1>7 DEF PaddingSize
  <2>2. total + PaddingSize(total) = (q + 1) * Padding
    BY <1>1, <1>2, <1>5, <2>1
  <2>3. q + 1 \in Nat /\ Padding - r \in Nat
    BY <1>1, <1>2
  <2>. QED  BY <1>4, <2>1, <2>2, <2>3
<1>. QED  BY <1>6, <1>7

-----------------------------------------------------------------------------
(***************************************************************************)
(* The mount and its reads                                                 *)
(***************************************************************************)
Reading == {"super", "inodes", "blocks", "block"}
Mounting == {"inodes", "blocks", "mounted", "block"}

\* The file is an image that some mkfs wrote, or the start of one.
Trusted == ~device \/ mkfs \notin {"failed", "killed"}

DriverInv ==
    /\ driver.pc = "none" => driver.tables = "right"
    /\ driver.pc \notin {"mounted", "block"} => driver.answer = "none"
    /\ driver.pc # "none" => mkfs \in Ended
    /\ call.pc # "idle" <=> driver.pc \in Reading
    /\ driver.pc = "super" => call.offset = 0 /\ call.length = 1
    /\ driver.pc \in Mounting =>
          /\ file # <<>> /\ Magic(file[1])
          /\ driver.owner = file[1].owner /\ driver.owner \in {"new", "old"}
    /\ driver.pc = "inodes" => /\ call.offset = Super.inodes_offset
                               /\ call.length = Super.inodes_csize
    /\ driver.pc = "blocks" => /\ call.offset = Super.blocks_offset
                               /\ call.length = Super.blocks_size
    /\ driver.pc = "block" =>
          /\ driver.block \in DOMAIN Super.table /\ driver.block > 0
          /\ call.offset = Super.entries_offset + BlockOffset(driver.block)
          /\ call.length = Super.table[driver.block].size
    /\ Trusted => driver.tables = "right" /\ driver.answer # "wrong"
    /\ FailuresExplained

IInv == StateInv /\ CallInv /\ FileInv /\ DriverInv

LEMMA SupersOK ==
    ASSUME StateInv, NEW owner \in {"new", "old"}
    PROVE  /\ SuperOK(supers[owner])
           /\ supers[owner] = IF owner = "new" THEN supers.new ELSE supers.old
  BY DEF StateInv

LEMMA MagicOwner ==
    ASSUME file \in Seq(Byte), file # <<>>, Magic(file[1])
    PROVE  file[1].owner \in {"new", "old"}
<1>1. Len(file) \in Nat \ {0}
  BY EmptySeq, Zenon
<1>2. 1 \in 1..Len(file)
  BY <1>1
<1>3. file[1] \in Byte
  BY <1>2, ElementOfSeq
<1>. QED  BY <1>3 DEF Byte, Magic

\* A file that can be trusted holds what its first byte says.
LEMMA HonestFile ==
    ASSUME StateInv, FileInv, file \in Seq(Byte), Trusted, mkfs \in Ended,
           file # <<>>, Magic(file[1])
    PROVE  /\ Honest(file, file[1].owner, supers[file[1].owner])
           /\ file[1].owner \in {"new", "old"}
           /\ mkfs = "done" => file[1].owner = "new"
<1>1. file[1].owner \in {"new", "old"}
  BY MagicOwner
<1>2. /\ SuperOK(supers.new)
      /\ supers["new"] = supers.new /\ supers["old"] = supers.old
  BY DEF StateInv
<1>3. CASE mkfs = "overrun"
  <2>1. Honest(file, "old", supers.old)
    BY <1>3 DEF FileInv
  <2>2. file[1].owner = "old"
    BY <2>1 DEF Honest
  <2>. QED  BY <1>2, <1>3, <2>1, <2>2
<1>4. CASE mkfs = "done"
  <2>1. StartsWith(file, supers.new, ImageSize(supers.new))
    BY <1>4 DEF FileInv
  <2>2. ImageSize(supers.new) \in Nat
    BY <1>2, SizeIsNat
  <2>3. Honest(file, "new", supers.new)
    BY <1>2, <2>1, <2>2, StartHonest
  <2>4. file[1].owner = "new"
    BY <2>3 DEF Honest
  <2>. QED  BY <1>2, <2>3, <2>4
<1>5. CASE mkfs \in {"failed", "killed"}
  <2>1. Honest(file, "old", supers.old) \/ Honest(file, "new", supers.new)
    BY <1>5 DEF FileInv, Trusted
  <2>2. \/ Honest(file, "old", supers.old) /\ file[1].owner = "old"
        \/ Honest(file, "new", supers.new) /\ file[1].owner = "new"
    BY <2>1 DEF Honest
  <2>. QED  BY <1>2, <1>5, <2>2
<1>. QED  BY <1>1, <1>3, <1>4, <1>5 DEF Ended

\* The bytes of a part, where they are there.
LEMMA HonestPart ==
    ASSUME NEW bytes \in Seq(Byte), NEW owner, NEW sb, SuperOK(sb),
           Honest(bytes, owner, sb), bytes # <<>>, Magic(bytes[1]),
           NEW part \in Contents, NEW from \in Nat, NEW n \in Nat,
           from + n =< PartSize(sb, part),
           Before(sb, part) + from + n =< Len(bytes)
    PROVE  \A k \in 1..n : bytes[Before(sb, part) + from + k] =
              [owner |-> owner, part |-> part, at |-> from + k]
<1>. DEFINE W == Whole(owner, sb)
<1>1. PICK at \in Nat, size \in Nat, all \in Nat :
         /\ at = Before(sb, part) /\ size = PartSize(sb, part)
         /\ all = ImageSize(sb) /\ at + size =< all
  <2>1. /\ Before(sb, part) \in Nat /\ PartSize(sb, part) \in Nat
        /\ Before(sb, part) + PartSize(sb, part) =< ImageSize(sb)
    BY PartFacts
  <2>2. ImageSize(sb) \in Nat
    BY SizeIsNat
  <2>. QED  BY <2>1, <2>2
<1>2. \A k \in 1..size :
         W[at + k] = [owner |-> owner, part |-> part, at |-> k]
  <2>1. \A k \in 1..PartSize(sb, part) : W[Before(sb, part) + k] =
           [owner |-> owner, part |-> part, at |-> k]
    BY PartFacts
  <2>. QED  BY <1>1, <2>1
<1>3. DOMAIN W = 1..all
  BY <1>1, WholeFacts
<1>4. \A k \in DOMAIN bytes \cap DOMAIN W : bytes[k] = W[k]
  BY DEF Honest
<1>. HIDE DEF W
<1>5. PICK len \in Nat : len = Len(bytes) /\ DOMAIN bytes = 1..len
  BY LenProperties
<1>6. from + n =< size /\ at + from + n =< len /\ at + size =< all
  BY <1>1, <1>5
<1>7. ASSUME NEW k \in 1..n
      PROVE  bytes[at + from + k] =
                [owner |-> owner, part |-> part, at |-> from + k]
  <2>1. /\ from + k \in 1..size /\ at + from + k \in 1..len
        /\ at + from + k \in 1..all /\ at + from + k = at + (from + k)
    BY <1>6
  <2>2. bytes[at + from + k] = W[at + from + k]
    BY <1>3, <1>4, <1>5, <2>1
  <2>3. W[at + (from + k)] = [owner |-> owner, part |-> part, at |-> from + k]
    BY <1>2, <2>1
  <2>. QED  BY <2>1, <2>2, <2>3
<1>. QED  BY <1>1, <1>7

LEMMA ReadsPart ==
    ASSUME CallInv, call.pc = "return", call.rc = call.length,
           NEW owner, NEW sb, SuperOK(sb), Honest(file, owner, sb),
           file # <<>>, Magic(file[1]), NEW part \in Contents, NEW from \in Nat,
           call.offset = Before(sb, part) + from,
           from + call.length =< PartSize(sb, part)
    PROVE  call.buffer = [k \in 1..call.length |->
              [owner |-> owner, part |-> part, at |-> from + k]]
<1>1. /\ CallType /\ file \in Seq(Byte)
      /\ call.offset \in Nat /\ call.length \in Nat
      /\ call.buffer = [k \in 1..call.length |-> call.buffer[k]]
  BY Fields DEF CallInv, CallType
<1>2. CASE call.length = 0
  BY <1>1, <1>2
<1>3. CASE call.length # 0
  <2>1. /\ AsInt(call.offset) >= 0
        /\ AsInt(call.offset) + call.length =< Len(file)
        /\ \A k \in 1..call.length :
              call.buffer[k] = file[AsInt(call.offset) + k]
    <3>1. 0 < call.length
      BY <1>1, <1>3
    <3>. QED  BY <3>1 DEF CallInv, ReturnInv
  <2>2. call.offset < 2 * IntEnd
    <3>1. PICK at \in Nat, size \in Nat, all \in Nat :
             /\ at = Before(sb, part) /\ size = PartSize(sb, part)
             /\ all = ImageSize(sb) /\ at + size =< all
      <4>1. /\ Before(sb, part) \in Nat /\ PartSize(sb, part) \in Nat
            /\ Before(sb, part) + PartSize(sb, part) =< ImageSize(sb)
        BY PartFacts
      <4>2. ImageSize(sb) \in Nat
        BY SizeIsNat
      <4>. QED  BY <4>1, <4>2
    <3>2. all < 2 * IntEnd
      BY <3>1 DEF SuperOK, ImageSize
    <3>3. call.offset =< all
      BY <1>1, <3>1
    <3>4. IntEnd \in Nat
      BY DeviceReadAssumption
    <3>. QED  BY <1>1, <3>2, <3>3, <3>4
  <2>3. AsInt(call.offset) = call.offset
    BY <1>1, <2>1, <2>2, StartFacts
  <2>4. \A k \in 1..call.length : file[call.offset + k] =
           [owner |-> owner, part |-> part, at |-> from + k]
    <3>1. Before(sb, part) + from + call.length =< Len(file)
      BY <2>1, <2>3
    <3>2. \A k \in 1..call.length : file[Before(sb, part) + from + k] =
             [owner |-> owner, part |-> part, at |-> from + k]
      BY <1>1, <3>1, HonestPart
    <3>. QED  BY <3>2
  <2>5. \A k \in 1..call.length : call.buffer[k] =
           [owner |-> owner, part |-> part, at |-> from + k]
    BY <2>1, <2>3, <2>4
  <2>. QED  BY <1>1, <2>5
<1>. QED  BY <1>2, <1>3

\* The block of a range that is not on the device is the one its last bytes lie
\* in, which are no whole block.
LEMMA LastBlock ==
    ASSUME NEW unit \in Nat \ {0}, NEW j \in Nat, NEW block \in Int,
           NEW index \in 0..(unit - 1), NEW offset \in Nat, NEW length \in Nat,
           NEW all \in Nat, NEW on \in Nat,
           offset = block * unit + index, offset + length =< all,
           j * unit - index < length, block + j \notin 0..(on - 1)
    PROVE  on * unit < all
<1>1. block >= 0
  BY Z3
<1>2. block + j >= on
  BY <1>1
<1>3. on * unit =< (block + j) * unit
  BY <1>2
<1>4. (block + j) * unit = block * unit + j * unit
  OBVIOUS
<1>5. PICK x \in Int, y \in Int, z \in Int :
         x = block * unit /\ y = j * unit /\ z = on * unit
  OBVIOUS
<1>6. z =< x + y /\ offset = x + index /\ y - index < length
  BY <1>3, <1>4, <1>5
<1>7. z < all
  BY <1>6
<1>. QED  BY <1>5, <1>7

LEMMA NoWholeBlock ==
    ASSUME NEW unit \in Nat \ {0}, NEW j \in Nat, NEW block \in Int,
           NEW index \in 0..(unit - 1), NEW offset \in Nat, NEW length \in Nat,
           NEW all \in Nat, NEW len \in Nat,
           offset = block * unit + index, offset + length =< all, all =< len,
           j * unit - index < length, block + j \notin 0..(len \div unit - 1)
    PROVE  /\ len % unit # 0
           /\ \A p \in Nat : p % unit = 0 /\ p =< len => p < all
<1>1. PICK on \in Nat : on = len \div unit
  OBVIOUS
<1>2. on * unit < all
  BY <1>1, LastBlock
<1>3. len % unit # 0
  <2>1. len = on * unit + (len % unit) /\ len % unit \in Int
    BY <1>1, Division
  <2>2. on * unit \in Int
    OBVIOUS
  <2>. QED  BY <1>2, <2>1, <2>2
<1>4. ASSUME NEW p \in Nat, p % unit = 0, p =< len
      PROVE  p < all
  <2>1. PICK q \in Nat : q = p \div unit /\ p = q * unit
    <3>1. p \div unit \in Nat
      OBVIOUS
    <3>2. p = (p \div unit) * unit + (p % unit)
      BY Division
    <3>3. (p \div unit) * unit \in Int
      BY <3>1
    <3>4. p = (p \div unit) * unit
      BY <1>4, <3>2, <3>3
    <3>. QED  BY <3>1, <3>4
  <2>2. q =< on
    BY <1>1, <1>4, <2>1
  <2>3. q * unit =< on * unit
    BY <2>2
  <2>4. on * unit \in Int /\ q * unit \in Int
    OBVIOUS
  <2>. QED  BY <1>2, <2>1, <2>3, <2>4
<1>. QED  BY <1>3, <1>4

\* Why a read of a finished image comes back with less than it was asked for.
LEMMA RefusalExplained ==
    ASSUME StateInv, CallInv, FileInv, mkfs = "done", call.pc = "return",
           call.rc # call.length,
           call.offset + call.length =< ImageSize(supers.new)
    PROVE  \/ failures > 0
           \/ Beyond(call.offset)
           \/ image.no_padding /\ Len(file) % DevBlock # 0
<1>. SUFFICES ASSUME ~(failures > 0), ~Beyond(call.offset)
              PROVE  image.no_padding /\ Len(file) % DevBlock # 0
  OBVIOUS
<1>1. /\ CallType /\ file \in Seq(Byte) /\ SuperOK(supers.new)
      /\ DevBlock \in Nat \ {0} /\ IntEnd \in Nat \ {0}
  BY DeviceReadAssumption DEF CallInv, CallType, StateInv
<1>2. PICK offset \in Nat, length \in Nat, all \in Nat, len \in Nat :
         /\ offset = call.offset /\ length = call.length
         /\ all = ImageSize(supers.new) /\ len = Len(file)
         /\ offset + length =< all
  <2>1. /\ call.offset \in Nat /\ call.length \in Nat
        /\ ImageSize(supers.new) \in Nat /\ Len(file) \in Nat
    BY <1>1, Fields, SizeIsNat, LenProperties
  <2>. QED  BY <2>1
<1>3. offset < IntEnd
  BY <1>1, <1>2 DEF Beyond
<1>4. /\ all =< len
      /\ ~image.no_padding => PaddedTo(file, all)
  BY <1>2 DEF FileInv, StartsWith
<1>5. PICK j \in Nat : /\ j * DevBlock - StartIndex(offset) < length
                       /\ ~IsOn(len, StartBlock(offset) + j)
  <2>1. Missing(len, offset, length)
    BY <1>2 DEF CallInv, ReturnInv
  <2>. QED  BY <2>1 DEF Missing
<1>6. /\ StartIndex(offset) \in 0..(DevBlock - 1) /\ StartBlock(offset) \in Int
      /\ offset = StartBlock(offset) * DevBlock + StartIndex(offset)
  BY <1>2, <1>3, StartFacts
<1>7. StartBlock(offset) + j \notin 0..(len \div DevBlock - 1)
  BY <1>5 DEF IsOn
<1>8. /\ len % DevBlock # 0
      /\ \A p \in Nat : p % DevBlock = 0 /\ p =< len => p < all
  BY <1>1, <1>2, <1>4, <1>5, <1>6, <1>7, NoWholeBlock
<1>9. image.no_padding
  <2>1. ASSUME ~image.no_padding
        PROVE  FALSE
    <3>1. PICK p \in Nat : p % DevBlock = 0 /\ all =< p /\ p =< len
      BY <1>2, <1>4, <2>1 DEF PaddedTo
    <3>2. p < all
      BY <1>8, <3>1
    <3>. QED  BY <1>2, <3>1, <3>2
  <2>. QED  BY <2>1
<1>. QED  BY <1>2, <1>8, <1>9

\* The driver's functions.
LEMMA DriverUncompress ==
    ASSUME NEW name \in Names, NEW right \in BOOLEAN,
           NEW outcome \in driver_uncompress(name, right)
    PROVE  /\ outcome \in Outcomes
           /\ right => outcome # "wrong"
           /\ right /\ outcome \in {"fails", "crashes"} => name \in {"lzma", "xz"}
<1>1. CASE name = "lzma"
  <2>1. outcome = "fails"
    BY <1>1 DEF driver_uncompress
  <2>. QED  BY <1>1, <2>1 DEF Outcomes
<1>2. CASE name = "xz"
  <2>1. outcome = "crashes"
    BY <1>2 DEF driver_uncompress
  <2>. QED  BY <1>2, <2>1 DEF Outcomes
<1>3. CASE name \notin {"lzma", "xz"}
  <2>1. outcome \in IF right THEN {"right"} ELSE Foreign(name)
    BY <1>3 DEF driver_uncompress
  <2>2. CASE right
    BY <2>1, <2>2 DEF Outcomes
  <2>3. CASE ~right
    BY <2>1, <2>3 DEF Outcomes, Foreign
  <2>. QED  BY <2>2, <2>3
<1>. QED  BY <1>1, <1>2, <1>3

-----------------------------------------------------------------------------
(***************************************************************************)
(* The steps of mkfs                                                       *)
(***************************************************************************)
LEMMA Idle ==
    ASSUME IInv, mkfs \notin Ended
    PROVE  /\ driver.pc = "none" /\ driver.tables = "right"
           /\ driver.answer = "none" /\ call.pc = "idle"
<1>1. driver.pc = "none"
  BY DEF IInv, DriverInv
<1>. QED  BY <1>1 DEF IInv, DriverInv, Reading

\* While no call is made the file may change, and nothing was read yet.
LEMMA WritingKeepsReading ==
    ASSUME IInv, mkfs \notin Ended, UNCHANGED <<call, refs, failures, driver>>,
           file' \in Seq(Byte)
    PROVE  CallInv' /\ DriverInv'
<1>1. /\ driver.pc = "none" /\ driver.tables = "right"
      /\ driver.answer = "none" /\ call.pc = "idle"
  BY Idle
<1>2. /\ driver'.pc = "none" /\ driver'.tables = "right"
      /\ driver'.answer = "none" /\ call'.pc = "idle"
  BY <1>1
<1>3. CallType'
  BY DEF IInv, CallInv, CallType
<1>4. HeadsInv'
  BY <1>1, <1>2 DEF IInv, CallInv, HeadsInv
<1>5. PlaceInv'
  BY <1>1, <1>2 DEF IInv, CallInv, PlaceInv
<1>6. ReturnInv'
  BY <1>2 DEF ReturnInv
<1>7. FailuresExplained'
  BY <1>2 DEF FailuresExplained
<1>8. DriverInv'
  BY <1>2, <1>7 DEF DriverInv, Reading, Mounting
<1>. QED  BY <1>3, <1>4, <1>5, <1>6, <1>8 DEF CallInv

\* The state of mkfs alone.
LEMMA StateKept ==
    ASSUME StateInv, UNCHANGED <<image, device, supers, driver>>,
           mkfs' \in {"compress", "open"} \cup Parts \cup Ended,
           mkfs' # "overrun"
    PROVE  StateInv'
  BY DEF StateInv, MkfsIs

LEMMA CompressInodesStep ==
    ASSUME IInv, CompressInodes
    PROVE  IInv'
<1>1. /\ mkfs = "compress" /\ file' = file /\ UNCHANGED mkfsOnly
      /\ StateInv /\ CallInv /\ FileInv
  BY DEF IInv, CompressInodes, MkfsIs
<1>2. UNCHANGED <<call, refs, failures, image, device, driver>>
  BY <1>1 DEF mkfsOnly
<1>3. ImageOK(image)
  BY <1>1, ImagesAssumption DEF StateInv
<1>4. /\ image.compression \in Names /\ image.inodes \in Nat
  BY <1>3 DEF ImageOK
<1>5. PICK r \in compressor_compress(image.compression, image.inodes,
                                     2 * image.inodes) :
        \/ /\ r.written > 2 * image.inodes
           /\ mkfs' = "overrun" /\ supers' = supers
        \/ /\ mkfs' = "failed" /\ supers' = supers
        \/ /\ r.rc \in 0..image.inodes
           /\ mkfs' = "open"
           /\ supers' = [supers EXCEPT !.new = SuperBlock(image, r.rc)]
  BY DEF CompressInodes
<1>6. CallInv' /\ DriverInv'
  <2>1. file' \in Seq(Byte) /\ mkfs \notin Ended
    BY <1>1 DEF CallInv, CallType, Ended
  <2>. QED  BY <1>2, <2>1, WritingKeepsReading
<1>7. supers = [new |-> supers.new, old |-> supers.old]
  BY <1>1 DEF StateInv
<1>8. CASE mkfs' = "overrun" /\ supers' = supers /\ r.written > 2 * image.inodes
  <2>1. image.compression = "lzo" /\ image.inodes < LzoExtra
    BY <1>4, <1>5, <1>8, CompressFacts
  <2>2. StateInv'
    BY <1>1, <1>2, <1>8, <2>1 DEF StateInv, MkfsIs, Ended
  <2>3. FileInv'
    BY <1>1, <1>8 DEF FileInv, Parts
  <2>. QED  BY <1>6, <2>2, <2>3 DEF IInv
<1>9. CASE mkfs' = "failed" /\ supers' = supers
  <2>1. StateInv'
    BY <1>1, <1>2, <1>9, StateKept DEF Ended
  <2>2. FileInv'
    BY <1>1, <1>9 DEF FileInv, Parts
  <2>. QED  BY <1>6, <2>1, <2>2 DEF IInv
<1>10. CASE /\ r.rc \in 0..image.inodes
            /\ mkfs' = "open"
            /\ supers' = [supers EXCEPT !.new = SuperBlock(image, r.rc)]
  <2>1. /\ supers'.new = SuperBlock(image, r.rc) /\ supers'.old = supers.old
        /\ supers' = [new |-> supers'.new, old |-> supers'.old]
    BY <1>7, <1>10
  <2>2. SuperOK(SuperBlock(image, r.rc))
    <3>1. r.rc \in Nat /\ r.rc =< image.inodes
      BY <1>4, <1>10
    <3>. QED  BY <1>3, <3>1, SuperBlockOK DEF ImageOK
  <2>3. SuperOK(supers'.new) /\ SuperOK(supers'.old)
    BY <1>1, <2>1, <2>2 DEF StateInv
  <2>4. StateInv'
    BY <1>1, <1>2, <1>10, <2>1, <2>3 DEF StateInv, MkfsIs
  <2>5. FileInv'
    BY <1>1, <1>10, <2>1 DEF FileInv, Parts
  <2>. QED  BY <1>6, <2>4, <2>5 DEF IInv
<1>. QED  BY <1>5, <1>8, <1>9, <1>10

LEMMA OpenOutputStep ==
    ASSUME IInv, OpenOutput
    PROVE  IInv'
<1>1. /\ mkfs = "open" /\ mkfs' = "super" /\ supers' = supers
      /\ file' = IF device THEN file ELSE <<>>
      /\ UNCHANGED <<call, refs, failures, image, device, driver>>
      /\ StateInv /\ CallInv /\ FileInv
  BY DEF IInv, OpenOutput, MkfsIs, mkfsOnly
<1>2. file \in Seq(Byte)
  BY <1>1 DEF CallInv, CallType
<1>3. file' \in Seq(Byte)
  BY <1>1, <1>2
<1>4. CallInv' /\ DriverInv'
  BY <1>1, <1>3, WritingKeepsReading DEF Ended
<1>5. StateInv'
  BY <1>1, StateKept DEF Parts
<1>6. SuperOK(supers.new)
  BY <1>1 DEF StateInv
<1>7. Before(supers.new, "super") = 0
  BY <1>6, PartPlaces
<1>8. StartsWith(file', supers.new, 0) /\ (~device => Len(file') = 0)
  <2>1. Len(file') \in Nat
    BY <1>3, LenProperties
  <2>2. ~device => Len(file') = 0
    BY <1>1
  <2>. QED  BY <2>1, <2>2 DEF StartsWith
<1>9. FileInv'
  BY <1>1, <1>7, <1>8 DEF FileInv, Ended
<1>. QED  BY <1>4, <1>5, <1>9 DEF IInv

LEMMA MkfsFailsStep ==
    ASSUME IInv, MkfsFails
    PROVE  IInv'
<1>1. /\ mkfs \in {"compress", "open"} /\ mkfs' \in {"failed", "killed"}
      /\ supers' = supers /\ file' = file
      /\ UNCHANGED <<call, refs, failures, image, device, driver>>
      /\ StateInv /\ CallInv /\ FileInv
  BY DEF IInv, MkfsFails, mkfsOnly
<1>2. file' \in Seq(Byte)
  BY <1>1 DEF CallInv, CallType
<1>3. CallInv' /\ DriverInv'
  BY <1>1, <1>2, WritingKeepsReading DEF Ended
<1>4. StateInv'
  BY <1>1, StateKept DEF Ended
<1>5. FileInv'
  BY <1>1 DEF FileInv, Parts
<1>. QED  BY <1>3, <1>4, <1>5 DEF IInv

LEMMA WritePartStep ==
    ASSUME IInv, NEW part \in Parts, WritePart(part)
    PROVE  IInv'
<1>1. /\ mkfs = part /\ mkfs' = NextPart[part] /\ supers' = supers
      /\ file' = Written(Total(part), Data(part), Len(Data(part)))
      /\ UNCHANGED <<call, refs, failures, image, device, driver>>
      /\ StateInv /\ CallInv /\ FileInv
  BY DEF IInv, WritePart, MkfsIs, mkfsOnly
<1>2. file \in Seq(Byte) /\ SuperOK(supers.new) /\ mkfs \notin Ended
  BY <1>1 DEF CallInv, CallType, StateInv, Parts, Ended
<1>3. CASE part # "padding"
  <2>1. part \in Contents
    BY <1>3 DEF Contents
  <2>2. PICK size \in Nat :
           /\ size = PartSize(supers.new, part)
           /\ Before(supers.new, NextPart[part])
                 = Before(supers.new, part) + size
           /\ NextPart[part] \in Parts /\ NextPart[part] # "super"
    BY <1>2, <2>1, PartFacts
  <2>3. Len(Data(part)) = size
    <3>1. Data(part) = Bytes("new", part, size)
      BY <1>3, <2>2 DEF Data
    <3>2. Len(Bytes("new", part, size)) = size
      BY <2>2, BytesFacts
    <3>. QED  BY <3>1, <3>2
  <2>4. file' = Written(Total(part), Data(part), size)
    BY <1>1, <2>3
  <2>5. /\ file' \in Seq(Byte)
        /\ StartsWith(file', supers.new, Total(part) + size)
        /\ ~device => Len(file') = Total(part) + size
    <3>1. size \in 0..PartSize(supers.new, part)
      BY <2>2
    <3>. QED  BY <1>1, <1>2, <2>1, <2>4, <3>1, PartWritten
  <2>6. Before(supers'.new, mkfs') = Total(part) + size
    BY <1>1, <2>2 DEF Total
  <2>7. CallInv' /\ DriverInv'
    BY <1>1, <1>2, <2>5, WritingKeepsReading
  <2>8. mkfs' \in Parts /\ mkfs' \notin Ended
    BY <1>1, <2>2 DEF Parts, Ended
  <2>9. StateInv'
    BY <1>1, <2>8, StateKept DEF Ended
  <2>10. FileInv'
    BY <1>1, <2>5, <2>6, <2>8 DEF FileInv, Parts, Ended
  <2>. QED  BY <2>7, <2>9, <2>10 DEF IInv
<1>4. CASE part = "padding"
  <2>. DEFINE all == ImageSize(supers.new)
  <2>1. all \in Nat
    BY <1>2, SizeIsNat
  <2>2. PICK size \in Nat : /\ size = PaddingSize(all)
                            /\ ~image.no_padding => (all + size) % DevBlock = 0
    <3>1. PaddingSize(all) \in Nat
      <4>1. CASE image.no_padding
        BY <4>1 DEF PaddingSize
      <4>2. CASE ~image.no_padding
        BY <2>1, <4>2, PaddingReaches
      <4>. QED  BY <4>1, <4>2
    <3>2. ~image.no_padding => (all + PaddingSize(all)) % DevBlock = 0
      BY <2>1, PaddingReaches
    <3>. QED  BY <3>1, <3>2
  <2>3. Len(Data(part)) = size
    <3>1. Total(part) = all
      BY <1>2, <1>4, PartPlaces DEF Total
    <3>2. Data(part) = Bytes("none", "zero", size)
      BY <1>4, <2>2, <3>1 DEF Data
    <3>. QED  BY <2>2, <3>2 DEF Bytes
  <2>4. /\ file' \in Seq(Byte)
        /\ StartsWith(file', supers.new, all)
        /\ Len(file') >= all + size
    BY <1>1, <1>2, <1>4, <2>2, <2>3, PaddingWritten
  <2>5. ~image.no_padding => PaddedTo(file', all)
    <3>1. all + size \in Nat /\ all =< all + size
      BY <2>1, <2>2
    <3>2. Len(file') \in Nat
      BY <2>4, LenProperties
    <3>3. all + size =< Len(file')
      BY <2>1, <2>2, <2>4, <3>2
    <3>. QED  BY <2>2, <3>1, <3>3 DEF PaddedTo
  <2>6. mkfs' = "done"
    BY <1>1, <1>4 DEF NextPart
  <2>7. CallInv' /\ DriverInv'
    BY <1>1, <1>2, <2>4, WritingKeepsReading
  <2>8. StateInv'
    BY <1>1, <2>6, StateKept DEF Ended
  <2>9. FileInv'
    BY <1>1, <2>4, <2>5, <2>6 DEF FileInv, Parts
  <2>. QED  BY <2>7, <2>8, <2>9 DEF IInv
<1>. QED  BY <1>3, <1>4

LEMMA WriteShortStep ==
    ASSUME IInv, NEW part \in Parts, WriteShort(part)
    PROVE  IInv'
<1>1. /\ mkfs = part /\ mkfs' \in {"failed", "killed"} /\ supers' = supers
      /\ UNCHANGED <<call, refs, failures, image, device, driver>>
      /\ StateInv /\ CallInv /\ FileInv
  BY DEF IInv, WriteShort, MkfsIs, mkfsOnly
<1>2. PICK n \in 0..(Len(Data(part)) - 1) :
         file' = Written(Total(part), Data(part), n)
  BY DEF WriteShort
<1>3. file \in Seq(Byte) /\ SuperOK(supers.new) /\ mkfs \notin Ended
  BY <1>1 DEF CallInv, CallType, StateInv, Parts, Ended
<1>4. file' \in Seq(Byte) /\ (~device => Honest(file', "new", supers.new))
  <2>1. CASE part # "padding"
    <3>1. part \in Contents
      BY <2>1 DEF Contents
    <3>2. PICK size \in Nat : size = PartSize(supers.new, part)
      BY <1>3, <3>1, PartFacts
    <3>3. Len(Data(part)) = size
      <4>1. Data(part) = Bytes("new", part, size)
        BY <2>1, <3>2 DEF Data
      <4>2. Len(Bytes("new", part, size)) = size
        BY <3>2, BytesFacts
      <4>. QED  BY <4>1, <4>2
    <3>4. n \in 0..PartSize(supers.new, part)
      BY <1>2, <3>2, <3>3
    <3>5. /\ file' \in Seq(Byte)
          /\ Total(part) + n \in Nat
          /\ StartsWith(file', supers.new, Total(part) + n)
          /\ ~device => Len(file') = Total(part) + n
      BY <1>1, <1>2, <1>3, <3>1, <3>4, PartWritten
    <3>. QED  BY <1>3, <3>5, StartHonest
  <2>2. CASE part = "padding"
    <3>1. PICK size : size = PaddingSize(ImageSize(supers.new))
      OBVIOUS
    <3>2. ImageSize(supers.new) \in Nat /\ size \in Int
      <4>1. ImageSize(supers.new) \in Nat
        BY <1>3, SizeIsNat
      <4>2. Padding \in Nat \ {0}
        BY ImageFileAssumption
      <4>3. ImageSize(supers.new) % Padding \in Int
        BY <4>1, <4>2, Division
      <4>. QED  BY <3>1, <4>1, <4>2, <4>3 DEF PaddingSize
    <3>3. Data(part) = Bytes("none", "zero", size)
      <4>1. Total(part) = ImageSize(supers.new)
        BY <1>3, <2>2, PartPlaces DEF Total
      <4>. QED  BY <2>2, <3>1, <4>1 DEF Data
    <3>4. n \in Nat /\ n =< size
      <4>1. CASE size \in Nat
        <5>1. Len(Data(part)) = size
          BY <3>3, <4>1 DEF Bytes
        <5>. QED  BY <1>2, <4>1, <5>1
      <4>2. CASE size \notin Nat
        <5>1. Data(part) = <<>>
          BY <3>2, <3>3, <4>2 DEF Bytes
        <5>2. Len(Data(part)) = 0
          BY <5>1
        <5>. QED  BY <1>2, <5>2
      <4>. QED  BY <4>1, <4>2
    <3>5. /\ file' \in Seq(Byte)
          /\ StartsWith(file', supers.new, ImageSize(supers.new))
      BY <1>1, <1>2, <1>3, <2>2, <3>1, <3>4, PaddingWritten
    <3>. QED  BY <1>3, <3>2, <3>5, StartHonest
  <2>. QED  BY <2>1, <2>2
<1>5. CallInv' /\ DriverInv'
  BY <1>1, <1>3, <1>4, WritingKeepsReading
<1>6. StateInv'
  BY <1>1, StateKept DEF Ended
<1>7. FileInv'
  BY <1>1, <1>4 DEF FileInv, Parts
<1>. QED  BY <1>5, <1>6, <1>7 DEF IInv

-----------------------------------------------------------------------------
(***************************************************************************)
(* The steps of the driver                                                 *)
(***************************************************************************)
DriverType == [pc : DriverPcs, owner : {"none", "new", "old"},
               tables : {"right", "wrong"}, block : Nat,
               answer : {"none"} \cup Outcomes]

\* The driver changes nothing of mkfs's.
LEMMA DriverKeeps ==
    ASSUME IInv, UNCHANGED made, CallInv', driver' \in DriverType, DriverInv'
    PROVE  IInv'
<1>1. /\ file' = file /\ image' = image /\ device' = device
      /\ supers' = supers /\ mkfs' = mkfs
  BY DEF made
<1>2. StateInv'
  BY <1>1 DEF IInv, StateInv, DriverType, MkfsIs
<1>3. FileInv'
  BY <1>1 DEF IInv, FileInv
<1>. QED  BY <1>2, <1>3 DEF IInv

LEMMA ReadingKept ==
    ASSUME IInv
    PROVE  /\ file \in Seq(Byte) /\ failures \in Nat
           /\ call.pc \in {"idle", "return"} => refs = 0
           /\ driver \in DriverType
  BY DEF IInv, CallInv, CallType, HeadsInv, StateInv, DriverType

\* The super block that a mount goes by.
LEMMA MountFacts ==
    ASSUME IInv, driver.pc \in Mounting
    PROVE  /\ SuperOK(Super) /\ Super.compression \in Names
           /\ Trusted => Honest(file, driver.owner, Super)
           /\ mkfs = "done" => Super = supers.new /\ Trusted
           /\ file # <<>> /\ Magic(file[1]) /\ mkfs \in Ended
           /\ driver.owner = file[1].owner /\ driver.owner \in {"new", "old"}
<1>1. /\ file # <<>> /\ Magic(file[1]) /\ mkfs \in Ended
      /\ driver.owner = file[1].owner /\ driver.owner \in {"new", "old"}
  BY DEF IInv, DriverInv, Mounting
<1>2. StateInv /\ FileInv /\ file \in Seq(Byte)
  BY DEF IInv, CallInv, CallType
<1>3. SuperOK(Super)
  BY <1>1, <1>2, SupersOK DEF Super
<1>4. Trusted => /\ Honest(file, driver.owner, Super)
                 /\ mkfs = "done" => driver.owner = "new"
  BY <1>1, <1>2, HonestFile DEF Super
<1>5. mkfs = "done" => Trusted
  BY DEF Trusted
<1>. QED  BY <1>1, <1>3, <1>4, <1>5 DEF Super, SuperOK

\* The first byte, which is the super block.
LEMMA SuperIsFirst ==
    ASSUME CallInv, Returned, call.offset = 0, call.length = 1
    PROVE  file # <<>> /\ call.buffer[1] = file[1]
<1>1. /\ call.pc = "return" /\ call.rc = call.length /\ file \in Seq(Byte)
      /\ DevBlock \in Nat \ {0} /\ IntEnd \in Nat \ {0}
  BY DeviceReadAssumption DEF Returned, CallIs, CallInv, CallType
<1>2. AsInt(0) = 0
  <2>1. 0 < 2 * IntEnd /\ (0 + IntEnd) % (2 * IntEnd) = IntEnd
    BY <1>1
  <2>. QED  BY <1>1, <2>1 DEF AsInt
<1>3. /\ 0 + 1 =< Len(file)
      /\ \A k \in 1..1 : call.buffer[k] = file[0 + k]
  <2>1. call.rc = call.length /\ 0 < call.length
    BY <1>1
  <2>2. /\ AsInt(call.offset) + call.length =< Len(file)
        /\ \A k \in 1..call.length :
              call.buffer[k] = file[AsInt(call.offset) + k]
    BY <1>1, <2>1 DEF CallInv, ReturnInv
  <2>. QED  BY <1>2, <2>2
<1>4. file # <<>>
  <2>1. Len(file) # 0
    BY <1>1, <1>3, LenProperties
  <2>. QED  BY <2>1
<1>5. call.buffer[1] = file[1]
  BY <1>3
<1>. QED  BY <1>4, <1>5

\* A part, or a range of one, that was asked for.
LEMMA PartRead ==
    ASSUME IInv, driver.pc \in Mounting, call.pc = "return",
           NEW part \in Contents, NEW from \in Nat,
           call.offset = Before(Super, part) + from,
           from + call.length =< PartSize(Super, part)
    PROVE  /\ Returned /\ Trusted => IsPart(part, from)
           /\ ~Returned /\ mkfs = "done" =>
                 \/ failures > 0
                 \/ Beyond(call.offset)
                 \/ image.no_padding /\ Len(file) % DevBlock # 0
<1>1. /\ SuperOK(Super)
      /\ Trusted => Honest(file, driver.owner, Super)
      /\ mkfs = "done" => Super = supers.new
      /\ file # <<>> /\ Magic(file[1])
  BY MountFacts
<1>2. StateInv /\ CallInv /\ FileInv
  BY DEF IInv
<1>3. ASSUME Returned, Trusted
      PROVE  IsPart(part, from)
  <2>1. call.rc = call.length
    BY <1>3 DEF Returned
  <2>2. Honest(file, driver.owner, Super)
    BY <1>1, <1>3
  <2>3. call.buffer = [k \in 1..call.length |->
              [owner |-> driver.owner, part |-> part, at |-> from + k]]
    BY <1>1, <1>2, <2>1, <2>2, ReadsPart
  <2>. QED  BY <2>3 DEF IsPart
<1>4. ASSUME ~Returned, mkfs = "done"
      PROVE  \/ failures > 0
             \/ Beyond(call.offset)
             \/ image.no_padding /\ Len(file) % DevBlock # 0
  <2>1. call.rc # call.length
    BY <1>4 DEF Returned, CallIs
  <2>2. PICK at \in Nat, size \in Nat, all \in Nat, length \in Nat :
           /\ at = Before(Super, part) /\ size = PartSize(Super, part)
           /\ all = ImageSize(Super) /\ at + size =< all
           /\ length = call.length
    <3>1. /\ Before(Super, part) \in Nat /\ PartSize(Super, part) \in Nat
          /\ Before(Super, part) + PartSize(Super, part) =< ImageSize(Super)
      BY <1>1, PartFacts
    <3>2. ImageSize(Super) \in Nat
      BY <1>1, SizeIsNat
    <3>3. call.length \in Nat
      BY <1>2, Fields DEF CallInv
    <3>. QED  BY <3>1, <3>2, <3>3
  <2>3. call.offset + call.length =< ImageSize(supers.new)
    <3>1. at + from + length =< all
      BY <2>2
    <3>. QED  BY <1>1, <1>4, <2>2, <3>1
  <2>. QED  BY <1>2, <1>4, <2>1, <2>3, RefusalExplained
<1>. QED  BY <1>3, <1>4

LEMMA MountStep ==
    ASSUME IInv, Mount
    PROVE  IInv'
<1>1. /\ driver.pc = "none" /\ mkfs \in Ended
      /\ driver' = [driver EXCEPT !.pc = "super"]
      /\ Call(0, 1) /\ UNCHANGED <<made, refs, failures>>
  BY DEF Mount, DriverIs
<1>2. driver.tables = "right" /\ driver.answer = "none" /\ call.pc = "idle"
  BY <1>1 DEF IInv, DriverInv, Reading
<1>3. /\ file \in Seq(Byte) /\ failures \in Nat /\ refs = 0
      /\ driver \in DriverType
  BY <1>2, ReadingKept
<1>4. /\ driver'.pc = "super" /\ driver'.tables = "right"
      /\ driver'.answer = "none" /\ driver' \in DriverType
  BY <1>1, <1>2, <1>3 DEF DriverType, DriverPcs
<1>5. /\ CallInv'
      /\ call'.pc = "data" /\ call'.offset = 0 /\ call'.length = 1
  BY <1>1, <1>3, CallBegins DEF made
<1>6. mkfs' = mkfs
  BY <1>1 DEF made
<1>7. DriverInv'
  BY <1>1, <1>4, <1>5, <1>6
     DEF DriverInv, Reading, Mounting, FailuresExplained
<1>. QED  BY <1>1, <1>4, <1>5, <1>7, DriverKeeps

\* The mount ends, and there is a reason for it.
LEMMA EndStep ==
    ASSUME IInv, UNCHANGED <<made, refs>>, failures' \in Nat,
           call.pc = "return", driver.pc \in {"super", "inodes", "blocks"},
           NEW pc \in {"refused", "crashed"},
           driver' = [driver EXCEPT !.pc = pc], call' = NoCall,
           FailuresExplained'
    PROVE  IInv'
<1>1. /\ file \in Seq(Byte) /\ refs = 0 /\ driver \in DriverType
  BY ReadingKept
<1>2. /\ driver'.pc = pc /\ driver'.tables = driver.tables
      /\ driver'.answer = driver.answer /\ driver' \in DriverType
  BY <1>1 DEF DriverType, DriverPcs
<1>3. CallInv' /\ call'.pc = "idle"
  BY <1>1, CallEnds DEF made
<1>4. mkfs' = mkfs /\ device' = device /\ mkfs \in Ended
  BY DEF made, IInv, DriverInv
<1>5. Trusted' <=> Trusted
  BY <1>4 DEF Trusted
<1>6. /\ Trusted => driver.tables = "right" /\ driver.answer # "wrong"
      /\ driver.answer = "none"
  BY DEF IInv, DriverInv
<1>7. DriverInv'
  BY <1>2, <1>3, <1>4, <1>5, <1>6 DEF DriverInv, Reading, Mounting
<1>. QED  BY <1>2, <1>3, <1>7, DriverKeeps

LEMMA MountFailsStep ==
    ASSUME IInv, MountFails
    PROVE  IInv'
<1>1. /\ driver.pc \in {"super", "inodes"} /\ call.pc = "return"
      /\ failures' = failures + 1 /\ UNCHANGED <<made, refs>>
      /\ driver' = [driver EXCEPT !.pc = "refused"] /\ call' = NoCall
  BY DEF MountFails, CallIs, Fail, Refuse
<1>2. failures \in Nat
  BY ReadingKept
<1>3. failures' > 0
  BY <1>1, <1>2
<1>4. FailuresExplained'
  BY <1>3 DEF FailuresExplained
<1>5. failures' \in Nat
  BY <1>1, <1>2
<1>. QED  BY <1>1, <1>4, <1>5, EndStep

LEMMA ReadSuperStep ==
    ASSUME IInv, ReadSuper
    PROVE  IInv'
<1>1. /\ driver.pc = "super" /\ call.pc = "return"
      /\ UNCHANGED <<made, refs, failures>>
  BY DEF ReadSuper, DriverIs, CallIs
<1>2. /\ file \in Seq(Byte) /\ failures \in Nat /\ refs = 0
      /\ driver \in DriverType
  BY <1>1, ReadingKept
<1>3. /\ StateInv /\ CallInv /\ FileInv /\ DriverInv
      /\ call.offset = 0 /\ call.length = 1 /\ mkfs \in Ended
      /\ driver.answer = "none"
      /\ Trusted => driver.tables = "right"
  BY <1>1 DEF IInv, DriverInv
<1>4. SuperOK(supers.new)
  BY <1>3 DEF StateInv
<1>5. /\ file' = file /\ image' = image /\ device' = device
      /\ supers' = supers /\ mkfs' = mkfs /\ failures' = failures
  BY <1>1 DEF made
<1>6. CASE Returned /\ Magic(call.buffer[1])
  <2>1. file # <<>> /\ call.buffer[1] = file[1] /\ Magic(file[1])
    BY <1>3, <1>6, SuperIsFirst
  <2>2. PICK owner \in {"new", "old"} : owner = file[1].owner
    BY <1>2, <2>1, MagicOwner
  <2>3. PICK sb : sb = supers[owner]
    OBVIOUS
  <2>4. SuperOK(sb)
    BY <1>3, <2>3, SupersOK
  <2>5. mkfs = "done" => owner = "new" /\ sb = supers.new
    <3>1. mkfs = "done" => Trusted
      BY DEF Trusted
    <3>. QED  BY <1>2, <1>3, <2>1, <2>2, <2>3, <3>1, HonestFile
  <2>6. CASE sb.inodes_size > MaxKmalloc \/ sb.blocks_size > MaxKmalloc
    <3>1. driver' = [driver EXCEPT !.pc = "refused"] /\ call' = NoCall
      BY <1>6, <2>1, <2>2, <2>3, <2>6 DEF ReadSuper, Refuse
    <3>2. FailuresExplained'
      BY <1>5, <2>5, <2>6 DEF FailuresExplained, MkfsIs
    <3>. QED  BY <1>1, <1>2, <1>5, <3>1, <3>2, EndStep
  <2>7. CASE ~(sb.inodes_size > MaxKmalloc \/ sb.blocks_size > MaxKmalloc)
    <3>1. /\ driver' = [driver EXCEPT !.pc = "inodes", !.owner = owner]
          /\ Call(sb.inodes_offset, sb.inodes_csize)
      BY <1>6, <2>1, <2>2, <2>3, <2>7 DEF ReadSuper
    <3>2. /\ driver'.pc = "inodes" /\ driver'.owner = owner
          /\ driver'.answer = "none" /\ driver'.tables = driver.tables
          /\ driver' \in DriverType
      BY <1>2, <1>3, <3>1 DEF DriverType, DriverPcs
    <3>3. sb.inodes_offset \in Nat /\ sb.inodes_csize \in Nat
      BY <2>4 DEF SuperOK
    <3>4. /\ CallInv' /\ call'.pc = "data"
          /\ call'.offset = sb.inodes_offset
          /\ call'.length = sb.inodes_csize
      BY <1>1, <1>2, <1>5, <3>1, <3>3, CallBegins
    <3>5. Super' = sb
      BY <1>5, <2>3, <3>2 DEF Super
    <3>6. FailuresExplained'
      BY <3>2 DEF FailuresExplained
    <3>7. Trusted' => driver'.tables = "right" /\ driver'.answer # "wrong"
      BY <1>3, <1>5, <3>2 DEF Trusted
    <3>8. DriverInv'
      BY <1>3, <1>5, <2>1, <2>2, <3>2, <3>4, <3>5, <3>6, <3>7
         DEF DriverInv, Reading, Mounting
    <3>. QED  BY <1>1, <3>2, <3>4, <3>8, DriverKeeps
  <2>. QED  BY <2>6, <2>7
<1>7. CASE ~(Returned /\ Magic(call.buffer[1]))
  <2>1. driver' = [driver EXCEPT !.pc = "refused"] /\ call' = NoCall
    BY <1>7 DEF ReadSuper, Refuse
  <2>2. ASSUME mkfs = "done"
        PROVE  \/ failures > 0
               \/ image.no_padding /\ Len(file) % DevBlock # 0
    <3>1. CASE Returned
      <4>1. file # <<>> /\ call.buffer[1] = file[1]
        BY <1>3, <3>1, SuperIsFirst
      <4>2. file[1] = [owner |-> "new", part |-> "super", at |-> 1]
        <5>1. PICK all \in Nat : all = ImageSize(supers.new) /\ all >= 1
          BY <1>4, SizeIsNat
        <5>2. \A k \in 1..all : file[k] = Whole("new", supers.new)[k]
          BY <1>3, <2>2, <5>1 DEF FileInv, StartsWith
        <5>3. Whole("new", supers.new)[1]
                 = [owner |-> "new", part |-> "super", at |-> 1]
          BY <1>4, WholeFacts
        <5>. QED  BY <5>1, <5>2, <5>3
      <4>3. Magic(file[1])
        BY <4>2 DEF Magic
      <4>. QED  BY <1>7, <3>1, <4>1, <4>3
    <3>2. CASE ~Returned
      <4>1. call.rc # call.length
        BY <1>1, <3>2 DEF Returned, CallIs
      <4>2. call.offset + call.length =< ImageSize(supers.new)
        BY <1>3, <1>4, SizeIsNat
      <4>3. ~Beyond(call.offset)
        BY <1>3, DeviceReadAssumption DEF Beyond
      <4>. QED  BY <1>1, <1>3, <2>2, <4>1, <4>2, <4>3, RefusalExplained
    <3>. QED  BY <3>1, <3>2
  <2>3. FailuresExplained'
    BY <1>5, <2>2 DEF FailuresExplained, MkfsIs
  <2>. QED  BY <1>1, <1>2, <1>5, <2>1, <2>3, EndStep
<1>. QED  BY <1>6, <1>7

LEMMA ReadInodesStep ==
    ASSUME IInv, ReadInodes
    PROVE  IInv'
<1>1. /\ driver.pc = "inodes" /\ call.pc = "return"
      /\ UNCHANGED <<made, refs, failures>>
  BY DEF ReadInodes, DriverIs, CallIs
<1>2. /\ file \in Seq(Byte) /\ failures \in Nat /\ refs = 0
      /\ driver \in DriverType
  BY <1>1, ReadingKept
<1>3. /\ call.offset = Super.inodes_offset /\ call.length = Super.inodes_csize
      /\ driver.answer = "none" /\ StateInv
  BY <1>1 DEF IInv, DriverInv
<1>4. /\ SuperOK(Super) /\ Super.compression \in Names
      /\ mkfs = "done" => Super = supers.new /\ Trusted
      /\ file # <<>> /\ Magic(file[1]) /\ mkfs \in Ended
      /\ driver.owner = file[1].owner /\ driver.owner \in {"new", "old"}
  BY <1>1, MountFacts DEF Mounting
<1>5. /\ file' = file /\ image' = image /\ device' = device
      /\ supers' = supers /\ mkfs' = mkfs /\ failures' = failures
  BY <1>1 DEF made
<1>6. PICK sb : sb = Super
  OBVIOUS
<1>7. /\ Returned /\ Trusted => IsPart("inodes", 0)
      /\ ~Returned /\ mkfs = "done" =>
            \/ failures > 0
            \/ Beyond(call.offset)
            \/ image.no_padding /\ Len(file) % DevBlock # 0
  <2>1. "inodes" \in Contents /\ driver.pc \in Mounting /\ 0 \in Nat
    BY <1>1 DEF Contents, Parts, Mounting
  <2>2. call.length \in Nat
    BY <1>3, <1>4 DEF SuperOK
  <2>3. /\ call.offset = Before(Super, "inodes") + 0
        /\ 0 + call.length =< PartSize(Super, "inodes")
    BY <1>3, <1>4, <2>2, PartPlaces DEF SuperOK
  <2>. QED  BY <1>1, <2>1, <2>3, PartRead
<1>8. CASE ~Returned
  <2>1. driver' = [driver EXCEPT !.pc = "refused"] /\ call' = NoCall
    BY <1>8 DEF ReadInodes, Refuse
  <2>2. FailuresExplained'
    BY <1>3, <1>4, <1>5, <1>7, <1>8 DEF FailuresExplained, MkfsIs
  <2>. QED  BY <1>1, <1>2, <1>5, <2>1, <2>2, EndStep
<1>9. CASE Returned
  <2>1. PICK outcome \in driver_uncompress(Super.compression,
                                           IsPart("inodes", 0)) :
          CASE outcome = "fails" -> Refuse
            [] outcome = "crashes" ->
                  /\ driver' = [driver EXCEPT !.pc = "crashed"]
                  /\ call' = NoCall
            [] OTHER ->
                  /\ driver' = [driver EXCEPT !.pc = "blocks",
                                              !.tables = outcome]
                  /\ Call(Super.blocks_offset, Super.blocks_size)
    BY <1>9 DEF ReadInodes
  <2>2. /\ outcome \in Outcomes
        /\ IsPart("inodes", 0) => outcome # "wrong"
        /\ IsPart("inodes", 0) /\ outcome \in {"fails", "crashes"} =>
              Super.compression \in {"lzma", "xz"}
    <3>1. IsPart("inodes", 0) \in BOOLEAN
      BY DEF IsPart
    <3>. QED  BY <1>4, <3>1, DriverUncompress
  <2>3. CASE outcome \in {"fails", "crashes"}
    <3>1. PICK pc \in {"refused", "crashed"} :
             driver' = [driver EXCEPT !.pc = pc] /\ call' = NoCall
      <4>1. CASE outcome = "fails"
        BY <2>1, <4>1 DEF Refuse
      <4>2. CASE outcome = "crashes"
        BY <2>1, <4>2
      <4>. QED  BY <2>3, <4>1, <4>2
    <3>2. mkfs = "done" => supers.new.compression \in {"lzma", "xz"}
      BY <1>4, <1>7, <1>9, <2>2, <2>3
    <3>3. FailuresExplained'
      BY <1>5, <3>2 DEF FailuresExplained, MkfsIs
    <3>. QED  BY <1>1, <1>2, <1>5, <3>1, <3>3, EndStep
  <2>4. CASE outcome \notin {"fails", "crashes"}
    <3>1. /\ driver' = [driver EXCEPT !.pc = "blocks", !.tables = outcome]
          /\ Call(sb.blocks_offset, sb.blocks_size)
      BY <1>6, <2>1, <2>4
    <3>2. /\ driver'.pc = "blocks" /\ driver'.owner = driver.owner
          /\ driver'.answer = "none" /\ driver'.tables = outcome
          /\ driver' \in DriverType
      BY <1>2, <1>3, <2>2, <2>4, <3>1 DEF DriverType, DriverPcs, Outcomes
    <3>3. sb.blocks_offset \in Nat /\ sb.blocks_size \in Nat
      BY <1>4, <1>6 DEF SuperOK
    <3>4. /\ CallInv' /\ call'.pc = "data"
          /\ call'.offset = sb.blocks_offset
          /\ call'.length = sb.blocks_size
      BY <1>1, <1>2, <1>5, <3>1, <3>3, CallBegins
    <3>5. Super' = sb
      BY <1>5, <1>6, <3>2 DEF Super
    <3>6. FailuresExplained'
      BY <3>2 DEF FailuresExplained
    <3>7. Trusted' => driver'.tables = "right" /\ driver'.answer # "wrong"
      <4>1. Trusted => outcome = "right"
        BY <1>7, <1>9, <2>2, <2>4 DEF Outcomes
      <4>. QED  BY <1>5, <3>2, <4>1 DEF Trusted
    <3>8. DriverInv'
      BY <1>4, <1>5, <3>2, <3>4, <3>5, <3>6, <3>7
         DEF DriverInv, Reading, Mounting
    <3>. QED  BY <1>1, <3>2, <3>4, <3>8, DriverKeeps
  <2>. QED  BY <2>3, <2>4
<1>. QED  BY <1>8, <1>9

LEMMA ReadBlocksTableStep ==
    ASSUME IInv, ReadBlocksTable
    PROVE  IInv'
<1>1. /\ driver.pc = "blocks" /\ call.pc = "return"
      /\ UNCHANGED <<made, refs, failures>>
  BY DEF ReadBlocksTable, DriverIs, CallIs
<1>2. /\ file \in Seq(Byte) /\ failures \in Nat /\ refs = 0
      /\ driver \in DriverType
  BY <1>1, ReadingKept
<1>3. /\ call.offset = Super.blocks_offset /\ call.length = Super.blocks_size
      /\ driver.answer = "none" /\ (Trusted => driver.tables = "right")
  BY <1>1 DEF IInv, DriverInv
<1>4. /\ SuperOK(Super)
      /\ mkfs = "done" => Super = supers.new /\ Trusted
      /\ file # <<>> /\ Magic(file[1]) /\ mkfs \in Ended
      /\ driver.owner = file[1].owner /\ driver.owner \in {"new", "old"}
  BY <1>1, MountFacts DEF Mounting
<1>5. /\ file' = file /\ image' = image /\ device' = device
      /\ supers' = supers /\ mkfs' = mkfs /\ failures' = failures
  BY <1>1 DEF made
<1>6. /\ Returned /\ Trusted => IsPart("blocks", 0)
      /\ ~Returned /\ mkfs = "done" =>
            \/ failures > 0
            \/ Beyond(call.offset)
            \/ image.no_padding /\ Len(file) % DevBlock # 0
  <2>1. "blocks" \in Contents /\ driver.pc \in Mounting /\ 0 \in Nat
    BY <1>1 DEF Contents, Parts, Mounting
  <2>2. /\ call.length \in Nat /\ Super.inodes_csize \in Nat
    BY <1>3, <1>4 DEF SuperOK
  <2>3. /\ call.offset = Before(Super, "blocks") + 0
        /\ 0 + call.length =< PartSize(Super, "blocks")
    BY <1>3, <1>4, <2>2, PartPlaces DEF SuperOK
  <2>. QED  BY <1>1, <2>1, <2>3, PartRead
<1>7. CASE ~Returned
  <2>1. driver' = [driver EXCEPT !.pc = "refused"] /\ call' = NoCall
    BY <1>7 DEF ReadBlocksTable, Refuse
  <2>2. FailuresExplained'
    BY <1>3, <1>4, <1>5, <1>6, <1>7 DEF FailuresExplained, MkfsIs
  <2>. QED  BY <1>1, <1>2, <1>5, <2>1, <2>2, EndStep
<1>8. CASE Returned
  <2>1. /\ driver' = [driver EXCEPT !.pc = "mounted",
               !.tables = IF IsPart("blocks", 0) THEN @ ELSE "wrong"]
        /\ call' = NoCall
    BY <1>8 DEF ReadBlocksTable
  <2>2. /\ driver'.pc = "mounted" /\ driver'.owner = driver.owner
        /\ driver'.answer = "none"
        /\ driver'.tables = IF IsPart("blocks", 0) THEN driver.tables
                            ELSE "wrong"
        /\ driver' \in DriverType
    <3>1. driver.tables \in {"right", "wrong"}
      BY <1>2 DEF DriverType
    <3>2. PICK tables \in {"right", "wrong"} :
             tables = IF IsPart("blocks", 0) THEN driver.tables ELSE "wrong"
      BY <3>1
    <3>3. driver' = [driver EXCEPT !.pc = "mounted", !.tables = tables]
      BY <1>2, <2>1, <3>2 DEF DriverType
    <3>. QED  BY <1>2, <1>3, <3>2, <3>3 DEF DriverType, DriverPcs
  <2>3. CallInv' /\ call'.pc = "idle"
    BY <1>1, <1>2, <1>5, <2>1, CallEnds
  <2>4. FailuresExplained'
    BY <2>2 DEF FailuresExplained
  <2>5. Trusted' => driver'.tables = "right" /\ driver'.answer # "wrong"
    <3>1. Trusted => IsPart("blocks", 0) /\ driver.tables = "right"
      BY <1>3, <1>6, <1>8
    <3>. QED  BY <1>5, <2>2, <3>1 DEF Trusted
  <2>6. DriverInv'
    BY <1>4, <1>5, <2>2, <2>3, <2>4, <2>5 DEF DriverInv, Reading, Mounting
  <2>. QED  BY <1>1, <2>2, <2>3, <2>6, DriverKeeps
<1>. QED  BY <1>7, <1>8

LEMMA ReadBlockStep ==
    ASSUME IInv, ReadBlock
    PROVE  IInv'
<1>1. /\ driver.pc = "mounted" /\ UNCHANGED <<made, refs, failures>>
      /\ driver.tables = "right"
  BY DEF ReadBlock, DriverIs
<1>2. call.pc = "idle"
  <2>1. call.pc # "idle" <=> driver.pc \in Reading
    BY DEF IInv, DriverInv
  <2>. QED  BY <1>1, <2>1 DEF Reading
<1>3. /\ file \in Seq(Byte) /\ failures \in Nat /\ refs = 0
      /\ driver \in DriverType
  BY <1>2, ReadingKept
<1>4. /\ SuperOK(Super) /\ file # <<>> /\ Magic(file[1]) /\ mkfs \in Ended
      /\ driver.owner = file[1].owner /\ driver.owner \in {"new", "old"}
  BY <1>1, MountFacts DEF Mounting
<1>5. file' = file /\ supers' = supers /\ mkfs' = mkfs /\ failures' = failures
  BY <1>1 DEF made
<1>6. PICK sb, b : /\ sb = Super /\ b \in DOMAIN sb.table
                  /\ driver' = [driver EXCEPT !.pc = "block", !.block = b,
                                              !.answer = "none"]
                  /\ Call(sb.entries_offset + sb.table[b].offset,
                          sb.table[b].size)
  BY DEF ReadBlock, BlockOffset
<1>7. /\ b \in Nat /\ b > 0 /\ sb.entries_offset \in Nat
      /\ sb.table[b].offset \in Nat /\ sb.table[b].size \in Nat
  <2>1. /\ sb.table \in Seq(Block) /\ sb.inodes_csize \in Nat
        /\ sb.blocks_size \in Nat
        /\ sb.entries_offset = 1 + sb.inodes_csize + sb.blocks_size
    BY <1>4, <1>6 DEF SuperOK
  <2>2. b \in 1..Len(sb.table) /\ Len(sb.table) \in Nat
    BY <1>6, <2>1, LenProperties
  <2>3. sb.table[b] \in Block
    BY <2>1, <2>2, ElementOfSeq
  <2>4. sb.table[b].offset \in Nat /\ sb.table[b].size \in Nat
    BY <2>3 DEF Block
  <2>5. b \in Nat /\ b > 0
    BY <2>2
  <2>6. sb.entries_offset \in Nat
    BY <2>1
  <2>. QED  BY <2>4, <2>5, <2>6
<1>8. /\ driver'.pc = "block" /\ driver'.owner = driver.owner
      /\ driver'.answer = "none" /\ driver'.tables = "right"
      /\ driver'.block = b /\ driver' \in DriverType
  BY <1>1, <1>3, <1>6, <1>7 DEF DriverType, DriverPcs
<1>9. /\ CallInv' /\ call'.pc = "data"
      /\ call'.offset = sb.entries_offset + sb.table[b].offset
      /\ call'.length = sb.table[b].size
  <2>1. PICK offset \in Nat, length \in Nat :
           /\ offset = sb.entries_offset + sb.table[b].offset
           /\ length = sb.table[b].size
    BY <1>7
  <2>2. Call(offset, length)
    BY <1>6, <2>1
  <2>3. /\ CallInv' /\ call'.pc = "data"
        /\ call'.offset = offset /\ call'.length = length
    BY <1>1, <1>3, <1>5, <2>2, CallBegins
  <2>. QED  BY <2>1, <2>3
<1>10. Super' = sb
  BY <1>5, <1>6, <1>8 DEF Super
<1>11. FailuresExplained'
  BY <1>8 DEF FailuresExplained
<1>12. DriverInv'
  BY <1>4, <1>5, <1>6, <1>7, <1>8, <1>9, <1>10, <1>11
     DEF DriverInv, Reading, Mounting, BlockOffset
<1>. QED  BY <1>1, <1>8, <1>9, <1>12, DriverKeeps

LEMMA BlockReadStep ==
    ASSUME IInv, BlockRead
    PROVE  IInv'
<1>1. /\ driver.pc = "block" /\ call.pc = "return" /\ call' = NoCall
      /\ UNCHANGED <<made, refs, failures>>
  BY DEF BlockRead, DriverIs, CallIs
<1>2. /\ file \in Seq(Byte) /\ failures \in Nat /\ refs = 0
      /\ driver \in DriverType
  BY <1>1, ReadingKept
<1>3. /\ SuperOK(Super) /\ Super.compression \in Names
      /\ mkfs = "done" => Super = supers.new /\ Trusted
      /\ file # <<>> /\ Magic(file[1]) /\ mkfs \in Ended
      /\ driver.owner = file[1].owner /\ driver.owner \in {"new", "old"}
  BY <1>1, MountFacts DEF Mounting
<1>4. /\ file' = file /\ image' = image /\ device' = device
      /\ supers' = supers /\ mkfs' = mkfs /\ failures' = failures
  BY <1>1 DEF made
<1>5. /\ driver.block \in DOMAIN Super.table /\ driver.block > 0
      /\ call.offset = Super.entries_offset + BlockOffset(driver.block)
      /\ call.length = Super.table[driver.block].size
      /\ Trusted => driver.tables = "right"
  BY <1>1 DEF IInv, DriverInv
<1>6. PICK from : from = BlockOffset(driver.block)
  OBVIOUS
<1>7. /\ from \in Nat /\ call.length \in Nat
      /\ from + call.length =< Super.length
  <2>1. /\ Super.table \in Seq(Block)
        /\ Super.table[driver.block].offset
               + Super.table[driver.block].size =< Super.length
    BY <1>3, <1>5 DEF SuperOK
  <2>2. driver.block \in 1..Len(Super.table)
    BY <1>5, <2>1, LenProperties
  <2>3. Super.table[driver.block] \in Block
    BY <2>1, <2>2, ElementOfSeq
  <2>. QED  BY <1>5, <1>6, <2>1, <2>3 DEF Block, BlockOffset
<1>8. /\ Returned /\ Trusted => IsPart("entries", from)
      /\ ~Returned /\ mkfs = "done" =>
            \/ failures > 0
            \/ Beyond(call.offset)
            \/ image.no_padding /\ Len(file) % DevBlock # 0
  <2>1. "entries" \in Contents /\ driver.pc \in Mounting
    BY <1>1 DEF Contents, Parts, Mounting
  <2>2. /\ call.offset = Before(Super, "entries") + from
        /\ from + call.length =< PartSize(Super, "entries")
    BY <1>3, <1>5, <1>6, <1>7, PartPlaces DEF SuperOK
  <2>. QED  BY <1>1, <1>7, <2>1, <2>2, PartRead
<1>9. PICK outcome :
        /\ outcome \in IF Returned
                       THEN driver_uncompress(Super.compression,
                                              IsPart("entries", from))
                       ELSE {"fails"}
        /\ driver' = [driver EXCEPT !.pc = "mounted", !.answer = outcome]
  BY <1>6 DEF BlockRead
<1>10. /\ outcome \in Outcomes
       /\ Trusted => outcome # "wrong"
       /\ Returned /\ Trusted /\ outcome \in {"fails", "crashes"} =>
             Super.compression \in {"lzma", "xz"}
  <2>1. CASE Returned
    <3>1. IsPart("entries", from) \in BOOLEAN
      BY DEF IsPart
    <3>2. outcome \in driver_uncompress(Super.compression,
                                        IsPart("entries", from))
      BY <1>9, <2>1
    <3>3. /\ outcome \in Outcomes
          /\ IsPart("entries", from) => outcome # "wrong"
          /\ IsPart("entries", from) /\ outcome \in {"fails", "crashes"} =>
                Super.compression \in {"lzma", "xz"}
      BY <1>3, <3>1, <3>2, DriverUncompress
    <3>. QED  BY <1>8, <2>1, <3>3
  <2>2. CASE ~Returned
    BY <1>9, <2>2 DEF Outcomes
  <2>. QED  BY <2>1, <2>2
<1>11. /\ driver'.pc = "mounted" /\ driver'.owner = driver.owner
       /\ driver'.answer = outcome /\ driver'.tables = driver.tables
       /\ driver'.block = driver.block /\ driver' \in DriverType
  BY <1>2, <1>9, <1>10 DEF DriverType, DriverPcs
<1>12. CallInv' /\ call'.pc = "idle"
  BY <1>1, <1>2, <1>4, CallEnds
<1>13. FailuresExplained'
  <2>1. SUFFICES ASSUME mkfs = "done", outcome \in {"fails", "crashes"}
                 PROVE  \/ failures > 0
                        \/ supers.new.compression \in {"lzma", "xz"}
                        \/ Beyond(supers.new.entries_offset + from)
                        \/ image.no_padding /\ Len(file) % DevBlock # 0
    <3>1. (BlockOffset(driver.block))' = from
      BY <1>4, <1>6, <1>11 DEF BlockOffset, Super
    <3>. QED  BY <1>4, <1>5, <1>11, <3>1 DEF FailuresExplained, MkfsIs, Beyond
  <2>. QED  BY <1>3, <1>5, <1>6, <1>8, <1>10, <2>1
<1>14. Trusted' => driver'.tables = "right" /\ driver'.answer # "wrong"
  BY <1>4, <1>5, <1>10, <1>11 DEF Trusted
<1>15. DriverInv'
  BY <1>3, <1>4, <1>11, <1>12, <1>13, <1>14 DEF DriverInv, Reading, Mounting
<1>. QED  BY <1>1, <1>11, <1>12, <1>15, DriverKeeps

LEMMA CallStep ==
    ASSUME IInv, smashfs_read, UNCHANGED <<image, device, supers, mkfs, driver>>
    PROVE  IInv'
<1>1. StateInv /\ CallInv /\ FileInv /\ DriverInv
  BY DEF IInv
<1>2. CallInv' /\ SameCall /\ failures' >= failures
  BY <1>1, ReadStep
<1>3. /\ file' = file /\ call.pc # "idle" /\ call'.pc # "idle"
      /\ call'.offset = call.offset /\ call'.length = call.length
      /\ image' = image /\ device' = device /\ supers' = supers
      /\ mkfs' = mkfs /\ driver' = driver
  BY <1>2 DEF SameCall
<1>4. failures \in Nat /\ failures' \in Nat
  BY <1>1, <1>2 DEF CallInv, CallType
<1>5. FailuresExplained
  BY <1>1 DEF DriverInv
<1>6. FailuresExplained'
  <2>1. failures > 0 => failures' > 0
    BY <1>2, <1>4
  <2>2. \A b : BlockOffset(b)' = BlockOffset(b)
    BY <1>3 DEF BlockOffset, Super
  <2>. QED  BY <1>3, <1>5, <2>1, <2>2
            DEF FailuresExplained, MkfsIs, Beyond, BlockOffset, Super
<1>7. DriverInv'
  BY <1>1, <1>3, <1>6 DEF DriverInv, Super, BlockOffset, Trusted
<1>8. driver' \in DriverType
  BY <1>3, ReadingKept
<1>9. UNCHANGED made
  BY <1>3 DEF made
<1>. QED  BY <1>2, <1>7, <1>8, <1>9, DriverKeeps

-----------------------------------------------------------------------------
(***************************************************************************)
(* The invariant                                                           *)
(***************************************************************************)
LEMMA NothingRead ==
    ASSUME call = NoCall, refs = 0, failures = 0, file \in Seq(Byte)
    PROVE  CallInv
<1>1. call = [pc |-> "idle", offset |-> 0, length |-> 0, b |-> 0,
              i |-> 0, left |-> 0, in |-> 0, index |-> 0, page |-> 0,
              pageoff |-> 0, buffer |-> <<>>, rc |-> 0]
  BY DEF NoCall
<1>2. CallType
  BY <1>1 DEF CallType, CallPcs
<1>3. HeadsInv
  BY <1>1 DEF HeadsInv
<1>4. PlaceInv
  BY <1>1, DeviceReadAssumption DEF PlaceInv
<1>5. ReturnInv
  BY <1>1 DEF ReturnInv
<1>. QED  BY <1>2, <1>3, <1>4, <1>5 DEF CallInv

LEMMA InitIInv ==
    ASSUME Init
    PROVE  IInv
<1>1. PICK target \in Targets :
         /\ file = target.bytes /\ device = target.device
         /\ supers = [new |-> NoSuper,
                      old |-> SuperBlock(target.image, target.csize)]
  BY DEF Init
<1>2. /\ image \in NewImages /\ mkfs = "compress"
      /\ driver = [pc |-> "none", owner |-> "none", tables |-> "right",
                   block |-> 0, answer |-> "none"]
      /\ call = NoCall /\ refs = 0 /\ failures = 0
  BY DEF Init
<1>3. /\ target.bytes \in Seq(Byte) /\ target.device \in BOOLEAN
      /\ ImageOK(target.image) /\ target.csize \in 0..target.image.inodes
      /\ Honest(target.bytes, "old", SuperBlock(target.image, target.csize))
  BY <1>1, ImagesAssumption DEF TargetOK
<1>4. SuperOK(SuperBlock(target.image, target.csize))
  <2>1. target.image.inodes \in Nat
    BY <1>3 DEF ImageOK
  <2>2. target.csize \in Nat /\ target.csize =< target.image.inodes
    BY <1>3, <2>1
  <2>. QED  BY <1>3, <2>2, SuperBlockOK DEF ImageOK
<1>5. StateInv
  BY <1>1, <1>2, <1>3, <1>4, NoSuperOK
     DEF StateInv, DriverPcs, Outcomes, MkfsIs
<1>6. CallInv
  BY <1>1, <1>2, <1>3, NothingRead
<1>7. FileInv
  BY <1>1, <1>2, <1>3 DEF FileInv, Parts
<1>8. DriverInv
  BY <1>2 DEF DriverInv, Reading, Mounting, FailuresExplained, NoCall
<1>. QED  BY <1>5, <1>6, <1>7, <1>8 DEF IInv

LEMMA StutterIInv ==
    ASSUME IInv, UNCHANGED vars
    PROVE  IInv'
<1>1. /\ file' = file /\ call' = call /\ refs' = refs
      /\ failures' = failures /\ image' = image /\ device' = device
      /\ supers' = supers /\ mkfs' = mkfs /\ driver' = driver
  BY DEF vars
<1>2. StateInv'
  BY <1>1 DEF IInv, StateInv, MkfsIs
<1>3. CallType'
  BY <1>1 DEF IInv, CallInv, CallType
<1>4. HeadsInv'
  BY <1>1 DEF IInv, CallInv, HeadsInv, MoreBlocks
<1>5. PlaceInv'
  BY <1>1 DEF IInv, CallInv, PlaceInv, Moved
<1>6. ReturnInv'
  BY <1>1 DEF IInv, CallInv, ReturnInv
<1>7. FileInv'
  BY <1>1 DEF IInv, FileInv
<1>8. FailuresExplained'
  <2>1. \A b : BlockOffset(b)' = BlockOffset(b)
    BY <1>1 DEF BlockOffset, Super
  <2>. QED  BY <1>1, <2>1 DEF IInv, DriverInv, FailuresExplained, MkfsIs, Beyond,
                BlockOffset, Super
<1>9. DriverInv'
  BY <1>1, <1>8 DEF IInv, DriverInv, Super, BlockOffset, Trusted
<1>. QED  BY <1>2, <1>3, <1>4, <1>5, <1>6, <1>7, <1>9 DEF IInv, CallInv

\* The inductive invariant: what a call of smashfs_read has got, copied and
\* still holds (CallInv); what the file holds of the image that is being
\* written, or was (FileInv); and what the driver has believed of it
\* (DriverInv).
THEOREM Invariance == Spec => []IInv
<1>1. Init => IInv
  BY InitIInv
<1>2. IInv /\ [Next]_vars => IInv'
  <2>. SUFFICES ASSUME IInv, [Next]_vars
                PROVE  IInv'
    OBVIOUS
  <2>1. CASE CompressInodes
    BY <2>1, CompressInodesStep
  <2>2. CASE OpenOutput
    BY <2>2, OpenOutputStep
  <2>3. CASE MkfsFails
    BY <2>3, MkfsFailsStep
  <2>4. CASE \E part \in Parts : WritePart(part) \/ WriteShort(part)
    BY <2>4, WritePartStep, WriteShortStep
  <2>5. CASE Mount
    BY <2>5, MountStep
  <2>6. CASE ReadSuper
    BY <2>6, ReadSuperStep
  <2>7. CASE ReadInodes
    BY <2>7, ReadInodesStep
  <2>8. CASE ReadBlocksTable
    BY <2>8, ReadBlocksTableStep
  <2>9. CASE MountFails
    BY <2>9, MountFailsStep
  <2>10. CASE ReadBlock
    BY <2>10, ReadBlockStep
  <2>11. CASE BlockRead
    BY <2>11, BlockReadStep
  <2>12. CASE smashfs_read /\ UNCHANGED <<image, device, supers, mkfs, driver>>
    BY <2>12, CallStep
  <2>13. CASE UNCHANGED vars
    BY <2>13, StutterIInv
  <2>. QED
    BY <2>1, <2>2, <2>3, <2>4, <2>5, <2>6, <2>7, <2>8, <2>9, <2>10, <2>11,
       <2>12, <2>13 DEF Next
<1>. QED  BY <1>1, <1>2, PTL DEF Spec

-----------------------------------------------------------------------------
(***************************************************************************)
(* What unfs reads                                                         *)
(***************************************************************************)
LEMMA PartIsThere ==
    ASSUME file \in Seq(Byte), file # <<>>, Magic(file[1]), NEW owner, NEW sb,
           SuperOK(sb), Honest(file, owner, sb), NEW part \in Contents,
           CanRead(Before(sb, part), PartSize(sb, part))
    PROVE  IsThere(owner, part, Before(sb, part), PartSize(sb, part))
<1>1. PICK at \in Nat, size \in Nat :
         at = Before(sb, part) /\ size = PartSize(sb, part)
  BY PartFacts
<1>2. at + size =< Len(file) /\ Len(file) \in Nat
  BY <1>1, LenProperties DEF CanRead
<1>3. \A k \in 1..size : file[at + k] =
         [owner |-> owner, part |-> part, at |-> k]
  <2>1. /\ 0 + size =< PartSize(sb, part)
        /\ Before(sb, part) + 0 + size =< Len(file)
    BY <1>1, <1>2
  <2>2. \A k \in 1..size : file[Before(sb, part) + 0 + k] =
           [owner |-> owner, part |-> part, at |-> 0 + k]
    BY <1>1, <2>1, HonestPart
  <2>. QED  BY <1>1, <2>2
<1>4. SubSeq(file, at + 1, at + size) = [k \in 1..size |-> file[at + k]]
  <2>1. \A i \in (at + 1)..(at + size) : file[i] \in Byte
    <3>1. ASSUME NEW i \in (at + 1)..(at + size)
          PROVE  i \in 1..Len(file)
      BY <1>2
    <3>. QED  BY <3>1, ElementOfSeq
  <2>. QED  BY <2>1, Slice
<1>5. SubSeq(file, at + 1, at + size) = Bytes(owner, part, size)
  BY <1>3, <1>4 DEF Bytes
<1>. QED  BY <1>1, <1>5 DEF IsThere

\* A file that can be trusted comes out as it is or not at all; and as it is,
\* when all of it is there.
LEMMA UnfsReads ==
    ASSUME StateInv, FileInv, file \in Seq(Byte), Trusted, mkfs \in Ended
    PROVE  /\ UnfsOutcomes \in {{"fails"}, {"right"}}
           /\ mkfs = "done" => UnfsOutcomes = {"right"}
<1>1. Head(file) = file[1]
  BY DEF Head
<1>2. CASE file = <<>> \/ ~Magic(Head(file))
  <2>1. UnfsOutcomes = {"fails"}
    BY <1>2 DEF UnfsOutcomes
  <2>2. ASSUME mkfs = "done"
        PROVE  FALSE
    <3>1. SuperOK(supers.new)
      BY DEF StateInv
    <3>2. PICK all \in Nat : all = ImageSize(supers.new) /\ all >= 1
      BY <3>1, SizeIsNat
    <3>3. /\ all =< Len(file)
          /\ \A k \in 1..all : file[k] = Whole("new", supers.new)[k]
      BY <2>2, <3>2 DEF FileInv, StartsWith
    <3>4. file[1] = [owner |-> "new", part |-> "super", at |-> 1]
      <4>1. Whole("new", supers.new)[1]
               = [owner |-> "new", part |-> "super", at |-> 1]
        BY <3>1, WholeFacts
      <4>. QED  BY <3>2, <3>3, <4>1
    <3>5. file # <<>>
      <4>1. Len(file) # 0
        BY <3>2, <3>3, LenProperties
      <4>. QED  BY <4>1
    <3>. QED  BY <1>1, <1>2, <3>4, <3>5 DEF Magic
  <2>. QED  BY <2>1, <2>2
<1>3. CASE file # <<>> /\ Magic(Head(file))
  <2>1. PICK owner \in {"new", "old"} : owner = Head(file).owner
    BY <1>1, <1>3, MagicOwner
  <2>2. PICK sb : sb = supers[owner]
    OBVIOUS
  <2>3. /\ Honest(file, owner, sb) /\ SuperOK(sb) /\ Magic(file[1])
        /\ mkfs = "done" => owner = "new"
    BY <1>1, <1>3, <2>1, <2>2, HonestFile, SupersOK
  <2>4. PICK all :
           all = {<<"inodes", sb.inodes_offset, sb.inodes_csize>>,
                  <<"blocks", sb.blocks_offset, sb.blocks_size>>,
                  <<"entries", sb.entries_offset, sb.entries_size>>}
    OBVIOUS
  <2>9. UnfsOutcomes =
           IF \E p \in all : ~CanRead(p[2], p[3]) THEN {"fails"}
           ELSE uncompress(sb.compression,
                   \A p \in all : IsThere(owner, p[1], p[2], p[3]))
    <3>1. ~(file = <<>> \/ ~Magic(Head(file)))
      BY <1>3
    <3>. QED  BY <2>1, <2>2, <2>4, <3>1, Zenon DEF UnfsOutcomes
  <2>5. ASSUME NEW p \in all
        PROVE  \E part \in Contents :
                  p = <<part, Before(sb, part), PartSize(sb, part)>>
    <3>1. /\ <<"inodes", sb.inodes_offset, sb.inodes_csize>> =
                <<"inodes", Before(sb, "inodes"), PartSize(sb, "inodes")>>
          /\ <<"blocks", sb.blocks_offset, sb.blocks_size>> =
                <<"blocks", Before(sb, "blocks"), PartSize(sb, "blocks")>>
          /\ <<"entries", sb.entries_offset, sb.entries_size>> =
                <<"entries", Before(sb, "entries"), PartSize(sb, "entries")>>
      BY <2>3, PartPlaces DEF SuperOK
    <3>2. {"inodes", "blocks", "entries"} \subseteq Contents
      BY DEF Contents, Parts
    <3>. QED  BY <2>4, <3>1, <3>2
  <2>6. CASE \E p \in all : ~CanRead(p[2], p[3])
    <3>1. UnfsOutcomes = {"fails"}
      BY <2>6, <2>9
    <3>2. ASSUME mkfs = "done"
          PROVE  FALSE
      <4>1. sb = supers.new
        BY <2>2, <2>3, <3>2
      <4>2. PICK part \in Contents :
               ~CanRead(Before(sb, part), PartSize(sb, part))
        BY <2>5, <2>6
      <4>3. PICK at \in Nat, size \in Nat, whole \in Nat, len \in Nat :
               /\ at = Before(sb, part) /\ size = PartSize(sb, part)
               /\ whole = ImageSize(sb) /\ len = Len(file)
               /\ at + size =< whole
        <5>1. /\ Before(sb, part) \in Nat /\ PartSize(sb, part) \in Nat
              /\ Before(sb, part) + PartSize(sb, part) =< ImageSize(sb)
          BY <2>3, PartFacts
        <5>2. ImageSize(sb) \in Nat /\ Len(file) \in Nat
          BY <2>3, SizeIsNat, LenProperties
        <5>. QED  BY <5>1, <5>2
      <4>4. whole =< len
        BY <3>2, <4>1, <4>3 DEF FileInv, StartsWith
      <4>5. at + size =< len
        BY <4>3, <4>4
      <4>. QED  BY <4>2, <4>3, <4>5 DEF CanRead
    <3>. QED  BY <3>1, <3>2
  <2>7. CASE \A p \in all : CanRead(p[2], p[3])
    <3>1. ASSUME NEW p \in all
          PROVE  IsThere(owner, p[1], p[2], p[3])
      <4>1. PICK part \in Contents :
               p = <<part, Before(sb, part), PartSize(sb, part)>>
        BY <2>5
      <4>2. CanRead(p[2], p[3])
        BY <2>7
      <4>3. CanRead(Before(sb, part), PartSize(sb, part))
        BY <4>1, <4>2
      <4>4. IsThere(owner, part, Before(sb, part), PartSize(sb, part))
        BY <1>3, <2>3, <4>3, PartIsThere
      <4>. QED  BY <4>1, <4>4
    <3>2. UnfsOutcomes = {"right"}
      BY <2>7, <2>9, <3>1 DEF uncompress
    <3>. QED  BY <3>2
  <2>. QED  BY <2>6, <2>7
<1>. QED  BY <1>2, <1>3

LEMMA NeverLies ==
    ASSUME IInv
    PROVE  FileNeverLies
<1>1. StateInv /\ FileInv /\ file \in Seq(Byte)
  BY DEF IInv, CallInv, CallType
<1>2. Trusted => driver.tables # "wrong" /\ driver.answer # "wrong"
  BY DEF IInv, DriverInv
<1>3. Trusted /\ mkfs \in Ended => "wrong" \notin UnfsOutcomes
  BY <1>1, UnfsReads
<1>. QED  BY <1>2, <1>3 DEF FileNeverLies, Trusted

LEMMA StartIsWhole ==
    ASSUME NEW sb, SuperOK(sb), NEW bytes \in Seq(Byte),
           StartsWith(bytes, sb, ImageSize(sb))
    PROVE  SubSeq(bytes, 1, Len(Whole("new", sb))) = Whole("new", sb)
<1>. DEFINE W == Whole("new", sb)
            all == ImageSize(sb)
<1>1. W = [k \in 1..all |-> W[k]]
  BY WholeFacts
<1>2. Len(W) = all
  BY WholeFacts
<1>3. all \in Nat
  BY SizeIsNat
<1>4. all =< Len(bytes) /\ \A k \in 1..all : bytes[k] = W[k]
  BY DEF StartsWith
<1>. HIDE DEF W, all
<1>5. SubSeq(bytes, 0 + 1, 0 + all) = [k \in 1..all |-> bytes[0 + k]]
  <2>1. \A i \in (0 + 1)..(0 + all) : bytes[i] \in Byte
    <3>1. Len(bytes) \in Nat
      BY LenProperties
    <3>2. ASSUME NEW i \in (0 + 1)..(0 + all)
          PROVE  i \in 1..Len(bytes)
      BY <1>3, <1>4, <3>1
    <3>. QED  BY <3>2, ElementOfSeq
  <2>. QED  BY <1>3, <2>1, Slice
<1>6. SubSeq(bytes, 1, all) = [k \in 1..all |-> bytes[k]]
  BY <1>3, <1>5
<1>7. SubSeq(bytes, 1, all) = W
  BY <1>1, <1>4, <1>6
<1>8. SubSeq(bytes, 1, Len(W)) = W
  BY <1>2, <1>7
<1>. QED  BY <1>8 DEF W

LEMMA WholeWhenDone ==
    ASSUME IInv
    PROVE  SuccessIsWhole
<1>. SUFFICES ASSUME mkfs = "done"
              PROVE  /\ UnfsOutcomes = {"right"}
                     /\ SubSeq(file, 1, Len(Whole("new", supers.new)))
                           = Whole("new", supers.new)
  BY DEF SuccessIsWhole, MkfsIs
<1>1. StateInv /\ FileInv /\ file \in Seq(Byte) /\ SuperOK(supers.new)
  BY DEF IInv, CallInv, CallType, StateInv
<1>2. UnfsOutcomes = {"right"}
  BY <1>1, UnfsReads DEF Trusted, Ended
<1>3. StartsWith(file, supers.new, ImageSize(supers.new))
  BY <1>1 DEF FileInv
<1>. QED  BY <1>1, <1>2, <1>3, StartIsWhole

-----------------------------------------------------------------------------
(***************************************************************************)
(* The theorems                                                            *)
(***************************************************************************)
\* smashfs_read (super.c:348-456) gives its caller the bytes of the range that
\* was asked for or an error, and has put every head it got: whatever the
\* offset and the length are, wherever blocks and pages end in between, and
\* whichever allocation or read fails.
THEOREM ReadsAreExact == Spec => []ReadExact
<1>1. IInv => ReadExact
  BY CallReadsExactly DEF IInv
<1>. QED  BY <1>1, Invariance, PTL

\* It writes to no page that data has no room for, keeps no more heads than bh
\* has room for (super.c:368-382, 430-446).
THEOREM ReadsStayInside == Spec => []ReadStaysInside
<1>1. IInv => ReadStaysInside
  BY CallStaysInside DEF IInv
<1>. QED  BY <1>1, Invariance, PTL

\* An image in a file is what its mkfs put there or is refused: after an mkfs
\* that was killed or failed at any write, too (mkfs.c:779-822).  Only a
\* device can hold parts of two images.
THEOREM FilesNeverLie == Spec => []FileNeverLies
<1>1. IInv => FileNeverLies
  BY NeverLies
<1>. QED  BY <1>1, Invariance, PTL

\* What output_write (mkfs.c:673-855) has written without an error is the whole
\* image, part after part where its super block says, and unfs reads it.
THEOREM DoneIsWhole == Spec => []SuccessIsWhole
<1>1. IInv => SuccessIsWhole
  BY WholeWhenDone
<1>. QED  BY <1>1, Invariance, PTL

\* The driver refuses an image that mkfs has finished, or a block of one, only
\* for the reasons that are listed.
THEOREM FailuresHaveReasons == Spec => []FailuresExplained
<1>1. IInv => FailuresExplained
  BY DEF IInv, DriverInv
<1>. QED  BY <1>1, Invariance, PTL

\* The inode table is compressed within its buffer but by lzo, for a table
\* smaller than what lzo may add (compressor-lzo.c:25-45).
THEOREM OnlyLzoOverruns == Spec => []OverrunOnlyLzo
<1>1. IInv => OverrunOnlyLzo
  BY DEF IInv, StateInv, OverrunOnlyLzo
<1>. QED  BY <1>1, Invariance, PTL
=============================================================================
