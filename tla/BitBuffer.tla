------------------------------ MODULE BitBuffer ------------------------------
(***************************************************************************)
(* The bit buffer that every table of the image is written and read with   *)
(* (src/src/mkfs/bitbuffer.c; src/src/linux/bitbuffer.c is the same code   *)
(* without init).  A bit buffer is a record: the bytes and the index of    *)
(* the next bit, most significant bit of a byte first.                     *)
(***************************************************************************)
EXTENDS Integers, Sequences

CONSTANT WordBits     \* the width of unsigned int, 32; smaller for TLC

\* 1 << n
Pow2[n \in Nat] == IF n = 0 THEN 1 ELSE 2 * Pow2[n - 1]

WordSize == Pow2[WordBits]

\* What the first k numbers of a sequence add up to, for each k, and all.
Sums(s) ==
    LET sum[k \in 0..Len(s)] == IF k = 0 THEN 0 ELSE sum[k - 1] + s[k] IN sum
Total(s) == Sums(s)[Len(s)]

\* The bytes that so many bits take.
Bytes(bits) == (bits + 7) \div 8

\* Digit k of a number in binary notation, the least significant one first.
Digit(value, k) == (value \div Pow2[k]) % 2

\* Bit i of a buffer, the most significant bit of byte 0 first.
Bit(bytes, i) == Digit(bytes[i \div 8 + 1], 7 - (i % 8))

\* What n bits from bit i are worth, by the definition of binary notation.
Worth(bytes, i, n) ==
    LET worth[k \in 0..n] ==
            IF k = 0 THEN 0
            ELSE worth[k - 1] + Bit(bytes, i + k - 1) * Pow2[n - k]
    IN  worth[n]

-----------------------------------------------------------------------------

\* bitbuffer_init: size bytes, zeroed.
bitbuffer_init(size) == [buffer |-> [i \in 1..size |-> 0], index |-> 0]

\* bitbuffer_init_from_buffer: read the bytes from the start.
bitbuffer_init_from_buffer(bytes) == [buffer |-> bytes, index |-> 0]

bitbuffer_setpos(bb, pos) == [bb EXCEPT !.index = pos]

bitbuffer_getbitlength(bb) ==
    LET left == 8 * Len(bb.buffer) - bb.index IN IF left > 0 THEN left ELSE 0

\* The byte that index points into.
Current(bb) == bb.buffer[bb.index \div 8 + 1]

bitbuffer_getbit(bb) == (Current(bb) \div Pow2[7 - (bb.index % 8)]) % 2

\* mutant: the bits of a byte are filled from the least significant one
bitbuffer_putbitReversed(bb, value) ==
    [buffer |-> [bb.buffer EXCEPT ![bb.index \div 8 + 1] =
                    @ + (value % 2) * Pow2[bb.index % 8]],
     index |-> bb.index + 1]

\* buffer[byte] |= (value & 1) << (7 - bit): a bit that is set stays set.
bitbuffer_putbit(bb, value) ==
    [buffer |-> [bb.buffer EXCEPT ![bb.index \div 8 + 1] =
                    IF bitbuffer_getbit(bb) = 1 THEN @
                    ELSE @ + (value % 2) * Pow2[7 - (bb.index % 8)]],
     index |-> bb.index + 1]

\* The n low bits of value, the highest first; n is at most WordBits.  The
\* argument is an unsigned int: a negative one arrives modulo WordSize.
bitbuffer_putbits(bb, n, value) ==
    LET v == value % WordSize
        put[k \in 0..n] ==
            IF k = 0 THEN bb
            ELSE bitbuffer_putbit(put[k - 1], v \div Pow2[n - k])
    IN  put[n]

\* mutant: the byte loop is entered with fewer than eight bits left to read
GetStepGreedy(s) ==
    IF s.n = 0 THEN s
    ELSE IF s.bb.index % 8 = 0 /\ s.n >= 7
    THEN [n |-> IF s.n > 8 THEN s.n - 8 ELSE 0,
          tmp |-> (s.tmp * 256 + Current(s.bb)) % WordSize,
          bb |-> bitbuffer_setpos(s.bb, s.bb.index + 8)]
    ELSE [n |-> s.n - 1,
          tmp |-> (s.tmp * 2 + bitbuffer_getbit(s.bb)) % WordSize,
          bb |-> bitbuffer_setpos(s.bb, s.bb.index + 1)]

\* One turn of bitbuffer_getbits: a whole byte at a byte boundary if eight
\* bits or more are wanted, otherwise one bit.  s is its n, tmp and buffer.
GetStep(s) ==
    IF s.n = 0 THEN s
    ELSE IF s.bb.index % 8 = 0 /\ s.n >= 8
    THEN [n |-> s.n - 8,
          tmp |-> (s.tmp * 256 + Current(s.bb)) % WordSize,
          bb |-> bitbuffer_setpos(s.bb, s.bb.index + 8)]
    ELSE [n |-> s.n - 1,
          tmp |-> (s.tmp * 2 + bitbuffer_getbit(s.bb)) % WordSize,
          bb |-> bitbuffer_setpos(s.bb, s.bb.index + 1)]

\* bitbuffer_getbits: the value and the buffer after it.  At most n turns.
bitbuffer_getbits(bb, n) ==
    LET turn[k \in 0..n] ==
            IF k = 0 THEN [n |-> n, tmp |-> 0, bb |-> bb]
            ELSE GetStep(turn[k - 1])
    IN  [value |-> turn[n].tmp, bb |-> turn[n].bb]

bitbuffer_skipbits(bb, n) == bitbuffer_setpos(bb, bb.index + n)

\* bitbuffer_getbuffer: n bytes, one getbits(8) each off a byte boundary,
\* copied from the buffer on one.
bitbuffer_getbuffer(bb, n) ==
    [value |-> IF bb.index % 8 # 0
               THEN [k \in 1..n |->
                        bitbuffer_getbits(bitbuffer_skipbits(bb, 8 * (k - 1)),
                                          8).value]
               ELSE SubSeq(bb.buffer, bb.index \div 8 + 1, bb.index \div 8 + n),
     bb |-> bitbuffer_skipbits(bb, 8 * n)]

\* bitbuffer_showbits puts the index back.
bitbuffer_showbits(bb, n) == bitbuffer_getbits(bb, n).value

\* bitbuffer_copybits: from gbb to pbb.
bitbuffer_copybits(pbb, gbb, n) ==
    LET el == bitbuffer_getbits(gbb, n)
    IN  [pbb |-> bitbuffer_putbits(pbb, n, el.value), gbb |-> el.bb]
=============================================================================
