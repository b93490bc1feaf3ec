------------------------------ MODULE BitStream ------------------------------
(***************************************************************************)
(* How mkfs and the two readers use a bit buffer: the writer adds up the   *)
(* widths of a table's fields, allocates that many bits rounded up to      *)
(* bytes, and puts the fields one after the other; a reader jumps to a     *)
(* field with setpos, or gets, skips and copies its way through.           *)
(*                                                                         *)
(* The specification is StreamSpec, so that TablesProofs can extend this   *)
(* module and ImageTables.                                                 *)
(***************************************************************************)
EXTENDS BitBuffer, SequencesExt

CONSTANTS Widths,       \* the field widths that are tried
          Values,       \* the values that are tried for a field of each width
          MaxFields     \* bound: the fields of a table

\* A word holds a byte, as getbuffer needs; a field is at most a word wide; a
\* value that is put may not fit in its field, and a negative one arrives as a
\* large one.
ASSUME StreamAssumption ==
    /\ WordBits \in Nat /\ WordBits >= 8
    /\ Widths \subseteq 0..WordBits
    /\ Values \in [Widths -> SUBSET Int]
    /\ MaxFields \in Nat

VARIABLES plan,         \* the widths of the table's fields
          put,          \* the values put so far
          writer,       \* mkfs's bit buffer
          reader,       \* a reader's bit buffer
          copy          \* a second buffer that copybits fills

streamVars == <<plan, put, writer, reader, copy>>

\* Where field k starts.
Start(k) == Sums(plan)[k - 1]

StreamInit ==
    /\ plan \in SeqOf(Widths, MaxFields)
    /\ put = <<>>
    /\ writer = bitbuffer_init(Bytes(Total(plan)))
    /\ reader = bitbuffer_init_from_buffer(<<>>)
    /\ copy = bitbuffer_init(Bytes(Total(plan)))

Complete == Len(put) = Len(plan)

Reading == reader.buffer # <<>>

\* The next field of the table.
Put ==
    /\ ~Complete
    /\ \E v \in Values[plan[Len(put) + 1]] :
          /\ put' = Append(put, v)
          /\ writer' = bitbuffer_putbits(writer, plan[Len(put) + 1], v)
    /\ UNCHANGED <<plan, reader, copy>>

\* The table is read back, from a field on.
Open ==
    /\ Complete
    /\ ~Reading
    /\ \E k \in DOMAIN plan :
          reader' = bitbuffer_setpos(
                        bitbuffer_init_from_buffer(writer.buffer), Start(k))
    /\ UNCHANGED <<plan, put, writer, copy>>

\* bitbuffer_copybits, of as many bits as a width, while both have them.
Copy ==
    /\ \E n \in Widths \ {0} :
          LET c == bitbuffer_copybits(copy, reader, n)
          IN  /\ n =< bitbuffer_getbitlength(reader)
              /\ n =< bitbuffer_getbitlength(copy)
              /\ reader' = c.gbb
              /\ copy' = c.pbb
    /\ UNCHANGED <<plan, put, writer>>

\* The rest is not wanted.
Done == Complete /\ UNCHANGED streamVars

StreamNext == Put \/ Open \/ Copy \/ Done

StreamSpec == StreamInit /\ [][StreamNext]_streamVars

-----------------------------------------------------------------------------
(***************************************************************************)
(* Properties                                                              *)
(***************************************************************************)
\* A field reads back as the low bits of what was put, whatever was put
\* before and after it and wherever it falls across bytes.
RoundTrip ==
    ~Reading => \A k \in DOMAIN put :
        bitbuffer_getbits(bitbuffer_setpos(writer, Start(k)), plan[k]).value
            = put[k] % Pow2[plan[k]]

\* The byte-at-a-time path of getbits, getbuffer and showbits give what
\* reading bit by bit would, from every position; and what copybits has copied
\* are the very bits that the reader went over, however they were cut.
ReadsAreBitwise ==
    /\ Complete /\ ~Reading => \A i \in 0..(8 * Len(writer.buffer)) :
          LET bb == bitbuffer_setpos(writer, i) IN
          /\ \A n \in 0..WordBits :
                n =< bitbuffer_getbitlength(bb) =>
                    /\ bitbuffer_getbits(bb, n) =
                           [value |-> Worth(writer.buffer, i, n),
                            bb |-> bitbuffer_setpos(bb, i + n)]
                    /\ bitbuffer_showbits(bb, n) = Worth(writer.buffer, i, n)
          /\ \A n \in 0..(bitbuffer_getbitlength(bb) \div 8) :
                bitbuffer_getbuffer(bb, n) =
                    [value |-> [k \in 1..n |->
                                  Worth(writer.buffer, i + 8 * (k - 1), 8)],
                     bb |-> bitbuffer_setpos(bb, i + 8 * n)]
    /\ \A i \in 0..(copy.index - 1) :
          Bit(copy.buffer, i) =
              Bit(reader.buffer, reader.index - copy.index + i)
=============================================================================
