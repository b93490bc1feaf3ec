------------------------------ MODULE MCImageFile ------------------------------
(***************************************************************************)
(* Model checking module ImageFile: device blocks of two bytes, pages and  *)
(* padding of four, an int of four bits and writes of up to seven bytes.   *)
(***************************************************************************)
EXTENDS ImageFile

\* An image whose contents are blocks of these compressed sizes.
Img(compression, inodes, blocks, sizes, no_padding) ==
    LET Start[b \in DOMAIN sizes] ==
            IF b = 1 THEN 0 ELSE Start[b - 1] + sizes[b - 1]
    IN  [compression |-> compression, inodes |-> inodes, blocks |-> blocks,
         length |-> Start[Len(sizes)] + sizes[Len(sizes)],
         table |-> [b \in DOMAIN sizes |->
                       [offset |-> Start[b], size |-> sizes[b]]],
         no_padding |-> no_padding]

MCNewImages ==
    { Img("none", 2, 1, <<2, 1>>, FALSE),
      Img("none", 1, 2, <<5>>, TRUE),
      Img("gzip", 1, 1, <<1>>, FALSE),
      Img("gzip", 3, 1, <<5, 2>>, FALSE),
      Img("gzip", 2, 3, <<2, 2>>, TRUE),
      Img("lzo", 3, 2, <<3, 1>>, FALSE),
      Img("lzo", 2, 1, <<2>>, TRUE),
      Img("lzma", 2, 1, <<2>>, FALSE),
      Img("xz", 2, 1, <<3>>, TRUE),
      Img("gzip", 4, 1, <<1>>, FALSE),
      Img("none", 1, 1, <<4, 4>>, FALSE) }

Blank(n) == Bytes("none", "zero", n)
OldImage == Img("none", 3, 1, <<2, 2>>, FALSE)
OldBytes == Whole("old", SuperBlock(OldImage, 3))

Target(is_device, bytes) ==
    [device |-> is_device, bytes |-> bytes, image |-> OldImage, csize |-> 3]

MCTargets ==
    { Target(FALSE, <<>>), Target(FALSE, OldBytes \o Blank(3)),
      Target(TRUE, OldBytes \o Blank(9)), Target(TRUE, Blank(6)) }
=============================================================================
