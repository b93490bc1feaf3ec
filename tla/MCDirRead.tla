------------------------------ MODULE MCDirRead ------------------------------
(***************************************************************************)
(* Model checking module DirRead: directories of up to three of five names, *)
(* among them ones that begin with the same byte, are a prefix of another, *)
(* and have bytes on both sides of 128.                                    *)
(***************************************************************************)
EXTENDS DirRead

MCNames == { <<97>>, <<97, 200>>, <<98, 97>>, <<200>>, <<200, 97>> }
=============================================================================
