---------------------------- MODULE MCImageStore ----------------------------
(***************************************************************************)
(* Instances of ImageStore for TLC: the base image has its first VHD block *)
(* in the file and the others unallocated.                                 *)
(***************************************************************************)
EXTENDS ImageStore

CONSTANTS zero, old, new

MCBase  == << old >>
MCTable == [k \in 0 .. NumBlocks - 1 |-> IF k = 0 THEN 1 ELSE Free]
=============================================================================
