---------------------------- MODULE MCVhdBackend ----------------------------
(***************************************************************************)
(* Instances of VhdBackend for TLC.                                        *)
(***************************************************************************)
EXTENDS VhdBackend, TLC

(* Inside one VHD block, and across a boundary. *)
TwoCommands  == {[first |-> 0, n |-> 1], [first |-> 1, n |-> 2]}
(* One, two and three VHD blocks, where a VHD block is one unit. *)
SpanCommands == {[first |-> 1, n |-> 1], [first |-> 0, n |-> 2], [first |-> 0, n |-> 3]} \cap Extents
(* Both boundaries of three VHD blocks. *)
PairCommands == {[first |-> 1, n |-> 2], [first |-> 3, n |-> 2]}
TaskSymmetry == Permutations(Writers)
=============================================================================
