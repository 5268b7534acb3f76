--------------------------- MODULE MCClientCache ---------------------------
(***************************************************************************)
(* Instances of ClientCache for TLC: a disk whose .map was missing, or     *)
(* held the first two blocks side by side, or only the last one.  What     *)
(* .bin held then is a label per offset: nothing depends on which block    *)
(* had left it there.                                                      *)
(***************************************************************************)
EXTENDS ClientCache, TLC

CONSTANTS base, old, v1

MCBase      == [b \in 0 .. NumBlocks - 1 |-> <<base, b>>]
EmptyMap    == [b \in 0 .. NumBlocks - 1 |-> NoOffset]
NoMap       == {EmptyMap}
SomeMaps    == {[EmptyMap EXCEPT ![0] = 0, ![1] = 1],
                [EmptyMap EXCEPT ![NumBlocks - 1] = 1]}
MCLoadedBin == [o \in 0 .. MaxOffset - 1 |-> IF o < LoadedNext THEN <<old, o>> ELSE NoData]
WriterSymmetry == Permutations(Writers)
=============================================================================
