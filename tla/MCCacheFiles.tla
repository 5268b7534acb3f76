----------------------------- MODULE MCCacheFiles -----------------------------
(***************************************************************************)
(* Instances of CacheFiles for TLC.  Sessions differ in nothing but their  *)
(* names.                                                                  *)
(***************************************************************************)
EXTENDS CacheFiles, TLC

SessionSymmetry == Permutations(Sessions)
=============================================================================
