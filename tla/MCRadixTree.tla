---------------------------- MODULE MCRadixTree ----------------------------
(***************************************************************************)
(* Two leaves of eight pages, and blocks of two pages: one across the      *)
(* leaves, one across a multiple of InsertSplit, one across a multiple of  *)
(* RemoveSplit only.                                                       *)
(***************************************************************************)
EXTENDS RadixTree, TLC

Blocks == {<<7, 2>>, <<3, 2>>, <<5, 2>>}
Symmetry == Permutations(Thread)
=============================================================================
