---------------------------- MODULE MCLazyInit ----------------------------
(***************************************************************************)
(* Small instances of LazyInit.                                            *)
(***************************************************************************)
EXTENDS LazyInit, TLC

Symmetry == Permutations(Thread)
=============================================================================
