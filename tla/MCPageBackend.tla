--------------------------- MODULE MCPageBackend ---------------------------
(***************************************************************************)
(* Small instances of PageBackend.                                         *)
(***************************************************************************)
EXTENDS PageBackend, TLC

Symmetry == Permutations(Thread)
=============================================================================
