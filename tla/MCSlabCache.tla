---------------------------- MODULE MCSlabCache ----------------------------
(***************************************************************************)
(* Small instances of SlabCache.                                           *)
(***************************************************************************)
EXTENDS SlabCache, TLC

CONSTANTS Slot0Blocks  \* blocks whose first object has the wide alignment

\* One class of two objects, or two classes of different sizes.
PgCountOne == <<2>>
PgCountTwo == <<2, 1>>

\* Alignment 1 holds for every object, alignment 2 for slot 0 of a block.
AlignedToSlot0 ==
  [a \in Align |-> IF a = 1 THEN Object
                   ELSE {o \in Object : o[2] \in Slot0Blocks /\ o[3] = 0}]

Symmetry == Permutations(Thread) \cup Permutations(Block)
=============================================================================
