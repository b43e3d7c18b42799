--------------------------- MODULE MCSeparateSlab ---------------------------
(***************************************************************************)
(* Small instances of the two ways a slab keeps its rings of pages: by     *)
(* index in separate_sc.rs (SeparateSlab), by pointer in efficient_sc.rs   *)
(* (PageRings).  A build has one of them, so a behaviour is one of         *)
(* SeparateSlab or one of PageRings while the other stays in its initial   *)
(* state.                                                                  *)
(***************************************************************************)
EXTENDS SeparateSlab, PageRings, TLC

CONSTANTS c1, c2

VARIABLE build  \* which slab the build has

\* Objects of 7 bytes, 2 to a block of 16, and of 16 bytes, one to a block.
Sizes == c1 :> 7 @@ c2 :> 16
Limits == c1 :> 3 @@ c2 :> 1

MCInit == build \in {"separate", "efficient"} /\ Init /\ RingsInit

MCNext ==
  \/ build = "separate" /\ Next /\ UNCHANGED <<build, ringsVars>>
  \/ build = "efficient" /\ RingsNext /\ UNCHANGED <<build, vars>>

MCSpec == MCInit /\ [][MCNext]_<<build, vars, ringsVars>>

\* The start of a ring that holds nothing is never read, so states that differ in
\* it alone have the same future.
View ==
  <<[c \in Class |-> [sc[c] EXCEPT !.start =
       [k \in Kind |-> IF sc[c].count[k] = 0 THEN 0 ELSE sc[c].start[k]]]],
    op, rd, blocks, live, build, ringsVars>>
Symmetry == Permutations(Block \ WideBlocks)
=============================================================================
