----------------------------- MODULE MCBackends -----------------------------
(***************************************************************************)
(* Small instances of the two backends: lists of free blocks over a bump   *)
(* region (PageBackend), and the buddy tree (BuddySystem).  A build has    *)
(* one of them, so a behaviour is one of PageBackend or one of BuddySystem *)
(* while the other stays in its initial state.                             *)
(***************************************************************************)
EXTENDS PageBackend, BuddySystem, TLC

VARIABLE build  \* which backend the build has

MCInit == build \in {"freelist", "buddy"} /\ Init /\ BuddyInit

MCNext ==
  \/ build = "freelist" /\ Next /\ UNCHANGED <<build, buddyVars>>
  \/ build = "buddy" /\ BuddyNext /\ UNCHANGED <<build, vars>>

MCSpec == MCInit /\ [][MCNext]_<<build, vars, buddyVars>>

Symmetry == Permutations(Thread) \cup Permutations(Slot)
=============================================================================
