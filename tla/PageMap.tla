------------------------------ MODULE PageMap ------------------------------
(***************************************************************************)
(* What the radix tree promises its users: a map from pages to values,     *)
(* zero where nothing was entered, written and read one page at a time     *)
(* (trait TreeNode of collections/radix_tree.rs).                          *)
(***************************************************************************)
CONSTANTS Thread, Page, Value, Zero

VARIABLES
  map,  \* what is entered for every page
  got   \* what the last lookup of every thread has returned

vars == <<map, got>>

Init == map = [p \in Page |-> Zero] /\ got = [t \in Thread |-> Zero]

Write(p, v) == map' = [map EXCEPT ![p] = v] /\ UNCHANGED got

Read(t, p) == got' = [got EXCEPT ![t] = map[p]] /\ UNCHANGED map

Next ==
  \/ \E p \in Page, v \in Value : Write(p, v)
  \/ \E t \in Thread, p \in Page : Read(t, p)

Spec == Init /\ [][Next]_vars
=============================================================================
