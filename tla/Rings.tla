------------------------------- MODULE Rings -------------------------------
(***************************************************************************)
(* The four rings of a slab as sequences, the way SlabCache has them: a    *)
(* page enters a ring at its end, partial, empty and uninit pages are      *)
(* taken from the front, and a freed object takes its page out of the      *)
(* middle of the full or the partial ring.                                 *)
(***************************************************************************)
EXTENDS Naturals, Sequences, SequencesExt

CONSTANTS Page, EmptyLimit

VARIABLES
  ring,   \* the pages of every ring
  fresh   \* descriptors taken from PG_BUMP so far

vars == <<ring, fresh>>
Kind == {"full", "partial", "empty", "uninit"}

Init == ring = [k \in Kind |-> <<>>] /\ fresh = 0

\* The i-th page of ring k enters ring l.
Move(k, l, i) == ring' = [ring EXCEPT ![k] = RemoveAt(@, i), ![l] = Append(@, ring[k][i])]

\* allocate_batch_v2
TakePartial == ring["partial"] # <<>> /\ Move("partial", "full", 1) /\ UNCHANGED fresh

TakeEmpty ==
  \/ ring["empty"] # <<>> /\ Move("empty", "full", 1) /\ UNCHANGED fresh
  \/ /\ ring["empty"] = <<>> /\ ring["uninit"] # <<>>
     /\ Move("uninit", "full", 1)
     /\ UNCHANGED fresh
  \/ /\ ring["empty"] = <<>> /\ ring["uninit"] = <<>> /\ fresh + 1 \in Page
     /\ ring' = [ring EXCEPT !["full"] = Append(@, fresh + 1)]
     /\ fresh' = fresh + 1

\* deallocate_batch: the i-th page of ring k has objects in use left or none.
Give(k, i, left) ==
  /\ i \in DOMAIN ring[k]
  /\ \/ left /\ k = "full" /\ Move(k, "partial", i)
     \/ left /\ k = "partial" /\ UNCHANGED ring
     \/ ~left /\ Move(k, IF Len(ring["empty"]) > EmptyLimit THEN "uninit" ELSE "empty", i)
  /\ UNCHANGED fresh

Next ==
  \/ TakePartial
  \/ TakeEmpty
  \/ \E k \in {"full", "partial"}, left \in BOOLEAN : \E i \in DOMAIN ring[k] : Give(k, i, left)

Spec == Init /\ [][Next]_vars
=============================================================================
