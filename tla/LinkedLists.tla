---------------------------- MODULE LinkedLists ----------------------------
(***************************************************************************)
(* Families of linked lists.  UniAlloc threads its free objects and its    *)
(* page descriptors on intrusive lists: one link word per element, so an   *)
(* element must never be on two lists, or twice on one.  A family is a     *)
(* function from list heads to the sequences of their elements.            *)
(***************************************************************************)
EXTENDS Integers, Sequences, SequencesExt

Disjoint(S, T) == S \cap T = {}

\* Every element of the family is linked exactly once.
NoSharing(f) ==
  /\ \A h \in DOMAIN f : IsInjective(f[h])
  /\ \A g, h \in DOMAIN f : g # h => Disjoint(Range(f[g]), Range(f[h]))

\* The elements of all the lists.
AllLinked(f) == UNION {Range(f[h]) : h \in DOMAIN f}
=============================================================================
