----------------------------- MODULE PageRings -----------------------------
(***************************************************************************)
(* The rings of efficient_sc.rs as the code has them: a pointer to the     *)
(* first page of each ring, and in every page descriptor a pointer to the  *)
(* previous and to the next one.  A page that leaves a ring keeps its      *)
(* pointers (the lines that reset them are commented out), and a ring of   *)
(* one page is recognised by its next pointer or, the empty ring, by a     *)
(* counter.                                                                *)
(*                                                                         *)
(* Calls hold the slab's lock, so a call is one step.  m is the memory:    *)
(* start, prev, next and empty_count.                                      *)
(***************************************************************************)
EXTENDS Naturals, FiniteSets, Sequences

CONSTANTS
  PageLimit,  \* descriptors PG_BUMP has
  EmptyMax,   \* 2048 in the code
  NoPage

Descriptor == 1 .. PageLimit
RingKind == {"full", "partial", "empty", "uninit"}

ASSUME RingsAssumption ==
  /\ PageLimit \in Nat /\ EmptyMax \in Nat
  /\ NoPage \notin Descriptor /\ NoPage \notin RingKind

VARIABLES
  mem,    \* the pointers
  on,     \* the ring every page belongs on by its counter and data, or NoPage
  fresh   \* descriptors taken from PG_BUMP so far

ringsVars == <<mem, on, fresh>>

RingsInit ==
  /\ mem = [start |-> [k \in RingKind |-> NoPage], prev |-> [p \in Descriptor |-> NoPage],
            next |-> [p \in Descriptor |-> NoPage], empty_count |-> 0]
  /\ on = [p \in Descriptor |-> NoPage]
  /\ fresh = 0

-----------------------------------------------------------------------------
set_prev(m, p, q) == [m EXCEPT !.prev[p] = q]
set_next(m, p, q) == [m EXCEPT !.next[p] = q]

\* p's neighbours are joined; p itself is left as it is.
Join(m, p) ==
  LET joined == set_prev(m, m.next[p], m.prev[p])
  IN  set_next(joined, joined.prev[p], joined.next[p])

\* Mutant: the first page of a ring stays its start.
RemoveKeepsStart(m, k, p) ==
  IF m.next[m.start[k]] = m.start[k] THEN [m EXCEPT !.start[k] = NoPage] ELSE Join(m, p)

\* remove_full, remove_partial and remove_uninit.
RemovePage(m, k, p) ==
  LET first == m.start[k]
  IN  IF m.next[first] = first THEN [m EXCEPT !.start[k] = NoPage]
      ELSE IF p = first THEN [Join(m, p) EXCEPT !.start[k] = Join(m, p).next[p]]
      ELSE Join(m, p)

remove_empty(m) ==
  LET p == m.start["empty"]
      joined == Join(m, p)
  IN  [joined EXCEPT !.start["empty"] = IF m.empty_count > 1 THEN joined.next[p] ELSE NoPage,
                     !.empty_count = @ - 1]

\* insert_full, insert_partial, and the same code in insert_uninit and insert_ety.
Insert(m, k, p) ==
  LET first == m.start[k]
      last == m.prev[first]
  IN  IF first = NoPage THEN [set_next(set_prev(m, p, p), p, p) EXCEPT !.start[k] = p]
      ELSE set_prev(set_next(set_next(set_prev(m, p, last), p, first), last, p), first, p)

insert_ety(m, p) ==
  IF m.empty_count > EmptyMax THEN Insert(m, "uninit", p)
  ELSE [Insert(m, "empty", p) EXCEPT !.empty_count = @ + 1]

-----------------------------------------------------------------------------
Becomes(p, k) == on' = [on EXCEPT ![p] = k]

\* allocate_batch_v2, from the first partial page.
RingsTakePartial ==
  LET p == mem.start["partial"]
  IN  /\ p # NoPage
      /\ mem' = Insert(RemovePage(mem, "partial", p), "full", p)
      /\ Becomes(p, "full")
      /\ UNCHANGED fresh

\* allocate_batch_v2, from get_empty: a page kept empty, ...
RingsTakeEmpty ==
  LET p == mem.start["empty"]
  IN  /\ p # NoPage
      /\ mem' = Insert(remove_empty(mem), "full", p)
      /\ Becomes(p, "full")
      /\ UNCHANGED fresh

\* ... or from get_uninit a descriptor without a block, or a new one.
TakeUninit ==
  LET p == mem.start["uninit"]
  IN  /\ mem.start["empty"] = NoPage
      /\ \/ /\ p # NoPage
            /\ mem' = Insert(RemovePage(mem, "uninit", p), "full", p)
            /\ Becomes(p, "full")
            /\ UNCHANGED fresh
         \/ /\ p = NoPage /\ fresh < PageLimit
            /\ mem' = Insert(mem, "full", fresh + 1)
            /\ Becomes(fresh + 1, "full")
            /\ fresh' = fresh + 1

\* deallocate_batch, for one page: by its counter it was full or partial, and has
\* objects in use left or none.
Give(p, left) ==
  LET k == on[p]
  IN  /\ k \in {"full", "partial"}
      /\ \/ /\ left
            /\ mem' = IF k = "full" THEN Insert(RemovePage(mem, k, p), "partial", p) ELSE mem
            /\ Becomes(p, "partial")
         \/ /\ ~left
            /\ mem' = insert_ety(RemovePage(mem, k, p), p)
            /\ Becomes(p, IF mem.empty_count > EmptyMax THEN "uninit" ELSE "empty")
      /\ UNCHANGED fresh

RingsNext ==
  \/ RingsTakePartial \/ RingsTakeEmpty \/ TakeUninit
  \/ \E p \in Descriptor, left \in BOOLEAN : Give(p, left)

RingsSpec == RingsInit /\ [][RingsNext]_ringsVars
-----------------------------------------------------------------------------
\* The pages met from the start of a ring along next until the start comes again,
\* as many as there are descriptors at most.
Walk(k) ==
  LET at[i \in 1 .. PageLimit] == IF i = 1 THEN mem.start[k] ELSE mem.next[at[i - 1]]
      n == CHOOSE n \in 1 .. PageLimit :
             /\ n = PageLimit \/ mem.next[at[n]] = mem.start[k]
             /\ \A i \in 1 .. n - 1 : mem.next[at[i]] # mem.start[k]
  IN  IF mem.start[k] = NoPage THEN <<>> ELSE [i \in 1 .. n |-> at[i]]

Abstract == 
  INSTANCE Rings WITH
    Page <- Descriptor, EmptyLimit <- EmptyMax, ring <- [k \in RingKind |-> Walk(k)]

\* Whatever pages are taken and given back in whatever order, the pointers behave as
\* the four sequences SlabCache is written with: the stale pointers of a page that
\* left a ring, the two ways to recognise a ring of one page and the counter of the
\* empty ring never make a ring lose, share or reorder pages.
ImplementsRings == Abstract!Spec
=============================================================================
