------------------------- MODULE AllocatorContract -------------------------
(***************************************************************************)
(* What UniAlloc promises the program that uses it as its global allocator *)
(* (GlobalAlloc for RustAllocator, unialloc/src/cache/mod.rs): memory that *)
(* is handed out overlaps nothing that is still in use, and only what was  *)
(* handed out is taken back.  There are no threads, caches or pages here:  *)
(* an allocation is an extent, and Overlap says which extents share bytes. *)
(***************************************************************************)

CONSTANTS
  Extent,        \* everything the allocator can ever return
  Overlap(_, _)  \* do two extents share a byte?

VARIABLE inUse   \* the extents the program holds

Init == inUse = {}

\* alloc: an extent that overlaps none of those in use.
Alloc == \E e \in Extent :
           /\ \A u \in inUse : ~ Overlap(e, u)
           /\ inUse' = inUse \cup {e}

\* dealloc: the program returns an extent it holds.
Dealloc == \E e \in inUse : inUse' = inUse \ {e}

Next == Alloc \/ Dealloc

Spec == Init /\ [][Next]_inUse
=============================================================================
