----------------------------- MODULE BuddySystem -----------------------------
(***************************************************************************)
(* The buddy allocator of buddy_system/: a complete binary tree over one   *)
(* power-of-two heap, kept as a flat array of the largest free order below *)
(* every node (buddy.rs), and the GlobalAlloc and Allocator interfaces of  *)
(* the global BUDDY_HEAP on top of it (heap.rs).                           *)
(*                                                                         *)
(* BuddyTree::allocate and deallocate run inside one lock of the tree, so  *)
(* each is one step.  realloc and grow are not: they allocate, copy and    *)
(* deallocate, and other threads run in between.                           *)
(***************************************************************************)
EXTENDS Integers, FiniteSets, FiniteSetsExt

CONSTANTS
  Caller,
  Slot,        \* what a thread can hold at a time
  Size,        \* requested sizes, in bytes
  BASE_ORDER,  \* a page is 2^BASE_ORDER bytes (PAGE_SIZE in consts.rs)
  MAX_ORDER,   \* the heap is 2^MAX_ORDER pages
  Width        \* bits of usize

\* Powers of two, up to that of the width.
TwoTo[k \in 0 .. Width] == IF k = 0 THEN 1 ELSE 2 * TwoTo[k - 1]

ASSUME BuddyAssumption ==
  /\ BASE_ORDER \in Nat /\ MAX_ORDER \in Nat
  /\ Width \in Nat /\ BASE_ORDER + MAX_ORDER < Width - 1
  /\ Size \subseteq 0 .. TwoTo[Width] - 1

VARIABLES
  flat_blocks,  \* order_free of every node, numbered from 1
  slots,        \* the memory in every slot of every thread
  moves,        \* a realloc or grow on its way, per thread
  failed        \* the order the last step asked for in vain, or NoOrder

buddyVars == <<flat_blocks, slots, moves, failed>>

PAGE_SIZE == TwoTo[BASE_ORDER]
IsizeMax == TwoTo[Width - 1] - 1
Node == 1 .. TwoTo[MAX_ORDER + 1] - 1
Address == 0 .. TwoTo[BASE_ORDER + MAX_ORDER] - 1

\* Slots hold nothing, a layout of size 0 (no memory), or an address and the
\* size it was asked for with.
Empty == [kind |-> "empty", addr |-> 0, size |-> 0]
Dangling == [kind |-> "dangling", addr |-> 0, size |-> 0]
Memory(addr, size) == [kind |-> "memory", addr |-> addr, size |-> size]

\* Between the calls of realloc: new is a second block, next what to do with it.
Returned == [next |-> "idle", slot |-> 0, new |-> Empty]
NoOrder == MAX_ORDER + 2

BuddyTypeOK ==
  /\ flat_blocks \in [Node -> 0 .. MAX_ORDER + 1]
  /\ slots \in [Caller -> [Slot ->
                 [kind : {"empty", "dangling", "memory"},
                  addr : Address, size : Size \cup {0}]]]
  /\ \A t \in Caller : moves[t].next \in {"idle", "copy", "dealloc"}
  /\ failed \in 0 .. Width

-----------------------------------------------------------------------------
(***************************************************************************)
(* Sizes and orders (heap.rs).                                             *)
(***************************************************************************)
next_page_size(size) ==
  IF size % PAGE_SIZE = 0 THEN size
  ELSE (((size + PAGE_SIZE - 1) \div PAGE_SIZE) * PAGE_SIZE) % TwoTo[Width]

\* log2 of the next power of two.
log2(n) == CHOOSE k \in 0 .. Width : TwoTo[k] >= n /\ (k = 0 \/ TwoTo[k - 1] < n)

\* order_checked; its overflow test cannot fail on sizes up to isize::MAX.
order_checked(size) ==
  IF size = 0 \/ log2(size) < BASE_ORDER THEN 0 ELSE log2(size) - BASE_ORDER

\* The order that alloc and dealloc work out for a layout.
Order(size) == order_checked(next_page_size(size))

-----------------------------------------------------------------------------
(***************************************************************************)
(* The tree (buddy.rs).                                                    *)
(***************************************************************************)
Level(node) == CHOOSE l \in 0 .. MAX_ORDER : TwoTo[l] <= node /\ node < TwoTo[l + 1]
NodeOrder(node) == MAX_ORDER - Level(node)

\* BuddyTree::new: everything is free.
NewTree == [n \in Node |-> NodeOrder(n) + 1]

Biggest(left, right) == IF left > right THEN left ELSE right

\* Mutant: merges whenever the children have the same order free.
UpdateEqual(left, right, order) ==
  IF left = right THEN order + 1 ELSE Biggest(left, right)

\* update_block: two children that are free as a whole merge.
update_block(left, right, order) ==
  IF left = order /\ right = order THEN order + 1 ELSE Biggest(left, right)

\* Recomputes the parents of a node up to the root, bottom up: deallocate merges
\* halves that are free as a whole, allocate takes the larger of the two.
Above(tree, node, merge) ==
  LET up[k \in 0 .. Level(node)] ==
        IF k = 0 THEN tree
        ELSE LET p == node \div TwoTo[k]
                 left == up[k - 1][2 * p]
                 right == up[k - 1][2 * p + 1]
             IN  [up[k - 1] EXCEPT ![p] =
                    IF merge THEN update_block(left, right, NodeOrder(p))
                    ELSE Biggest(left, right)]
  IN  up[Level(node)]

\* Where allocate(order) ends: left wherever the left half has it.
Walk(tree, order) ==
  LET down[l \in 0 .. MAX_ORDER] ==
        IF l = 0 THEN [node |-> 1, addr |-> 0]
        ELSE LET left == 2 * down[l - 1].node
             IN  IF tree[left] > order
                 THEN [down[l - 1] EXCEPT !.node = left]
                 ELSE [node |-> left + 1,
                       addr |-> down[l - 1].addr + TwoTo[BASE_ORDER + MAX_ORDER - l]]
  IN  down[MAX_ORDER - order]

\* Mutant: an exact fit at the root is refused.
HasStrictly(tree, order) == tree[1] > order + 1

Has(tree, order) == tree[1] # 0 /\ tree[1] - 1 >= order

Take(tree, order) ==
  LET node == Walk(tree, order).node
  IN  Above([tree EXCEPT ![node] = 0], node, FALSE)

\* The node that deallocate frees for an address and an order.
NodeOf(addr, order) ==
  TwoTo[MAX_ORDER - order] - 1 + addr \div TwoTo[order + BASE_ORDER] + 1

Give(tree, addr, order) ==
  LET node == NodeOf(addr, order)
  IN  Above([tree EXCEPT ![node] = order + 1], node, TRUE)

-----------------------------------------------------------------------------
BuddyInit ==
  /\ flat_blocks = NewTree
  /\ slots = [t \in Caller |-> [s \in Slot |-> Empty]]
  /\ moves = [t \in Caller |-> Returned]
  /\ failed = NoOrder

\* GlobalAlloc::alloc: addr is the answer, or the call fails.
AllocOk(size, addr) ==
  /\ size <= IsizeMax /\ Has(flat_blocks, Order(size))
  /\ addr = Walk(flat_blocks, Order(size)).addr
  /\ flat_blocks' = Take(flat_blocks, Order(size))
  /\ failed' = NoOrder

AllocNull(size) ==
  /\ size > IsizeMax \/ ~ Has(flat_blocks, Order(size))
  /\ failed' = IF size > IsizeMax THEN NoOrder ELSE Order(size)
  /\ UNCHANGED flat_blocks

Dealloc(addr, size) ==
  /\ flat_blocks' = Give(flat_blocks, addr, Order(size))
  /\ failed' = NoOrder

Hold(t, s, block) == slots' = [slots EXCEPT ![t][s] = block]

\* BuddySystemAllocator::allocate; a layout of size 0 takes no memory.
Allocate(t, s, size) ==
  /\ moves[t] = Returned /\ slots[t][s] = Empty
  /\ \/ /\ size = 0 /\ Hold(t, s, Dangling)
        /\ failed' = NoOrder /\ UNCHANGED flat_blocks
     \/ /\ size # 0
        /\ \E addr \in Address : AllocOk(size, addr) /\ Hold(t, s, Memory(addr, size))
     \/ size # 0 /\ AllocNull(size) /\ UNCHANGED slots
  /\ UNCHANGED moves

\* BuddySystemAllocator::deallocate.
Deallocate(t, s) ==
  /\ moves[t] = Returned /\ slots[t][s] # Empty
  /\ Hold(t, s, Empty)
  /\ \/ /\ slots[t][s] = Dangling
        /\ failed' = NoOrder /\ UNCHANGED flat_blocks
     \/ slots[t][s] # Dangling /\ Dealloc(slots[t][s].addr, slots[t][s].size)
  /\ UNCHANGED moves

\* A block that may move: the new one is allocated first and kept beside the old
\* one, which is left alone if there is none.
Move(t, s, size) ==
  \/ \E addr \in Address :
       /\ AllocOk(size, addr)
       /\ moves' = [moves EXCEPT ![t] =
                     [next |-> "copy", slot |-> s, new |-> Memory(addr, size)]]
       /\ UNCHANGED slots
  \/ AllocNull(size) /\ UNCHANGED <<slots, moves>>

\* GlobalAlloc::realloc, to a larger or a smaller size: in place as long as the
\* number of pages is the same.
Realloc(t, s, size) ==
  /\ moves[t] = Returned /\ slots[t][s].kind = "memory" /\ size # 0
  /\ \/ /\ next_page_size(slots[t][s].size) = next_page_size(size)
        /\ Hold(t, s, Memory(slots[t][s].addr, size))
        /\ failed' = NoOrder /\ UNCHANGED <<flat_blocks, moves>>
     \/ /\ next_page_size(slots[t][s].size) # next_page_size(size)
        /\ Move(t, s, size)

\* grow_impl to a new alignment, or from size 0 (with the alignment unchanged it
\* is Realloc).
Grow(t, s, size) ==
  /\ moves[t] = Returned /\ size >= slots[t][s].size /\ size # 0
  /\ \/ slots[t][s].kind = "memory" /\ Move(t, s, size)
     \/ /\ slots[t][s] = Dangling
        /\ \/ \E addr \in Address :
                AllocOk(size, addr) /\ Hold(t, s, Memory(addr, size))
           \/ AllocNull(size) /\ UNCHANGED slots
        /\ UNCHANGED moves

\* Mutant: the old block is given back before it is copied.
CopyLate(t) ==
  /\ moves[t].next = "copy"
  /\ moves' = [moves EXCEPT ![t].next = "dealloc"]
  /\ Dealloc(slots[t][moves[t].slot].addr, slots[t][moves[t].slot].size)
  /\ UNCHANGED slots

\* copy_nonoverlapping of the smaller size.
Copy(t) ==
  /\ moves[t].next = "copy"
  /\ moves' = [moves EXCEPT ![t].next = "dealloc"]
  /\ failed' = NoOrder
  /\ UNCHANGED <<flat_blocks, slots>>

\* The old block is given back, and the call returns the new one.
DeallocOld(t) ==
  /\ moves[t].next = "dealloc"
  /\ Dealloc(slots[t][moves[t].slot].addr, slots[t][moves[t].slot].size)
  /\ Hold(t, moves[t].slot, moves[t].new)
  /\ moves' = [moves EXCEPT ![t] = Returned]

BuddyNext ==
  \E t \in Caller :
    \/ Copy(t)
    \/ DeallocOld(t)
    \/ \E s \in Slot :
         \/ Deallocate(t, s)
         \/ \E size \in Size : Allocate(t, s, size) \/ Realloc(t, s, size)
                               \/ Grow(t, s, size)

BuddySpec == BuddyInit /\ [][BuddyNext]_buddyVars
-----------------------------------------------------------------------------
(***************************************************************************)
(* Properties.                                                             *)
(***************************************************************************)
InSlots == {slots[t][s] : t \in Caller, s \in Slot}
Moving == {moves[t].new : t \in Caller}

\* An extent is an address with the bytes of its pages behind it.
Bytes(b) == <<b.addr, next_page_size(b.size)>>
InUse == {Bytes(b) : b \in {x \in InSlots \cup Moving : x.kind = "memory"}}
Overlap(e, f) == e[1] < f[1] + f[2] /\ f[1] < e[1] + e[2]

\* The allocated extents as nodes of the tree.
LiveNodes == {NodeOf(b.addr, Order(b.size)) :
                b \in {x \in InSlots \cup Moving : x.kind = "memory"}}
IsBelow(n, m) ==  \* n is m or lies below it
  Level(n) >= Level(m) /\ n \div TwoTo[Level(n) - Level(m)] = m
Apart(live, n) == \A m \in live : ~ IsBelow(n, m) /\ ~ IsBelow(m, n)
FreeNode(n) == Apart(LiveNodes, n)

\* Every node the tree can reach says which is the largest block below it that
\* shares nothing with a live allocation, merged as far as it can be; what lies
\* below a live allocation reads as free, as its release will need it.
TreeMatchesLive ==
  LET live == LiveNodes IN
  \A n \in Node :
    flat_blocks[n] =
      IF \E m \in live : IsBelow(n, m) /\ n # m THEN NodeOrder(n) + 1
      ELSE Max({0} \cup {NodeOrder(d) + 1 :
                           d \in {x \in Node : IsBelow(x, n) /\ Apart(live, x)}})

\* alloc returns null only if no aligned free block of the order is left.
NullOnlyWhenFull ==
  failed # NoOrder =>
    \A n \in Node : NodeOrder(n) = failed => ~ FreeNode(n)

\* The threads see an allocator: memory that is handed out overlaps nothing in
\* use, a block and its copy while it moves included, and it lies in the heap.
BuddyContract ==
  INSTANCE AllocatorContract WITH
    Extent <- {e \in Address \X (1 .. TwoTo[BASE_ORDER + MAX_ORDER]) :
                 e[1] + e[2] <= TwoTo[BASE_ORDER + MAX_ORDER]},
    Overlap <- Overlap, inUse <- InUse
HeapImplementsContract == BuddyContract!Spec
=============================================================================
