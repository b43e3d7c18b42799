---------------------------- MODULE SeparateSlab ----------------------------
(***************************************************************************)
(* The slab allocator that keeps its metadata apart from the objects:      *)
(* SCAllocator of sc/separate_sc.rs, with the page descriptors and bitmaps *)
(* of page/separate_page.rs and the index-linked list of                   *)
(* collections/linklist.rs.                                                *)
(*                                                                         *)
(* Every class has a vector of descriptors with a prev and a next index.   *)
(* The four rings (full, partial, empty, uninit) are a start index and a   *)
(* count each: a ring that empties leaves its start behind.  The rings are *)
(* kept here as the code keeps them, link by link.                         *)
(*                                                                         *)
(* A class is used under its own lock, and the radix tree and the page     *)
(* backend are shared with the other classes.  A step is what a call does  *)
(* up to a point where another class can interfere: a block changes hands  *)
(* with the backend.  A batch takes one step per page.                     *)
(***************************************************************************)
EXTENDS Integers, Sequences, FiniteSets, FiniteSetsExt, SequencesExt

CONSTANTS
  Class,
  SizeClass,   \* bytes of an object, per class
  BlockBytes,  \* PAGE_SIZE * pg_num: 64 pages of 16 KiB at most
  Block,       \* blocks of the backend, aligned to BlockBytes at least
  WideBlocks,  \* the blocks that happen to be aligned to more
  MaxPages,    \* descriptors, per class (bounds the vector)
  WordBits,    \* bits of a word of the bitmap: 32 in the code
  Align,       \* the alignments requested
  MaxTake,     \* objects an allocation of a batch asks for
  MaxGive,     \* objects a batch gives back
  EmptyLimit,  \* empty_count above which a page is destroyed: 2048 in the code
  Null

ASSUME SlabAssumption ==
  /\ IsFiniteSet(Class) /\ Class # {}
  /\ BlockBytes \in 1 .. 2 ^ 20 /\ SizeClass \in [Class -> 1 .. BlockBytes]
  /\ WideBlocks \subseteq Block /\ Null \notin Block
  /\ MaxPages \in [Class -> Nat] /\ WordBits \in Nat \ {0}
  /\ MaxTake \in Nat /\ MaxGive \in Nat /\ EmptyLimit \in Nat
  /\ 1 \in Align /\ Align \subseteq Nat \ {0}

VARIABLES
  sc,      \* the SCAllocator of each class
  op,      \* what a call inside the lock of a class has left to do
  rd,      \* radix tree: block -> index + 1, or 0
  blocks,  \* blocks the backend holds
  live     \* objects <<class, block, i>> the program holds

vars == <<sc, op, rd, blocks, live>>

Pages == Max({MaxPages[c] : c \in Class})
Page == 0 .. Pages - 1
Kind == {"full", "partial", "empty", "uninit"}

-----------------------------------------------------------------------------
(***************************************************************************)
(* SCAllocator::new: how many objects a block holds and how far apart.     *)
(***************************************************************************)
PgCount(c) == BlockBytes \div SizeClass[c]

NextPowerOfTwo(n) == CHOOSE p \in {2 ^ k : k \in 0 .. 20} : p >= n /\ (p = 1 \/ p \div 2 < n)

PgAlign(c) ==
  LET perfect == BlockBytes \div PgCount(c)
      half == NextPowerOfTwo(perfect - SizeClass[c]) \div 2
      least == IF half = 0 THEN 1 ELSE half
      size == SizeClass[c]
  IN  IF perfect = NextPowerOfTwo(perfect) THEN perfect
      ELSE IF size % least = 0 THEN size ELSE (size \div least + 1) * least

\* The bits of a descriptor: its share of bitfields, in whole words.
Words(c) == (PgCount(c) + WordBits - 1) \div WordBits
Bits(c) == 0 .. Words(c) * WordBits - 1

Aligned(c, b, i, a) ==
  (i * PgAlign(c)) % a = 0 /\ (a <= BlockBytes \/ b \in WideBlocks)

EmptySlab ==
  [start |-> [k \in Kind |-> 0], count |-> [k \in Kind |-> 0], len |-> 0,
   prev |-> [p \in Page |-> p], next |-> [p \in Page |-> p],
   counter |-> [p \in Page |-> 0], bits |-> [p \in Page |-> {}],
   data |-> [p \in Page |-> Null]]

Idle == [kind |-> "idle", want |-> 0, objs |-> <<>>, page |-> 0]

Init ==
  /\ sc = [c \in Class |-> EmptySlab]
  /\ op = [c \in Class |-> Idle]
  /\ rd = [b \in Block |-> 0]
  /\ blocks = Block
  /\ live = {}

-----------------------------------------------------------------------------
(***************************************************************************)
(* ArrayLinkedList: s is the state of one SCAllocator.                     *)
(***************************************************************************)
reset_links(s, i) == [s EXCEPT !.prev[i] = i, !.next[i] = i]

\* Mutant: the neighbours keep pointing at the node.
RemoveNodeOneWay(s, i) == reset_links([s EXCEPT !.next[s.prev[i]] = s.next[i]], i)

remove_node(s, i) ==
  reset_links([s EXCEPT !.prev[s.next[i]] = s.prev[i],
                        !.next[s.prev[i]] = s.next[i]], i)

insert_to_prev(s, base, i) ==
  [s EXCEPT !.next[s.prev[base]] = i, !.prev[base] = i,
            !.next[i] = base, !.prev[i] = s.prev[base]]

\* push: a new descriptor, linked to itself.
push(s) == reset_links([s EXCEPT !.len = @ + 1], s.len)

\* remove_full, remove_partial and remove_uninit.
Unlink(s, k, i) ==
  [remove_node(IF i = s.start[k] THEN [s EXCEPT !.start[k] = s.next[i]] ELSE s, i)
     EXCEPT !.count[k] = @ - 1]

\* insert_full and insert_partial, and the same code in back_uninit and back_ety.
Link(s, k, i) ==
  [IF s.count[k] = 0 THEN reset_links([s EXCEPT !.start[k] = i], i)
   ELSE insert_to_prev(s, s.start[k], i)
     EXCEPT !.count[k] = @ + 1]

\* The node j links behind the start of a ring.
Nth(s, k, j) ==
  LET f[n \in 0 .. Pages] == IF n = 0 THEN s.start[k] ELSE s.next[f[n - 1]]
  IN  f[j]

-----------------------------------------------------------------------------
(***************************************************************************)
(* ObjectPage.                                                             *)
(***************************************************************************)
is_full(c, s, p) == s.counter[p] >= PgCount(c)

\* Mutant: one object left counts as none.
IsEmptyEarly(s, p) == s.counter[p] <= 1

is_empty(s, p) == s.counter[p] = 0

\* The indices first_fit may answer.  It gives up only past pg_count, where the
\* object would not fit in the block any more.
Fits(c, s, p, a) ==
  {i \in Bits(c) \ s.bits[p] :
     /\ Aligned(c, s.data[p], i, a)
     /\ i <= PgCount(c) /\ (i + 1) * PgAlign(c) <= BlockBytes}

CanAllocate(c, s, p, a) == ~ is_full(c, s, p) /\ Fits(c, s, p, a) # {}
first_fit(c, s, p, a) == Min(Fits(c, s, p, a))

SetBits(s, p, I) ==
  [s EXCEPT !.bits[p] = @ \cup I, !.counter[p] = @ + Cardinality(I)]

\* Mutant: the counter is not set to the number of objects.
AllocateAllCounted(c, s, p) == [s EXCEPT !.bits[p] = Bits(c), !.counter[p] = Cardinality(Bits(c))]

allocate_all(c, s, p) == [s EXCEPT !.bits[p] = Bits(c), !.counter[p] = PgCount(c)]

\* The indices allocate_batch takes: the first ones that are free, at most n.
BatchBits(c, s, p, n) ==
  {i \in 0 .. PgCount(c) - 1 :
     i \notin s.bits[p] /\ Cardinality((0 .. i - 1) \ s.bits[p]) < n}

ClearBits(s, p, I) ==
  [s EXCEPT !.bits[p] = @ \ I, !.counter[p] = @ - Cardinality(I)]

\* A page gets its block from the backend, and loses it.
allocate_page(s, p, b) == [s EXCEPT !.data[p] = b]
destroy_page(s, p) == [s EXCEPT !.data[p] = Null]

-----------------------------------------------------------------------------
(***************************************************************************)
(* Taking objects.                                                         *)
(***************************************************************************)
Objects(c, b, I) == {<<c, b, i>> : i \in I}

\* The page leaves the partial ring when it has become full.
MoveIfFull(c, s, p) ==
  IF is_full(c, s, p) THEN Link(Unlink(s, "partial", p), "full", p) ELSE s

\* A page that get_empty has unlinked goes where it belongs now.
Place(c, s, p) == Link(s, IF is_full(c, s, p) THEN "full" ELSE "partial", p)

\* The first page of the partial ring, from partial_start until it comes round,
\* that has an aligned object.
Hit(c, s, a, p) ==
  LET round == Min({j \in 1 .. Pages : Nth(s, "partial", j) = s.start["partial"]}
                     \cup {Pages})
  IN  /\ s.count["partial"] > 0
      /\ \E j \in 0 .. round - 1 :
           /\ p = Nth(s, "partial", j) /\ CanAllocate(c, s, p, a)
           /\ \A i \in 0 .. j - 1 : ~ CanAllocate(c, s, Nth(s, "partial", i), a)

Misses(c, s, a) == \A p \in Page : ~ Hit(c, s, a, p)

TakePartial(c, a, p) ==
  LET s == sc[c]
      i == first_fit(c, s, p, a)
  IN  /\ Hit(c, s, a, p)
      /\ sc' = [sc EXCEPT ![c] = MoveIfFull(c, SetBits(s, p, {i}), p)]
      /\ live' = live \cup {<<c, s.data[p], i>>}
      /\ UNCHANGED <<rd, blocks>>

\* get_uninit pushes a descriptor when the uninit ring is empty.
WithUninit(s) ==
  IF s.count["uninit"] > 0 THEN s
  ELSE [push(s) EXCEPT !.start["uninit"] = s.len, !.count["uninit"] = 1]

\* get_empty: a page that is kept empty, or a descriptor that gets a block of the
\* backend.  The answers are the page, the allocator without it on a ring, and the
\* new block, if any.
GetEmpty(c) ==
  LET s == sc[c]
      u == WithUninit(s)
      p == u.start["uninit"]
  IN  IF s.count["empty"] > 0
      THEN {[page |-> s.start["empty"], slab |-> Unlink(s, "empty", s.start["empty"]), new |-> {}]}
      ELSE IF s.count["uninit"] > 0 \/ s.len < MaxPages[c]
      THEN {[page |-> p, slab |-> allocate_page(Unlink(u, "uninit", p), p, b), new |-> {b}] :
              b \in blocks}
      ELSE {}

\* handle_rd_tree_insert: every page of a new block leads to the index of its
\* descriptor, plus one so that 0 means no entry.
RadixInsert(g) ==
  /\ rd' = [b \in Block |-> IF b \in g.new THEN g.page + 1 ELSE rd[b]]
  /\ blocks' = blocks \ g.new

\* allocate, when no partial page serves: the page is placed even if the object
\* cannot be aligned, and then the call fails.
TakeEmpty(c, a) ==
  \E g \in GetEmpty(c) :
    LET s == g.slab
        p == g.page
        I == IF CanAllocate(c, s, p, a) THEN {first_fit(c, s, p, a)} ELSE {}
    IN  /\ Misses(c, sc[c], a)
        /\ RadixInsert(g)
        /\ sc' = [sc EXCEPT ![c] = Place(c, SetBits(s, p, I), p)]
        /\ live' = live \cup Objects(c, s.data[p], I)

Take(c, a) == (\E p \in Page : TakePartial(c, a, p)) \/ TakeEmpty(c, a)

Allocate(c, a) == op[c] = Idle /\ Take(c, a) /\ UNCHANGED op

\* allocate_batch: one object of a partial page, else a whole page.
AllocateBatchOne(c, a) ==
  /\ op[c] = Idle
  /\ \E p \in Page : TakePartial(c, a, p)
  /\ UNCHANGED op

TakeAll(c, g) ==
  /\ RadixInsert(g)
  /\ sc' = [sc EXCEPT ![c] = Place(c, allocate_all(c, g.slab, g.page), g.page)]
  /\ live' = live \cup Objects(c, g.slab.data[g.page], 0 .. PgCount(c) - 1)

AllocateBatchPage(c, a) ==
  /\ op[c] = Idle /\ Misses(c, sc[c], a)
  /\ \E g \in GetEmpty(c) : TakeAll(c, g)
  /\ UNCHANGED op

\* allocate_batch_v2: one object by allocate, the others page by page.
AllocateBatchV2(c, count) ==
  /\ op[c] = Idle
  /\ Take(c, 1)
  /\ op' = [op EXCEPT ![c] = IF count = 1 THEN Idle
                             ELSE [Idle EXCEPT !.kind = "take", !.want = count - 1]]

Wants(c, n) ==
  LET o == op[c]
  IN  op' = [op EXCEPT ![c] = IF n = o.want THEN Idle ELSE [o EXCEPT !.want = @ - n]]

BatchFromPartial(c) ==
  LET s == sc[c]
      p == s.start["partial"]
      I == BatchBits(c, s, p, op[c].want)
  IN  /\ op[c].kind = "take" /\ s.count["partial"] > 0
      /\ ~ is_full(c, s, p)
      /\ sc' = [sc EXCEPT ![c] = MoveIfFull(c, SetBits(s, p, I), p)]
      /\ live' = live \cup Objects(c, s.data[p], I)
      /\ Wants(c, Cardinality(I))
      /\ UNCHANGED <<rd, blocks>>

BatchFromEmpty(c) ==
  LET want == op[c].want
  IN  /\ op[c].kind = "take" /\ sc[c].count["partial"] = 0
      /\ \E g \in GetEmpty(c) :
           \/ /\ want >= PgCount(c)
              /\ TakeAll(c, g)
              /\ Wants(c, PgCount(c))
           \/ LET I == BatchBits(c, g.slab, g.page, want)
              IN  /\ want < PgCount(c)
                  /\ RadixInsert(g)
                  /\ sc' = [sc EXCEPT ![c] = Link(SetBits(g.slab, g.page, I), "partial", g.page)]
                  /\ live' = live \cup Objects(c, g.slab.data[g.page], I)
                  /\ Wants(c, Cardinality(I))

-----------------------------------------------------------------------------
(***************************************************************************)
(* Giving objects back.                                                    *)
(***************************************************************************)
\* The page leaves its ring when it was full or has become empty.
Settle(c, s, p, wasFull) ==
  IF wasFull THEN Unlink(s, "full", p)
  ELSE IF is_empty(s, p) THEN Unlink(s, "partial", p) ELSE s

\* Mutant: the entry of a destroyed page stays.
RadixRemoveNothing(b) == UNCHANGED rd

\* handle_rd_tree_remove
RadixRemove(b) == rd' = [rd EXCEPT ![b] = 0]

\* What follows: back on the partial ring, on the empty one (back_ety), or
\* destroyed, for which the radix tree forgets the block first (try_back_ety).
GiveRun(c, p, I, rest) ==
  LET s == sc[c]
      given == ClearBits(s, p, I)
      t == Settle(c, given, p, is_full(c, s, p))
      done == IF rest = <<>> THEN Idle ELSE [Idle EXCEPT !.kind = "give", !.objs = rest]
  IN  /\ I \subseteq s.bits[p]         \* else EDBFRE, or the assertion on the bits
      /\ live' = live \ Objects(c, s.data[p], I)
      /\ UNCHANGED blocks
      /\ \/ /\ ~ is_empty(given, p)
            /\ sc' = [sc EXCEPT ![c] =
                        IF is_full(c, s, p) THEN Link(t, "partial", p) ELSE t]
            /\ op' = [op EXCEPT ![c] = done]
            /\ UNCHANGED rd
         \/ /\ is_empty(given, p) /\ s.count["empty"] <= EmptyLimit
            /\ sc' = [sc EXCEPT ![c] = Link(t, "empty", p)]
            /\ op' = [op EXCEPT ![c] = done]
            /\ UNCHANGED rd
         \/ /\ is_empty(given, p) /\ s.count["empty"] > EmptyLimit
            /\ sc' = [sc EXCEPT ![c] = t]
            /\ RadixRemove(s.data[p])
            /\ op' = [op EXCEPT ![c] =
                        [done EXCEPT !.kind = "destroy", !.page = p]]

Deallocate(c, o) ==
  /\ op[c] = Idle /\ o \in live /\ o[1] = c
  /\ rd[o[2]] # 0
  /\ GiveRun(c, rd[o[2]] - 1, {o[3]}, <<>>)

\* deallocate_batch: the call ...
DeallocateBatch(c, objs) ==
  /\ op[c] = Idle
  /\ ToSet(objs) \subseteq live /\ \A k \in DOMAIN objs : objs[k][1] = c
  /\ op' = [op EXCEPT ![c] = [Idle EXCEPT !.kind = "give", !.objs = objs]]
  /\ UNCHANGED <<sc, rd, blocks, live>>

\* ... and one round of its loop: the objects of one page that come first.
BatchRun(c) ==
  LET objs == op[c].objs
      b == objs[1][2]
      n == Max({k \in DOMAIN objs : \A j \in 1 .. k : objs[j][2] = b})
  IN  /\ op[c].kind = "give"
      /\ rd[b] # 0
      /\ GiveRun(c, rd[b] - 1, {objs[j][3] : j \in 1 .. n}, SubSeq(objs, n + 1, Len(objs)))

\* back_uninit: the descriptor is kept and its block goes to the backend.
BackUninit(c) ==
  LET p == op[c].page
      b == sc[c].data[p]
  IN  /\ op[c].kind = "destroy"
      /\ sc' = [sc EXCEPT ![c] = Link(destroy_page(sc[c], p), "uninit", p)]
      /\ blocks' = blocks \cup {b}
      /\ op' = [op EXCEPT ![c] = IF op[c].objs = <<>> THEN Idle ELSE [@ EXCEPT !.kind = "give"]]
      /\ UNCHANGED <<rd, live>>

LiveOf(c) == {o \in live : o[1] = c}

Next ==
  \E c \in Class :
    \/ \E a \in Align : Allocate(c, a) \/ AllocateBatchOne(c, a) \/ AllocateBatchPage(c, a)
    \/ \E n \in 1 .. MaxTake : AllocateBatchV2(c, n)
    \/ BatchFromPartial(c)
    \/ BatchFromEmpty(c)
    \/ \E o \in LiveOf(c) : Deallocate(c, o)
    \/ \E S \in {T \in SUBSET LiveOf(c) : Cardinality(T) \in 1 .. MaxGive} :
         \E objs \in SetToSeqs(S) : DeallocateBatch(c, objs)
    \/ BatchRun(c)
    \/ BackUninit(c)

Spec == Init /\ [][Next]_vars
-----------------------------------------------------------------------------
(***************************************************************************)
(* Properties.                                                             *)
(***************************************************************************)
Ring(c, k) == {Nth(sc[c], k, j) : j \in 0 .. sc[c].count[k] - 1}

\* A page is on no ring while a call destroys it.
Unlinked(c) == IF op[c].kind = "destroy" THEN {op[c].page} ELSE {}

\* Following next from the start of a ring for count links visits count pages
\* and comes back, prev leads the other way, every descriptor of the vector is on
\* one ring, and the ring says what state its page is in.
RingsPartitionPages ==
  \A c \in Class :
    /\ \A k \in Kind :
         LET n == sc[c].count[k]
         IN  /\ Cardinality(Ring(c, k)) = n
             /\ n > 0 => Nth(sc[c], k, n) = sc[c].start[k]
             /\ \A p \in Ring(c, k) : sc[c].prev[sc[c].next[p]] = p
    /\ \A k, l \in Kind : k # l => Ring(c, k) \cap Ring(c, l) = {}
    /\ (UNION {Ring(c, k) : k \in Kind}) \cup Unlinked(c) = 0 .. sc[c].len - 1
    /\ \A p \in Ring(c, "full") : is_full(c, sc[c], p)
    /\ \A p \in Ring(c, "partial") : ~ is_full(c, sc[c], p)
    /\ \A p \in Ring(c, "empty") \cup Ring(c, "uninit") : is_empty(sc[c], p)
    /\ \A p \in 0 .. sc[c].len - 1 : sc[c].data[p] = Null <=> p \in Ring(c, "uninit")

\* counter and bitmap of a page agree with the objects the program holds, although
\* allocate_all also sets the bits of the last word that stand for no object.
BitsMatchLive ==
  \A c \in Class : \A p \in 0 .. sc[c].len - 1 :
    LET mine == {o \in LiveOf(c) : o[2] = sc[c].data[p]}
    IN  /\ sc[c].counter[p] = Cardinality(mine)
        /\ sc[c].bits[p] \cap (0 .. PgCount(c) - 1) = {o[3] : o \in mine}

\* An address leads to the descriptor that owns its block, whatever the other
\* classes do between the removal of an entry and the return of the block.
RadixMatchesPages ==
  /\ \A c \in Class : \A p \in 0 .. sc[c].len - 1 :
       sc[c].data[p] # Null /\ p \notin Unlinked(c) => rd[sc[c].data[p]] = p + 1
  /\ \A b \in blocks : rd[b] = 0

\* The program sees an allocator: what is handed out overlaps nothing in use and
\* lies inside its block.  A batch hands out, or takes back, several at once.
NoOverlap ==
  \A o, q \in live :
    LET first(x) == x[3] * PgAlign(x[1])
    IN  /\ first(o) + SizeClass[o[1]] <= BlockBytes
        /\ o # q /\ o[2] = q[2] =>
             \/ first(o) + SizeClass[o[1]] <= first(q)
             \/ first(q) + SizeClass[q[1]] <= first(o)
=============================================================================
